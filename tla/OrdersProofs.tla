---------------------------- MODULE OrdersProofs ----------------------------
(***************************************************************************)
(* What holds of storefront orders for every number of orders, requests    *)
(* and Scouts, every cart and every set of allocation rules.  The amount   *)
(* credited is only known through Creditable: no arithmetic of the rule is *)
(* needed.                                                                 *)
(***************************************************************************)
EXTENDS Orders, TLAPS

Inv == /\ TypeOK
       /\ RequestsAreSound
       /\ CreditsAreBacked
       /\ CreditedOrdersAreRecorded
       /\ ReadyOrdersAreAttended

\* The fields of a request record.
LEMMA AtFields ==
    ASSUME NEW step, NEW o, NEW s
    PROVE  /\ At(step, o, s).step = step
           /\ At(step, o, s).order = o
           /\ At(step, o, s).scout = s
BY DEF At

\* A finished request is well typed and under way with nothing.
LEMMA DoneType == Done \in Request /\ Done.step = "done"
BY DEF Done, At, Request

\* What an UPDATE of one order changes.
LEMMA UpdateEffect ==
    ASSUME TypeOK, NEW o \in Orders, NEW st \in Statuses,
           NEW s \in Scouts \cup {NoScout}, NEW a \in Requests \cup {NoAllocation},
           Update(o, st, s, a)
    PROVE  /\ order' \in [Orders -> Order]
           /\ order'[o].status = st
           /\ order'[o].scout = s
           /\ order'[o].allocation = a
           /\ order'[o].cart = order[o].cart
           /\ \A p \in Orders \ {o} : order'[p] = order[p]
BY DEF TypeOK, Update, Order

\* A typed order's fields.
LEMMA OrderFields ==
    ASSUME TypeOK, NEW o \in Orders
    PROVE  /\ order[o].status \in Statuses \cup {"absent"}
           /\ order[o].scout \in Scouts \cup {NoScout}
           /\ order[o].allocation \in Requests \cup {NoAllocation}
           /\ order[o].cart \in Carts
BY DEF TypeOK, Order

-----------------------------------------------------------------------------
(* Steps that write an order.                                              *)

\* A new order is pending and uncredited; no request or credit names it yet.
LEMMA PlaceKeepsInv ==
    ASSUME Inv, NEW o \in Orders, FundraiserPlaceOrder(o)
    PROVE  Inv'
<1>1. /\ order[o].status = "absent"
      /\ UNCHANGED <<rule, credit, allocated, request, failed>>
  BY DEF FundraiserPlaceOrder, Exists
<1>2. /\ order' \in [Orders -> Order]
      /\ order'[o].status = "pending"
      /\ order'[o].allocation = NoAllocation
      /\ \A p \in Orders \ {o} : order'[p] = order[p]
  BY DEF FundraiserPlaceOrder, Inv, TypeOK, Order, Statuses
<1>3. TypeOK'
  BY <1>1, <1>2 DEF Inv, TypeOK
<1>4. RequestsAreSound'
  BY <1>1, <1>2 DEF Inv, RequestsAreSound, Exists
<1>5. CreditsAreBacked'
  <2>1. \A r \in Requests : credit[r] # NoCredit => credit[r].order \in Orders \ {o}
    BY <1>1 DEF Inv, TypeOK, Credit, CreditsAreBacked
  <2>. QED
    BY <1>1, <1>2, <2>1 DEF Inv, CreditsAreBacked
<1>6. CreditedOrdersAreRecorded'
  BY <1>1, <1>2 DEF Inv, CreditedOrdersAreRecorded
<1>7. ReadyOrdersAreAttended'
  BY <1>1, <1>2 DEF Inv, ReadyOrdersAreAttended
<1>. QED
  BY <1>3, <1>4, <1>5, <1>6, <1>7 DEF Inv

\* A request that starts on an order, which it may mark paid or give a Scout,
\* will check it: the order is attended.
LEMMA StartKeepsInv ==
    ASSUME Inv, NEW r \in Requests, NEW o \in Orders, request[r].step = "new",
           NEW s \in Scouts \cup {NoScout}, NEW st \in Statuses,
           Exists(o), st \in {Paid(o), order[o].status},
           Update(o, st, s, order[o].allocation),
           request' = [request EXCEPT ![r] = At("check", o, NoScout)],
           UNCHANGED <<rule, credit, allocated, failed>>
    PROVE  Inv'
<1>1. /\ order' \in [Orders -> Order]
      /\ order'[o].status = st
      /\ order'[o].allocation = order[o].allocation
      /\ order'[o].cart = order[o].cart
      /\ \A p \in Orders \ {o} : order'[p] = order[p]
  BY OrderFields, UpdateEffect DEF Inv
<1>2. /\ order[o].status # "pending" => st = order[o].status
      /\ st = "credited" <=> order[o].status = "credited"
      /\ st # "absent"
  BY DEF Paid, Statuses
<1>3. /\ request' \in [Requests -> Request]
      /\ request'[r].step = "check" /\ request'[r].order = o
      /\ \A q \in Requests \ {r} : request'[q] = request[q]
  <2>1. At("check", o, NoScout) \in Request
    BY DEF At, Request
  <2>. QED
    BY <2>1, AtFields DEF Inv, TypeOK
<1>4. TypeOK'
  BY <1>1, <1>3 DEF Inv, TypeOK
<1>5. RequestsAreSound'
  BY <1>1, <1>2, <1>3 DEF Inv, RequestsAreSound, Exists
<1>6. CreditsAreBacked'
  <2>. SUFFICES ASSUME NEW q \in Requests, credit[q] # NoCredit
                PROVE  /\ order'[credit[q].order].status \in {"paid", "credited", "canceled"}
                       /\ credit[q].amount \in 1..order'[credit[q].order].cart.total
    BY DEF CreditsAreBacked
  <2>1. credit[q].order \in Orders
    BY DEF Inv, TypeOK, Credit
  <2>. QED
    BY <1>1, <1>2, <2>1 DEF Inv, CreditsAreBacked
<1>7. CreditedOrdersAreRecorded'
  BY <1>1, <1>2 DEF Inv, CreditedOrdersAreRecorded
<1>8. ReadyOrdersAreAttended'
  BY <1>1, <1>3 DEF Inv, ReadyOrdersAreAttended
<1>. QED
  BY <1>4, <1>5, <1>6, <1>7, <1>8 DEF Inv

\* Canceling never touches a credited order.
LEMMA CancelKeepsInv ==
    ASSUME Inv, NEW o \in Orders, CancelFundraiserOrder(o)
    PROVE  Inv'
<1>1. /\ order[o].status \in {"pending", "paid"}
      /\ UNCHANGED <<rule, credit, allocated, request, failed>>
  BY DEF CancelFundraiserOrder
<1>2. /\ order' \in [Orders -> Order]
      /\ order'[o].status = "canceled"
      /\ order'[o].allocation = order[o].allocation
      /\ order'[o].cart = order[o].cart
      /\ \A p \in Orders \ {o} : order'[p] = order[p]
  BY OrderFields, UpdateEffect DEF Inv, CancelFundraiserOrder, UpdateStatus, Statuses
<1>3. TypeOK'
  BY <1>1, <1>2 DEF Inv, TypeOK
<1>4. RequestsAreSound'
  BY <1>1, <1>2 DEF Inv, RequestsAreSound, Exists
<1>5. CreditsAreBacked'
  <2>. SUFFICES ASSUME NEW q \in Requests, credit[q] # NoCredit
                PROVE  /\ order'[credit[q].order].status \in {"paid", "credited", "canceled"}
                       /\ credit[q].amount \in 1..order'[credit[q].order].cart.total
    BY <1>1 DEF CreditsAreBacked
  <2>1. credit[q].order \in Orders
    BY DEF Inv, TypeOK, Credit
  <2>. QED
    BY <1>2, <2>1 DEF Inv, CreditsAreBacked
<1>6. CreditedOrdersAreRecorded'
  BY <1>1, <1>2 DEF Inv, CreditedOrdersAreRecorded
<1>7. ReadyOrdersAreAttended'
  BY <1>1, <1>2 DEF Inv, ReadyOrdersAreAttended
<1>. QED
  BY <1>3, <1>4, <1>5, <1>6, <1>7 DEF Inv

\* Crediting names an allocation of this very order.
LEMMA MarkCreditedKeepsInv ==
    ASSUME Inv, NEW r \in Requests, MarkCredited(r)
    PROVE  Inv'
<1>. DEFINE o == request[r].order
<1>1. /\ request[r].step = "recorded"
      /\ o \in Orders
      /\ r \in allocated /\ credit[r] # NoCredit /\ credit[r].order = o
      /\ request' = [request EXCEPT ![r] = Done]
      /\ UNCHANGED <<rule, credit, allocated, failed>>
  BY DEF MarkCredited, Inv, RequestsAreSound
<1>2. /\ order' \in [Orders -> Order]
      /\ order'[o].status = "credited"
      /\ order'[o].allocation = r
      /\ order'[o].cart = order[o].cart
      /\ \A p \in Orders \ {o} : order'[p] = order[p]
  BY <1>1, OrderFields, UpdateEffect DEF Inv, MarkCredited, Statuses
<1>3. /\ request' \in [Requests -> Request]
      /\ request'[r].step = "done"
      /\ \A q \in Requests \ {r} : request'[q] = request[q]
  BY <1>1, DoneType DEF Inv, TypeOK
<1>4. TypeOK'
  BY <1>1, <1>2, <1>3 DEF Inv, TypeOK
<1>5. RequestsAreSound'
  BY <1>1, <1>2, <1>3 DEF Inv, RequestsAreSound, Exists
<1>6. CreditsAreBacked'
  <2>. SUFFICES ASSUME NEW q \in Requests, credit[q] # NoCredit
                PROVE  /\ order'[credit[q].order].status \in {"paid", "credited", "canceled"}
                       /\ credit[q].amount \in 1..order'[credit[q].order].cart.total
    BY <1>1 DEF CreditsAreBacked
  <2>1. credit[q].order \in Orders
    BY DEF Inv, TypeOK, Credit
  <2>. QED
    BY <1>2, <2>1 DEF Inv, CreditsAreBacked
<1>7. CreditedOrdersAreRecorded'
  BY <1>1, <1>2, NamesAssumption DEF Inv, CreditedOrdersAreRecorded
<1>8. ReadyOrdersAreAttended'
  BY <1>1, <1>2, <1>3 DEF Inv, ReadyOrdersAreAttended
<1>. QED
  BY <1>4, <1>5, <1>6, <1>7, <1>8 DEF Inv

-----------------------------------------------------------------------------
(* Steps that leave the orders alone.                                      *)

\* The order is found ready and stays attended, or it is not ready: paid and
\* resolved but credited already cannot be, by CreditedOrdersAreRecorded.
LEMMA CheckKeepsInv ==
    ASSUME Inv, NEW r \in Requests, CheckOrder(r)
    PROVE  Inv'
<1>. DEFINE o == request[r].order
            j == IF ReadyToCredit(o) THEN At("ready", o, order[o].scout) ELSE Done
<1>1. /\ request[r].step = "check"
      /\ o \in Orders /\ Exists(o) /\ credit[r] = NoCredit
      /\ request' = [request EXCEPT ![r] = j]
      /\ UNCHANGED <<order, rule, credit, allocated, failed>>
  BY DEF CheckOrder, Inv, RequestsAreSound
<1>2. /\ j \in Request
      /\ ReadyToCredit(o) => /\ j.step = "ready" /\ j.order = o
                             /\ j.scout \in Scouts /\ order[o].status = "paid"
      /\ ~ReadyToCredit(o) => j.step = "done"
  <2>1. CASE ReadyToCredit(o)
    <3>1. order[o].scout \in Scouts
      BY <1>1, <2>1, OrderFields DEF ReadyToCredit, Inv
    <3>2. At("ready", o, order[o].scout) \in Request
      BY <1>1, <3>1 DEF At, Request
    <3>. QED
      BY <2>1, <3>1, <3>2, AtFields DEF ReadyToCredit
  <2>2. CASE ~ReadyToCredit(o)
    BY <2>2, DoneType
  <2>. QED
    BY <2>1, <2>2
<1>. HIDE DEF j
<1>3. /\ request' \in [Requests -> Request]
      /\ request'[r] = j
      /\ \A q \in Requests \ {r} : request'[q] = request[q]
  BY <1>1, <1>2 DEF Inv, TypeOK
<1>4. TypeOK'
  BY <1>1, <1>3 DEF Inv, TypeOK
<1>5. RequestsAreSound'
  BY <1>1, <1>2, <1>3 DEF Inv, RequestsAreSound, Exists
<1>6. CreditsAreBacked' /\ CreditedOrdersAreRecorded'
  BY <1>1 DEF Inv, CreditsAreBacked, CreditedOrdersAreRecorded
<1>7. ReadyOrdersAreAttended'
  <2>. SUFFICES ASSUME NEW p \in Orders, order[p].status = "paid",
                       order[p].scout # NoScout, p \notin failed
                PROVE  \E q \in Requests :
                         /\ request'[q].order = p
                         /\ request'[q].step \in {"check", "ready", "posted", "recorded"}
    BY <1>1 DEF ReadyOrdersAreAttended
  <2>1. CASE p = o
    <3>1. ReadyToCredit(o)
      BY <2>1, <1>1 DEF ReadyToCredit, Inv, CreditedOrdersAreRecorded
    <3>. QED
      BY <1>2, <1>3, <2>1, <3>1
  <2>2. CASE p # o
    BY <1>1, <1>3, <2>2 DEF Inv, ReadyOrdersAreAttended
  <2>. QED
    BY <2>1, <2>2
<1>. QED
  BY <1>4, <1>5, <1>6, <1>7 DEF Inv

\* The ledger entry is for an order that was paid when it was checked.
LEMMA PostKeepsInv ==
    ASSUME Inv, NEW r \in Requests, PostCredit(r)
    PROVE  Inv'
<1>. DEFINE o == request[r].order
            s == request[r].scout
            amt == CreditedCents(rule, order[o].cart)
            c == [order |-> o, scout |-> s, amount |-> amt]
<1>1. /\ request[r].step = "ready"
      /\ o \in Orders /\ Exists(o) /\ s \in Scouts /\ order[o].status # "pending"
      /\ credit[r] = NoCredit
      /\ amt \in 1..order[o].cart.total
      /\ credit' = [credit EXCEPT ![r] = c]
      /\ request' = [request EXCEPT ![r] = At("posted", o, s)]
      /\ UNCHANGED <<order, rule, allocated, failed>>
  BY DEF PostCredit, Creditable, Inv, RequestsAreSound
<1>. HIDE DEF amt
<1>2. order[o].cart.total \in Nat
  BY <1>1, OrderFields, CartsAssumption DEF Inv
<1>3. c \in Credit /\ c # NoCredit
  <2>1. amt \in Nat
    BY <1>1, <1>2
  <2>. QED
    BY <1>1, <2>1, NoCreditAssumption DEF Credit
<1>4. /\ credit'[r] = c
      /\ \A q \in Requests \ {r} : credit'[q] = credit[q]
      /\ credit' \in [Requests -> Credit \cup {NoCredit}]
  BY <1>1, <1>3 DEF Inv, TypeOK
<1>5. /\ request' \in [Requests -> Request]
      /\ request'[r].step = "posted" /\ request'[r].order = o /\ request'[r].scout = s
      /\ \A q \in Requests \ {r} : request'[q] = request[q]
  <2>1. At("posted", o, s) \in Request
    BY <1>1 DEF At, Request
  <2>. QED
    BY <1>1, <2>1, AtFields DEF Inv, TypeOK
<1>6. TypeOK'
  BY <1>1, <1>4, <1>5 DEF Inv, TypeOK
<1>7. RequestsAreSound'
  BY <1>1, <1>3, <1>4, <1>5 DEF Inv, RequestsAreSound, Exists
<1>8. CreditsAreBacked'
  <2>1. order[o].status \in {"paid", "credited", "canceled"}
    BY <1>1, OrderFields DEF Inv, Exists, Statuses
  <2>. QED
    BY <1>1, <1>4, <2>1 DEF Inv, CreditsAreBacked
<1>9. CreditedOrdersAreRecorded'
  BY <1>1, <1>3, <1>4, OrderFields DEF Inv, CreditedOrdersAreRecorded
<1>10. ReadyOrdersAreAttended'
  BY <1>1, <1>5 DEF Inv, ReadyOrdersAreAttended
<1>. QED
  BY <1>6, <1>7, <1>8, <1>9, <1>10 DEF Inv

\* Writing the allocation row.
LEMMA RecordKeepsInv ==
    ASSUME Inv, NEW r \in Requests, RecordAllocation(r)
    PROVE  Inv'
<1>. DEFINE o == request[r].order
            s == request[r].scout
<1>1. /\ request[r].step = "posted"
      /\ o \in Orders /\ s \in Scouts
      /\ allocated' = allocated \cup {r}
      /\ request' = [request EXCEPT ![r] = At("recorded", o, s)]
      /\ UNCHANGED <<order, rule, credit, failed>>
  BY DEF RecordAllocation, Inv, RequestsAreSound
<1>2. /\ request' \in [Requests -> Request]
      /\ request'[r].step = "recorded" /\ request'[r].order = o /\ request'[r].scout = s
      /\ \A q \in Requests \ {r} : request'[q] = request[q]
  <2>1. At("recorded", o, s) \in Request
    BY <1>1 DEF At, Request
  <2>. QED
    BY <1>1, <2>1, AtFields DEF Inv, TypeOK
<1>3. TypeOK'
  BY <1>1, <1>2 DEF Inv, TypeOK
<1>4. RequestsAreSound'
  BY <1>1, <1>2 DEF Inv, RequestsAreSound, Exists
<1>5. CreditsAreBacked' /\ CreditedOrdersAreRecorded'
  BY <1>1 DEF Inv, CreditsAreBacked, CreditedOrdersAreRecorded
<1>6. ReadyOrdersAreAttended'
  BY <1>1, <1>2 DEF Inv, ReadyOrdersAreAttended
<1>. QED
  BY <1>3, <1>4, <1>5, <1>6 DEF Inv

\* A request that stops early leaves its order among the failed ones.
LEMMA StopKeepsInv ==
    ASSUME Inv, NEW r \in Requests, Abandon(r) \/ CreditRefused(r)
    PROVE  Inv'
<1>1. /\ request[r].order \in Orders
      /\ request' = [request EXCEPT ![r] = Done]
      /\ failed' = failed \cup {request[r].order}
      /\ UNCHANGED <<order, rule, credit, allocated>>
  BY DEF Abandon, CreditRefused, Inv, RequestsAreSound
<1>2. /\ request' \in [Requests -> Request]
      /\ request'[r].step = "done"
      /\ \A q \in Requests \ {r} : request'[q] = request[q]
  BY <1>1, DoneType DEF Inv, TypeOK
<1>3. TypeOK'
  BY <1>1, <1>2 DEF Inv, TypeOK
<1>4. RequestsAreSound'
  BY <1>1, <1>2 DEF Inv, RequestsAreSound, Exists
<1>5. CreditsAreBacked' /\ CreditedOrdersAreRecorded'
  BY <1>1 DEF Inv, CreditsAreBacked, CreditedOrdersAreRecorded
<1>6. ReadyOrdersAreAttended'
  BY <1>1, <1>2 DEF Inv, ReadyOrdersAreAttended
<1>. QED
  BY <1>3, <1>4, <1>5, <1>6 DEF Inv

-----------------------------------------------------------------------------
(* The invariant.                                                          *)

\* It holds before the first order.
LEMMA InitInv == ASSUME Init PROVE Inv
<1>1. TypeOK
  BY DEF Init, TypeOK, Order, At, Request
<1>2. /\ \A o \in Orders : order[o].status = "absent" /\ order[o].allocation = NoAllocation
      /\ \A r \in Requests : credit[r] = NoCredit /\ request[r].step = "new"
  BY AtFields DEF Init
<1>. QED
  BY <1>1, <1>2 DEF Inv, RequestsAreSound, CreditsAreBacked, CreditedOrdersAreRecorded,
                    ReadyOrdersAreAttended

\* Every step keeps it.
LEMMA NextKeepsInv == ASSUME Inv, [Next]_vars PROVE Inv'
<1>1. CASE UNCHANGED vars
  BY <1>1 DEF Inv, vars, TypeOK, RequestsAreSound, CreditsAreBacked,
              CreditedOrdersAreRecorded, ReadyOrdersAreAttended, Exists
<1>2. CASE ConfirmFundraiserCap
  BY <1>2 DEF ConfirmFundraiserCap, Inv, TypeOK, RequestsAreSound, CreditsAreBacked,
              CreditedOrdersAreRecorded, ReadyOrdersAreAttended, Exists
<1>3. ASSUME NEW r \in Requests, NEW o \in Orders, MarkFundraiserOrderPaid(r, o)
      PROVE  Inv'
  <2>1. Paid(o) \in Statuses /\ order[o].scout \in Scouts \cup {NoScout}
    BY <1>3, OrderFields DEF Inv, MarkFundraiserOrderPaid, Paid, Exists, Statuses
  <2>. QED
    BY <1>3, <2>1, StartKeepsInv DEF MarkFundraiserOrderPaid, UpdateStatus
<1>4. ASSUME NEW r \in Requests, NEW o \in Orders, NEW s \in Scouts,
             ResolveFundraiserOrderScout(r, o, s)
      PROVE  Inv'
  <2>1. order[o].status \in Statuses
    BY <1>4, OrderFields DEF Inv, ResolveFundraiserOrderScout, Exists
  <2>. QED
    BY <1>4, <2>1, StartKeepsInv DEF ResolveFundraiserOrderScout
<1>5. ASSUME NEW o \in Orders, FundraiserPlaceOrder(o) \/ CancelFundraiserOrder(o)
      PROVE  Inv'
  BY <1>5, PlaceKeepsInv, CancelKeepsInv
<1>6. ASSUME NEW r \in Requests, Continue(r) \/ Abandon(r) PROVE Inv'
  BY <1>6, CheckKeepsInv, PostKeepsInv, RecordKeepsInv, MarkCreditedKeepsInv,
     StopKeepsInv DEF Continue
<1>. QED
  BY <1>1, <1>2, <1>3, <1>4, <1>5, <1>6 DEF Next

\* The invariant of the specification.
LEMMA InvHolds == Spec => []Inv
BY InitInv, NextKeepsInv, PTL DEF Spec

-----------------------------------------------------------------------------
(* Theorems.                                                               *)

\* Rows and requests stay in their types; in particular only a resolved Scout
\* is ever credited.
THEOREM TypeCorrect == Spec => []TypeOK
<1>1. Inv => TypeOK
  BY DEF Inv
<1>. QED
  BY <1>1, InvHolds, PTL

\* No order is credited before it is paid for, nor for more than was paid.
THEOREM NoPhantomBalance == Spec => []CreditsAreBacked
<1>1. Inv => CreditsAreBacked
  BY DEF Inv
<1>. QED
  BY <1>1, InvHolds, PTL

\* A credited order and its allocation name each other.
THEOREM CreditedIsRecorded == Spec => []CreditedOrdersAreRecorded
<1>1. Inv => CreditedOrdersAreRecorded
  BY DEF Inv
<1>. QED
  BY <1>1, InvHolds, PTL

\* Payment and Scout may arrive in either order, or at once: somebody credits.
THEOREM NoLostTrigger == Spec => []ReadyOrdersAreAttended
<1>1. Inv => ReadyOrdersAreAttended
  BY DEF Inv
<1>. QED
  BY <1>1, InvHolds, PTL

\* No step takes an order out of credited or edits a posted credit.
THEOREM CreditsKept == Spec => CreditsAreFinal
<1>. DEFINE Kept ==
       /\ \A o \in Orders : order[o].status = "credited" => order'[o].status = "credited"
       /\ \A r \in Requests : credit[r] # NoCredit => credit'[r] = credit[r]
<1>1. ASSUME Inv, Next PROVE Kept
  <2>1. ASSUME NEW o \in Orders, FundraiserPlaceOrder(o) PROVE Kept
    BY <1>1, <2>1 DEF FundraiserPlaceOrder, Exists, Inv, TypeOK
  <2>2. ASSUME NEW o \in Orders, CancelFundraiserOrder(o) PROVE Kept
    BY <1>1, <2>2 DEF CancelFundraiserOrder, UpdateStatus, Update, Inv, TypeOK
  <2>3. ASSUME NEW r \in Requests, NEW o \in Orders, MarkFundraiserOrderPaid(r, o)
        PROVE  Kept
    <3>1. order[o].status = "credited" => Paid(o) = "credited"
      BY DEF Paid
    <3>. QED
      BY <1>1, <2>3, <3>1 DEF MarkFundraiserOrderPaid, UpdateStatus, Update, Inv, TypeOK
  <2>4. ASSUME NEW r \in Requests, NEW o \in Orders, NEW s \in Scouts,
               ResolveFundraiserOrderScout(r, o, s)
        PROVE  Kept
    BY <1>1, <2>4 DEF ResolveFundraiserOrderScout, Update, Inv, TypeOK
  <2>5. ASSUME NEW r \in Requests, Continue(r) \/ Abandon(r) PROVE Kept
    <3>1. CASE MarkCredited(r)
      BY <1>1, <3>1 DEF MarkCredited, Update, Inv, TypeOK, RequestsAreSound
    <3>2. CASE PostCredit(r)
      BY <1>1, <3>2 DEF PostCredit, Inv, TypeOK, RequestsAreSound
    <3>3. CASE UNCHANGED <<order, credit>>
      BY <3>3
    <3>. QED
      BY <2>5, <3>1, <3>2, <3>3
         DEF Continue, CheckOrder, CreditRefused, RecordAllocation, Abandon
  <2>6. CASE ConfirmFundraiserCap
    BY <2>6 DEF ConfirmFundraiserCap
  <2>. QED
    BY <1>1, <2>1, <2>2, <2>3, <2>4, <2>5, <2>6 DEF Next
<1>2. Inv /\ [Next]_vars => [Kept]_vars
  BY <1>1
<1>. QED
  BY <1>2, InvHolds, PTL DEF Spec, CreditsAreFinal
=============================================================================
