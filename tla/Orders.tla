------------------------------- MODULE Orders -------------------------------
(***************************************************************************)
(* A fundraiser's storefront orders (internal/ledger/fundraiser_storefront *)
(* and RecordFundraiserAllocation) behind the public order form and the    *)
(* Treasury's order queue (internal/web).                                  *)
(*                                                                         *)
(* A buyer's order is credited to a Scout's account once a Treasurer has   *)
(* marked it paid and its Scout is resolved; whichever happens second is   *)
(* to trigger the credit.  No database transaction spans the read that     *)
(* decides, the ledger entry, the allocation row and the order's UPDATE:   *)
(* each is a step of the request, and other requests come in between.      *)
(*                                                                         *)
(* A request runs once, so the ledger entry and the allocation it writes   *)
(* are named after it.  The general fund and the Scouts' accounts are      *)
(* never closed by the code, so PostTransaction's own checks pass.         *)
(***************************************************************************)
EXTENDS Integers

CONSTANTS
    Requests,   \* the Mark-paid and Resolve-Scout requests Treasurers will send
    Orders,     \* rows of fundraiser_orders
    Scouts,     \* youth members of the unit
    NoScout,    \* scout_member_id IS NULL
    Carts,      \* what buyers may order: [total : cents, quantity : items]
    Rules,      \* the fundraiser's allocation rules: [mode, value]
    NoOrder, NoCredit, NoAllocation

ASSUME NamesAssumption ==
    /\ NoScout \notin Scouts
    /\ NoOrder \notin Orders
    /\ NoAllocation \notin Requests

\* CreateFundraiserOrder accepts only positive prices, quantities and totals.
ASSUME CartsAssumption ==
    Carts \subseteq [total : Nat \ {0}, quantity : Nat \ {0}]

ASSUME RulesAssumption ==
    Rules \subseteq [mode : {"percentage", "fixed_per_item"}, value : Nat]

Credit == [order : Orders, scout : Scouts, amount : Nat]
ASSUME NoCreditAssumption == NoCredit \notin Credit

VARIABLES
    order,      \* fundraiser_orders: status, scout_member_id, allocation id, cart
    rule,       \* fundraisers.allocation_*
    credit,     \* the ledger entry request r has posted, or NoCredit
    allocated,  \* requests that have written their fundraiser_allocations row
    request,    \* where each request stands, and what it has read
    failed      \* history: orders some request stopped short of crediting

vars == <<order, rule, credit, allocated, request, failed>>

Statuses == {"pending", "paid", "credited", "canceled"}

\* A row that is not inserted yet is "absent".
Order == [status : Statuses \cup {"absent"}, scout : Scouts \cup {NoScout},
          allocation : Requests \cup {NoAllocation}, cart : Carts]

\* Requests go down this list, leaving it for "done" where they stop early.
Request == [step : {"new", "check", "ready", "posted", "recorded", "done"},
            order : Orders \cup {NoOrder}, scout : Scouts \cup {NoScout}]

At(step, o, s) == [step |-> step, order |-> o, scout |-> s]
Done == At("done", NoOrder, NoScout)

TypeOK ==
    /\ order \in [Orders -> Order]
    /\ rule \in Rules
    /\ credit \in [Requests -> Credit \cup {NoCredit}]
    /\ allocated \subseteq Requests
    /\ request \in [Requests -> Request]
    /\ failed \subseteq Orders

-----------------------------------------------------------------------------
(* The amount credited: RecordFundraiserAllocation.                        *)

\* math.Round(gross * pct / 100), halves upwards, or a fixed sum per item.
CreditedCents(rl, cart) ==
    IF rl.mode = "percentage" THEN (2 * cart.total * rl.value + 100) \div 200
                              ELSE rl.value * cart.quantity

\* "computed credit is zero or negative", "exceeds the gross amount"
Creditable(rl, cart) == CreditedCents(rl, cart) \in 1..cart.total

-----------------------------------------------------------------------------
(* What starts a request.                                                  *)

Exists(o) == order[o].status # "absent"

\* UPDATE fundraiser_orders: the cart is never edited.
Update(o, status, scout, allocation) ==
    order' = [order EXCEPT ![o] = [status |-> status, scout |-> scout,
                                   allocation |-> allocation, cart |-> order[o].cart]]

UpdateStatus(o, status) == Update(o, status, order[o].scout, order[o].allocation)

Paid(o) == IF order[o].status = "pending" THEN "paid" ELSE order[o].status

\* The public form: FundraiserPlaceOrder resolves the typed name to a Scout
\* only on one exact match, and CreateFundraiserOrder inserts the row.
FundraiserPlaceOrder(o) ==
    /\ ~Exists(o)
    /\ \E s \in Scouts \cup {NoScout}, c \in Carts :
         order' = [order EXCEPT ![o] = [status |-> "pending", scout |-> s,
                                        allocation |-> NoAllocation, cart |-> c]]
    /\ UNCHANGED <<rule, credit, allocated, request, failed>>

\* Mutant: marking an order paid leaves the credit to ResolveFundraiserOrderScout.
MarkPaidWithoutCredit(r, o) ==
    /\ request[r].step = "new"
    /\ Exists(o)
    /\ UpdateStatus(o, Paid(o))
    /\ request' = [request EXCEPT ![r] = Done]
    /\ UNCHANGED <<rule, credit, allocated, failed>>

\* UPDATE ... SET status = 'paid' WHERE status = 'pending'; whatever it matched,
\* creditOrderIfReady comes next.
MarkFundraiserOrderPaid(r, o) ==
    /\ request[r].step = "new"
    /\ Exists(o)
    /\ UpdateStatus(o, Paid(o))
    /\ request' = [request EXCEPT ![r] = At("check", o, NoScout)]
    /\ UNCHANGED <<rule, credit, allocated, failed>>

\* Mutant: resolving the Scout leaves the credit to MarkFundraiserOrderPaid.
ResolveScoutWithoutCredit(r, o, s) ==
    /\ request[r].step = "new"
    /\ Exists(o)
    /\ Update(o, order[o].status, s, order[o].allocation)
    /\ request' = [request EXCEPT ![r] = Done]
    /\ UNCHANGED <<rule, credit, allocated, failed>>

\* The Scout is assigned or corrected whatever the order's status.
ResolveFundraiserOrderScout(r, o, s) ==
    /\ request[r].step = "new"
    /\ Exists(o)
    /\ Update(o, order[o].status, s, order[o].allocation)
    /\ request' = [request EXCEPT ![r] = At("check", o, NoScout)]
    /\ UNCHANGED <<rule, credit, allocated, failed>>

CancelAnyOrder(o) ==  \* mutant: the UPDATE does not look at the status
    /\ Exists(o)
    /\ UpdateStatus(o, "canceled")
    /\ UNCHANGED <<rule, credit, allocated, request, failed>>

CancelFundraiserOrder(o) ==
    /\ order[o].status \in {"pending", "paid"}
    /\ UpdateStatus(o, "canceled")
    /\ UNCHANGED <<rule, credit, allocated, request, failed>>

\* The council's cap, or any later edit of the allocation rule.
ConfirmFundraiserCap ==
    /\ rule' \in Rules
    /\ UNCHANGED <<order, credit, allocated, request, failed>>

-----------------------------------------------------------------------------
(* creditOrderIfReady, statement by statement.                             *)

\* Mutants: one forgets the payment, one the Scout.
ResolvedOnly(o) == order[o].scout # NoScout /\ order[o].allocation = NoAllocation
PaidOnly(o) == order[o].status = "paid" /\ order[o].allocation = NoAllocation

\* Paid, its Scout resolved, and no allocation yet.
ReadyToCredit(o) ==
    /\ order[o].status = "paid"
    /\ order[o].scout # NoScout
    /\ order[o].allocation = NoAllocation

\* GetFundraiserOrder: the only look at the order.
CheckOrder(r) ==
    /\ request[r].step = "check"
    /\ LET o == request[r].order IN
       request' = [request EXCEPT ![r] =
                     IF ReadyToCredit(o) THEN At("ready", o, order[o].scout) ELSE Done]
    /\ UNCHANGED <<order, rule, credit, allocated, failed>>

\* RecordFundraiserAllocation: the rule as it stands now, then a posted entry
\* from the general fund to the Scout's account.
PostCredit(r) ==
    LET o == request[r].order IN
    /\ request[r].step = "ready"
    /\ Creditable(rule, order[o].cart)
    /\ credit' = [credit EXCEPT ![r] =
                    [order |-> o, scout |-> request[r].scout,
                     amount |-> CreditedCents(rule, order[o].cart)]]
    /\ request' = [request EXCEPT ![r] = At("posted", o, request[r].scout)]
    /\ UNCHANGED <<order, rule, allocated, failed>>

\* The rule gives nothing, or more than the buyer paid: the request fails and
\* the order stays paid.
CreditRefused(r) ==
    LET o == request[r].order IN
    /\ request[r].step = "ready"
    /\ ~Creditable(rule, order[o].cart)
    /\ request' = [request EXCEPT ![r] = Done]
    /\ failed' = failed \cup {o}
    /\ UNCHANGED <<order, rule, credit, allocated>>

\* INSERT INTO fundraiser_allocations
RecordAllocation(r) ==
    /\ request[r].step = "posted"
    /\ allocated' = allocated \cup {r}
    /\ request' = [request EXCEPT ![r] = At("recorded", request[r].order, request[r].scout)]
    /\ UNCHANGED <<order, rule, credit, failed>>

\* Mutant: the order is marked credited and its allocation not stored.
MarkCreditedUnlinked(r) ==
    /\ request[r].step = "recorded"
    /\ UpdateStatus(request[r].order, "credited")
    /\ request' = [request EXCEPT ![r] = Done]
    /\ UNCHANGED <<rule, credit, allocated, failed>>

\* UPDATE ... SET status = 'credited', fundraiser_allocation_id WHERE id: the
\* status may have changed since CheckOrder and is overwritten.
MarkCredited(r) ==
    LET o == request[r].order IN
    /\ request[r].step = "recorded"
    /\ Update(o, "credited", order[o].scout, r)
    /\ request' = [request EXCEPT ![r] = Done]
    /\ UNCHANGED <<rule, credit, allocated, failed>>

\* The process dies or a statement fails; nothing takes the request up again.
Abandon(r) ==
    /\ request[r].step \in {"check", "ready", "posted", "recorded"}
    /\ failed' = failed \cup {request[r].order}
    /\ request' = [request EXCEPT ![r] = Done]
    /\ UNCHANGED <<order, rule, credit, allocated>>

-----------------------------------------------------------------------------
Init ==
    /\ order \in [Orders -> [status : {"absent"}, scout : {NoScout},
                             allocation : {NoAllocation}, cart : Carts]]
    /\ rule \in Rules
    /\ credit = [r \in Requests |-> NoCredit]
    /\ allocated = {}
    /\ request = [r \in Requests |-> At("new", NoOrder, NoScout)]
    /\ failed = {}

\* What a request does once it is under way.
Continue(r) ==
    \/ CheckOrder(r) \/ PostCredit(r) \/ CreditRefused(r)
    \/ RecordAllocation(r) \/ MarkCredited(r)

Next ==
    \/ \E o \in Orders :
         \/ FundraiserPlaceOrder(o)
         \/ CancelFundraiserOrder(o)
         \/ \E r \in Requests : \/ MarkFundraiserOrderPaid(r, o)
                                \/ \E s \in Scouts : ResolveFundraiserOrderScout(r, o, s)
    \/ \E r \in Requests : Continue(r) \/ Abandon(r)
    \/ ConfirmFundraiserCap

Spec == Init /\ [][Next]_vars

\* A handler's goroutine runs to its end unless it fails.
FairSpec == Spec /\ \A r \in Requests : WF_vars(Continue(r))

-----------------------------------------------------------------------------
(* Properties.                                                             *)

\* The general fund is never drawn on ahead of the money: an order with a
\* ledger credit was marked paid, and the credit is positive and no larger than
\* what the buyer paid, whatever the allocation rule was edited to meanwhile.
CreditsAreBacked ==
    \A r \in Requests : credit[r] # NoCredit =>
        /\ order[credit[r].order].status \in {"paid", "credited", "canceled"}
        /\ credit[r].amount \in 1..order[credit[r].order].cart.total

\* An order shows as credited exactly when it names an allocation, and that
\* allocation is on record for a ledger entry made for this very order.
CreditedOrdersAreRecorded ==
    \A o \in Orders :
        /\ order[o].status = "credited" <=> order[o].allocation # NoAllocation
        /\ order[o].status = "credited" =>
              /\ order[o].allocation \in allocated
              /\ credit[order[o].allocation] # NoCredit
              /\ credit[order[o].allocation].order = o

\* "Whichever happens second is the one that triggers the credit": an order
\* both paid and resolved is never left with nobody to credit it, unless a
\* request that should have done so failed.
ReadyOrdersAreAttended ==
    \A o \in Orders : order[o].status = "paid" /\ order[o].scout # NoScout =>
        \/ o \in failed
        \/ \E r \in Requests :
             request[r].order = o
             /\ request[r].step \in {"check", "ready", "posted", "recorded"}

\* An order once credited stays credited, and a posted credit is never edited.
CreditsAreFinal ==
    [][/\ \A o \in Orders : order[o].status = "credited" => order'[o].status = "credited"
       /\ \A r \in Requests : credit[r] # NoCredit => credit'[r] = credit[r]]_vars

\* What these rest on: how far a request has come says what it has written, and
\* an order it found ready is never pending again.
RequestsAreSound ==
    \A r \in Requests :
        LET q == request[r] IN
        /\ q.step \in {"check", "ready", "posted", "recorded"} =>
              q.order \in Orders /\ Exists(q.order)
        /\ q.step \in {"ready", "posted", "recorded"} =>
              q.scout \in Scouts /\ order[q.order].status # "pending"
        /\ q.step \in {"new", "check", "ready"} => credit[r] = NoCredit
        /\ q.step \in {"posted", "recorded"} =>
              credit[r] # NoCredit /\ credit[r].order = q.order
        /\ q.step = "recorded" => r \in allocated

\* An order both paid and resolved is, in the end, credited or canceled, unless
\* a request failed on it.
ReadyOrdersSettle ==
    \A o \in Orders :
        (order[o].status = "paid" /\ order[o].scout # NoScout)
            ~> (order[o].status \in {"credited", "canceled"} \/ o \in failed)

\* "A no-op [...] if it isn't ready yet or was already credited": no order is
\* ever credited twice.
CreditedAtMostOnce ==
    \A r, q \in Requests :
        credit[r] # NoCredit /\ credit[q] # NoCredit /\ credit[r].order = credit[q].order
            => r = q
=============================================================================
