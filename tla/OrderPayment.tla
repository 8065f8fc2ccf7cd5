---------------------------- MODULE OrderPayment ----------------------------
(***************************************************************************)
(* The order and payment core of the CoffeeTek backend                     *)
(* (Backend/src/order/order.service.ts): orders, cash payments, VNPAY      *)
(* payment links and their IPN calls, vouchers, invoices, loyalty points.  *)
(*                                                                         *)
(* The backend is one Node process.  A handler runs alone between two      *)
(* awaits, and every await on Prisma, on the storage bucket or on the      *)
(* invoice generator lets the other handlers run: a request is therefore a *)
(* process whose steps are its awaits, and pc[r] names the await that      *)
(* request r is suspended on.  None of the handlers modelled step by step  *)
(* opens a database transaction.  A call that the code refuses before it   *)
(* has written anything changes nothing and is a stuttering step.          *)
(*                                                                         *)
(* The events that updateStatus emits for a completed order are the        *)
(* subject of OrderEvents.  The broadcast of the number of open orders,    *)
(* with which create and updateStatus end, reads and writes no table: it   *)
(* is left out here.                                                       *)
(*                                                                         *)
(* Money is counted in units of 1/Unit VND, so that a percentage of a      *)
(* price is exact and "is a whole number of VND" can be stated.            *)
(***************************************************************************)
EXTENDS Integers, FiniteSets, Sums

CONSTANTS
    Orders,        \* order ids
    Customers,     \* phone numbers of customers
    Vouchers,      \* voucher codes
    Clients,       \* HTTP requests of the POS, the kiosk and the staff
    Deliveries,    \* IPN calls of the payment gateway
    Unit,          \* money units in one VND
    Prices,        \* totals that the items of an order can add up to
    Tenders,       \* amounts handed over at the counter
    Discount,      \* discount_percentage of every voucher
    Levels,        \* required_points of the loyalty levels
    Ops,           \* handlers that the environment calls
    Targets,       \* statuses that PATCH /order/status is called with
    MaxInFlight,   \* bound: requests being served at the same time
    MayFail,       \* TRUE if an await may reject (database, bucket, crash)
    NoCustomer, NoVoucher, NoOrder, NoRequest

Requests == Clients \cup Deliveries

OrderStatus == {"pending", "paid", "completed", "canceled", "refund", "shipping"}

OpNames == {"create", "items", "update", "remove", "status", "cash", "online", "ipn"}

ASSUME UnitAssumption == Unit \in Nat \ {0}

ASSUME MoneyAssumption == Prices \subseteq Nat /\ Tenders \subseteq Nat

ASSUME DiscountAssumption == Discount \in [Vouchers -> 0..100]

ASSUME LevelAssumption == Levels \subseteq Nat

ASSUME TargetAssumption == Targets \subseteq OrderStatus

ASSUME RequestAssumption == Clients \cap Deliveries = {} /\ IsFiniteSet(Requests)

ASSUME NullAssumption ==
    /\ NoCustomer \notin Customers
    /\ NoVoucher \notin Vouchers
    /\ NoOrder \notin Orders
    /\ NoRequest \notin Requests

VARIABLES
    order,       \* table orders
    active,      \* vouchers.is_active
    details,     \* table payment_details: the row that each request created
    points,      \* table customer_points
    bucket,      \* orders whose invoice PDF is in the private bucket
    urls,        \* payment links handed out: order and amount
    charged,     \* links that the gateway has collected the money of
    confirmed,   \* charges that an IPN call was answered "success" or "already confirmed" for
    pc,          \* the await that each request is suspended on
    loc,         \* local variables of each request
    did,         \* history: the writes that each request has committed, and
                 \* the award that it had to drop
    quote,       \* history: the price that each cash payment set out with
    outdated,    \* history: orders that got new items while a voucher was being
                 \* put on the old ones
    overlapped   \* history: customers two of whose awards overlapped

history == <<quote, outdated, overlapped>>

vars == <<order, active, details, points, bucket, urls, charged, confirmed, pc, loc, did, history>>

requestVars == <<pc, loc, did, history>>

-----------------------------------------------------------------------------
(* Types.                                                                  *)

Phones == Customers \cup {NoCustomer}

RowStatus == OrderStatus \cup {"absent", "deleted"}

MaybeRequest == Requests \cup {NoRequest}

MaybeOrder == Orders \cup {NoOrder}

MaybeVoucher == Vouchers \cup {NoVoucher}

MaybeOp == OpNames \cup {"none"}

OrderRow == [status : RowStatus, original : Nat, final : Nat, phone : Phones,
             detail : MaybeRequest, invoice : BOOLEAN]

DetailRow == [made : BOOLEAN, amount : Nat, change : Int]

PointRow == [row : BOOLEAN, total : Nat, level : SUBSET Levels]

Link == [order : Orders, amount : Nat]

\* The awaits, by the handler that they belong to.
Suspended == {"edit",                                   \* update
              "voucher", "reprice", "consume",          \* payByCash, payOnline
              "detail",                                 \* createPaymentDetail
              "status", "upload", "invoice",            \* updateStatus
              "points", "award"}

Finished == {"done", "rejected", "failed"}

Labels == {"idle"} \cup Suspended \cup Finished

Writes == {"repriced", "consumed", "marked", "awarded", "dropped"}

Local == [op : MaybeOp, order : MaybeOrder, voucher : MaybeVoucher, amount : Nat,
          original : Nat, final : Nat, phone : Phones,  \* the order row as last read
          row : BOOLEAN, total : Nat]                   \* the points row as last read

TypeOK ==
    /\ order \in [Orders -> OrderRow]
    /\ active \in [Vouchers -> BOOLEAN]
    /\ details \in [Requests -> DetailRow]
    /\ points \in [Customers -> PointRow]
    /\ bucket \subseteq Orders
    /\ urls \subseteq Link
    /\ charged \subseteq urls
    /\ confirmed \subseteq charged
    /\ pc \in [Requests -> Labels]
    /\ loc \in [Requests -> Local]
    /\ did \in [Requests -> SUBSET Writes]
    /\ quote \in [Requests -> Nat]
    /\ outdated \subseteq Orders
    /\ overlapped \subseteq Customers

Init ==
    /\ order = [o \in Orders |->
                  [status |-> "absent", original |-> 0, final |-> 0,
                   phone |-> NoCustomer, detail |-> NoRequest, invoice |-> FALSE]]
    /\ active = [v \in Vouchers |-> TRUE]
    /\ details = [r \in Requests |-> [made |-> FALSE, amount |-> 0, change |-> 0]]
    /\ points = [c \in Customers |-> [row |-> FALSE, total |-> 0, level |-> {}]]
    /\ bucket = {}
    /\ urls = {}
    /\ charged = {}
    /\ confirmed = {}
    /\ pc = [r \in Requests |-> "idle"]
    /\ loc = [r \in Requests |->
                [op |-> "none", order |-> NoOrder, voucher |-> NoVoucher,
                 amount |-> 0, original |-> 0, final |-> 0,
                 phone |-> NoCustomer, row |-> FALSE, total |-> 0]]
    /\ did = [r \in Requests |-> {}]
    /\ quote = [r \in Requests |-> 0]
    /\ outdated = {}
    /\ overlapped = {}

-----------------------------------------------------------------------------
(* Helpers.                                                                *)

Exists(o) == order[o].status \in OrderStatus

\* Mutant: the percentage is used as a factor.
DiscountedByFactor(p, v) == p - p * Discount[v]

\* original_price - original_price * (discount_percentage / 100)
Discounted(p, v) == p - (p * Discount[v]) \div 100

\* Math.round(final_price * 0.01), final_price in VND
PointsFor(p) == (2 * p + 100 * Unit) \div (200 * Unit)

\* The levels with required_points <= n.  The code stores the highest of
\* them, which they determine.
Reached(n) == {l \in Levels : l <= n}

InFlight == {r \in Requests : pc[r] \in Suspended}

\* The environment may call handler op now.
Callable(op) == op \in Ops /\ Cardinality(InFlight) < MaxInFlight

Starts(r, op) == pc[r] = "idle" /\ Callable(op)

Goto(r, label) == pc' = [pc EXCEPT ![r] = label]

Wrote(r, what) == did' = [did EXCEPT ![r] = @ \cup {what}]

\* What a handler holds of an order row it has read or got back from an update.
Snapshot(row, l) ==
    [l EXCEPT !.original = row.original, !.final = row.final, !.phone = row.phone]

-----------------------------------------------------------------------------
(* Handlers that write once: the whole call is one step.                   *)

\* create: the prices are read before the transaction, so the total is any
\* that the items have had.
Create(o, p, c) ==
    /\ Callable("create")
    /\ order[o].status = "absent"
    /\ order' = [order EXCEPT ![o] = [@ EXCEPT !.status = "pending", !.original = p,
                                               !.final = p, !.phone = c]]
    /\ UNCHANGED <<active, details, points, bucket, urls, charged, confirmed, requestVars>>

\* An order row with new items: an undefined customerPhone leaves the column
\* as it is.
RepricedRow(row, p, c) ==
    [row EXCEPT !.original = p, !.final = p, !.phone = IF c = NoCustomer THEN @ ELSE c]

\* A call that has read order o is about to put a voucher on its price.
BeingDiscounted(o) ==
    \E r \in Requests : pc[r] \in {"voucher", "reprice"} /\ loc[r].order = o

\* updateItems: one transaction, whatever the status of the order.
UpdateItems(o, p, c) ==
    /\ Callable("items")
    /\ Exists(o)
    /\ order' = [order EXCEPT ![o] = RepricedRow(@, p, c)]
    /\ outdated' = IF BeingDiscounted(o) THEN outdated \cup {o} ELSE outdated \ {o}
    /\ UNCHANGED <<active, details, points, bucket, urls, charged, confirmed, pc, loc, did,
                   quote, overlapped>>

\* remove: the payment detail and the PDF stay behind.
Remove(o) ==
    /\ Callable("remove")
    /\ Exists(o)
    /\ order' = [order EXCEPT ![o].status = "deleted"]
    /\ UNCHANGED <<active, details, points, bucket, urls, charged, confirmed, requestVars>>

-----------------------------------------------------------------------------
(* update: reads the row, then writes customerPhone ?? the value it read.  *)

EditRead(r, o, c) ==
    /\ Starts(r, "update")
    /\ Exists(o)
    /\ loc' = [loc EXCEPT ![r] = [Snapshot(order[o], @) EXCEPT
                 !.op = "update", !.order = o,
                 !.phone = IF c = NoCustomer THEN order[o].phone ELSE c]]
    /\ Goto(r, "edit")
    /\ UNCHANGED <<order, active, details, points, bucket, urls, charged, confirmed, did, history>>

EditWrite(r) ==
    LET o == loc[r].order IN
    /\ pc[r] = "edit"
    /\ IF Exists(o)
       THEN order' = [order EXCEPT ![o].phone = loc[r].phone] /\ Goto(r, "done")
       ELSE order' = order /\ Goto(r, "failed")
    /\ UNCHANGED <<active, details, points, bucket, urls, charged, confirmed, loc, did, history>>

-----------------------------------------------------------------------------
(* payByCash and payOnline up to the payment detail or the payment link.   *)

\* The price that a cash payment sets out with: that of the row it reads, or
\* the one that its voucher makes of that row.
Quote(row, v) == IF v = NoVoucher THEN row.final ELSE Discounted(row.original, v)

\* payByCash: the order must be pending and the amount cover the final price
\* as it is before the voucher of this call.
PayByCash(r, o, a, v) ==
    /\ Starts(r, "cash")
    /\ order[o].status = "pending"
    /\ a >= order[o].final
    /\ loc' = [loc EXCEPT ![r] = [Snapshot(order[o], @) EXCEPT
                 !.op = "cash", !.order = o, !.amount = a, !.voucher = v]]
    /\ quote' = [quote EXCEPT ![r] = Quote(order[o], v)]
    /\ Goto(r, IF v = NoVoucher THEN "detail" ELSE "voucher")
    /\ UNCHANGED <<order, active, details, points, bucket, urls, charged, confirmed, did,
                   outdated, overlapped>>

\* payOnline: no condition on the status.  Without a voucher the link is
\* built in the same step.
PayOnline(r, o, v) ==
    /\ Starts(r, "online")
    /\ Exists(o)
    /\ loc' = [loc EXCEPT ![r] = [Snapshot(order[o], @) EXCEPT
                 !.op = "online", !.order = o, !.voucher = v]]
    /\ IF v = NoVoucher
       THEN /\ urls' = urls \cup {[order |-> o, amount |-> order[o].final]}
            /\ Goto(r, "done")
       ELSE urls' = urls /\ Goto(r, "voucher")
    /\ UNCHANGED <<order, active, details, points, bucket, charged, confirmed, did, history>>

\* Mutant: the voucher is marked used without a new price.
ReadVoucherForgetsPrice(r) ==
    /\ pc[r] = "voucher"
    /\ Goto(r, IF active[loc[r].voucher] THEN "consume" ELSE "rejected")
    /\ UNCHANGED <<order, active, details, points, bucket, urls, charged, confirmed, loc, did, history>>

\* The voucher is looked up and must be active.
ReadVoucher(r) ==
    /\ pc[r] = "voucher"
    /\ Goto(r, IF active[loc[r].voucher] THEN "reprice" ELSE "rejected")
    /\ UNCHANGED <<order, active, details, points, bucket, urls, charged, confirmed, loc, did, history>>

\* Mutant: discounts add up.
DiscountOfFinal(l) == Discounted(l.final, l.voucher)

\* final_price is computed from the original price read at the start of the
\* call ...
DiscountedPrice(l) == Discounted(l.original, l.voucher)

\* ... and the row that the update returns replaces the handler's copy.
Reprice(r) ==
    LET o == loc[r].order
        f == DiscountedPrice(loc[r])
    IN
    /\ pc[r] = "reprice"
    /\ IF Exists(o)
       THEN /\ order' = [order EXCEPT ![o].final = f]
            /\ loc' = [loc EXCEPT ![r] = Snapshot([order[o] EXCEPT !.final = f], @)]
            /\ Wrote(r, "repriced")
            /\ Goto(r, "consume")
       ELSE /\ UNCHANGED <<order, loc, did>>
            /\ Goto(r, "failed")
    /\ UNCHANGED <<active, details, points, bucket, urls, charged, confirmed, history>>

\* The voucher is marked used; payOnline then builds its link.
ConsumeVoucher(r) ==
    /\ pc[r] = "consume"
    /\ active' = [active EXCEPT ![loc[r].voucher] = FALSE]
    /\ Wrote(r, "consumed")
    /\ IF loc[r].op = "online"
       THEN /\ urls' = urls \cup {[order |-> loc[r].order, amount |-> loc[r].final]}
            /\ Goto(r, "done")
       ELSE urls' = urls /\ Goto(r, "detail")
    /\ UNCHANGED <<order, details, points, bucket, charged, confirmed, loc, history>>

-----------------------------------------------------------------------------
(* The gateway (external) and vnpayIpn.                                    *)

\* The customer pays the amount of a link he was given.
Charge(u) ==
    /\ u \in urls
    /\ charged' = charged \cup {u}
    /\ UNCHANGED <<order, active, details, points, bucket, urls, confirmed, requestVars>>

\* The gateway calls until it is told "success" or "already confirmed", and
\* may call again while an earlier call is being served.
Unanswered == charged \ confirmed

\* Mutant: the amount is not compared.
AmountUnchecked(u) == u.amount > 0

\* The amount that was paid is the final price as it is now.
AmountMatches(u) == u.amount = order[u.order].final

\* Mutant: only a completed order counts as confirmed.
AlreadyCompleted(o) == order[o].status = "completed"

\* The order was confirmed before.
AlreadyConfirmed(o) == order[o].status \in {"paid", "completed"}

\* Mutant: the gateway is answered before anything is recorded.
IpnAnswersFirst(r, u) ==
    /\ Starts(r, "ipn")
    /\ u \in Unanswered
    /\ Exists(u.order)
    /\ AmountMatches(u)
    /\ ~AlreadyConfirmed(u.order)
    /\ loc' = [loc EXCEPT ![r] = [Snapshot(order[u.order], @) EXCEPT
                 !.op = "ipn", !.order = u.order, !.amount = u.amount]]
    /\ confirmed' = confirmed \cup {u}
    /\ Goto(r, "detail")
    /\ UNCHANGED <<order, active, details, points, bucket, urls, charged, did, history>>

\* vnpayIpn on an order that is found, whose price matches and that is
\* neither paid nor completed.
IpnAccept(r, u) ==
    /\ Starts(r, "ipn")
    /\ u \in Unanswered
    /\ Exists(u.order)
    /\ AmountMatches(u)
    /\ ~AlreadyConfirmed(u.order)
    /\ loc' = [loc EXCEPT ![r] = [Snapshot(order[u.order], @) EXCEPT
                 !.op = "ipn", !.order = u.order, !.amount = u.amount]]
    /\ Goto(r, "detail")
    /\ UNCHANGED <<order, active, details, points, bucket, urls, charged, confirmed, did, history>>

\* The same call on an order that is paid or completed already.
IpnAlreadyConfirmed(u) ==
    /\ Callable("ipn")
    /\ u \in Unanswered
    /\ Exists(u.order)
    /\ AmountMatches(u)
    /\ AlreadyConfirmed(u.order)
    /\ confirmed' = confirmed \cup {u}
    /\ UNCHANGED <<order, active, details, points, bucket, urls, charged, requestVars>>

-----------------------------------------------------------------------------
(* createPaymentDetail and updateStatus.                                   *)

\* Mutant: the price is read again.
ChangeOfCurrent(l) == l.amount - order[l.order].final

\* amount - final_price, of the row as the handler holds it
ChangeDue(l) == l.amount - l.final

\* Mutant: a refused payment detail does not stop the payment.
DetailErrorIgnored(r) ==
    LET l == loc[r]
        change == ChangeDue(l)
    IN
    /\ pc[r] = "detail"
    /\ IF change % Unit = 0
       THEN /\ details' = [details EXCEPT ![r] =
                             [made |-> TRUE, amount |-> l.amount, change |-> change]]
            /\ confirmed' = IF l.op = "ipn"
                            THEN confirmed \cup {[order |-> l.order, amount |-> l.amount]}
                            ELSE confirmed
            /\ Goto(r, "status")
       ELSE /\ UNCHANGED <<details, confirmed>>
            /\ Goto(r, "status")
    /\ UNCHANGED <<order, active, points, bucket, urls, charged, loc, did, history>>

\* Mutant: the status is not updated.
StatusForgotten(r) ==
    LET l == loc[r]
        change == ChangeDue(l)
    IN
    /\ pc[r] = "detail"
    /\ IF change % Unit = 0
       THEN /\ details' = [details EXCEPT ![r] =
                             [made |-> TRUE, amount |-> l.amount, change |-> change]]
            /\ confirmed' = IF l.op = "ipn"
                            THEN confirmed \cup {[order |-> l.order, amount |-> l.amount]}
                            ELSE confirmed
            /\ Goto(r, "done")
       ELSE /\ UNCHANGED <<details, confirmed>>
            /\ Goto(r, "failed")
    /\ UNCHANGED <<order, active, points, bucket, urls, charged, loc, did, history>>

\* payment_details.change is an integer column: a fraction of a VND is
\* refused.  vnpayIpn does not await updateStatus: the gateway is answered
\* "success" in the step that goes on to update the status.
CreatePaymentDetail(r) ==
    LET l == loc[r]
        change == ChangeDue(l)
    IN
    /\ pc[r] = "detail"
    /\ IF change % Unit = 0
       THEN /\ details' = [details EXCEPT ![r] =
                             [made |-> TRUE, amount |-> l.amount, change |-> change]]
            /\ confirmed' = IF l.op = "ipn"
                            THEN confirmed \cup {[order |-> l.order, amount |-> l.amount]}
                            ELSE confirmed
            /\ Goto(r, "status")
       ELSE /\ UNCHANGED <<details, confirmed>>
            /\ Goto(r, "failed")
    /\ UNCHANGED <<order, active, points, bucket, urls, charged, loc, did, history>>

\* Mutant: no payment is written as null.
StatusRowOverwritten(row, s, d) == [row EXCEPT !.status = s, !.detail = d]

\* An order row after the first write of updateStatus: an undefined
\* paymentDetailId (no payment) leaves the column as it is.
StatusRow(row, s, d) ==
    [row EXCEPT !.status = s, !.detail = IF d = NoRequest THEN @ ELSE d]

\* Mutant: the PDF is not uploaded.
AfterStatusNoUpload(s) == IF s = "paid" THEN "invoice" ELSE "done"

\* Only a paid order gets an invoice and points.
AfterStatus(s) == IF s = "paid" THEN "upload" ELSE "done"

\* The first write of updateStatus, without a condition on the old status.
WriteStatus(r, o, s, d, l) ==
    /\ order' = [order EXCEPT ![o] = StatusRow(@, s, d)]
    /\ loc' = [loc EXCEPT ![r] = Snapshot(order[o], l)]
    /\ did' = [did EXCEPT ![r] = IF s \in {"paid", "completed"} THEN @ \cup {"marked"} ELSE @]
    /\ Goto(r, AfterStatus(s))

\* updateStatus called by a payment handler.
MarkPaid(r) ==
    LET o == loc[r].order IN
    /\ pc[r] = "status"
    /\ IF Exists(o)
       THEN WriteStatus(r, o, "paid", r, loc[r])
       ELSE UNCHANGED <<order, loc, did>> /\ Goto(r, "failed")
    /\ UNCHANGED <<active, details, points, bucket, urls, charged, confirmed, history>>

\* updateStatus called by PATCH /order/status.
PatchStatus(r, o, s) ==
    /\ Starts(r, "status")
    /\ Exists(o)
    /\ WriteStatus(r, o, s, NoRequest, [loc[r] EXCEPT !.op = "status", !.order = o])
    /\ UNCHANGED <<active, details, points, bucket, urls, charged, confirmed, history>>

\* Mutant: the key of the PDF is not saved.
UploadOnly(r) ==
    /\ pc[r] = "upload"
    /\ bucket' = bucket \cup {loc[r].order}
    /\ Goto(r, "done")
    /\ UNCHANGED <<order, active, details, points, urls, charged, confirmed, loc, did, history>>

\* The invoice is rendered and its PDF stored ...
UploadInvoice(r) ==
    /\ pc[r] = "upload"
    /\ bucket' = bucket \cup {loc[r].order}
    /\ Goto(r, "invoice")
    /\ UNCHANGED <<order, active, details, points, urls, charged, confirmed, loc, did, history>>

\* ... and only then is its key written to the order.
SaveInvoiceUrl(r) ==
    LET o == loc[r].order IN
    /\ pc[r] = "invoice"
    /\ IF Exists(o)
       THEN /\ order' = [order EXCEPT ![o].invoice = TRUE]
            /\ Goto(r, IF loc[r].phone # NoCustomer /\ loc[r].final > 0 THEN "points" ELSE "done")
       ELSE order' = order /\ Goto(r, "failed")
    /\ UNCHANGED <<active, details, points, bucket, urls, charged, confirmed, loc, did, history>>

\* The customer's points are read ...
ReadPoints(r) ==
    LET p == points[loc[r].phone] IN
    /\ pc[r] = "points"
    /\ loc' = [loc EXCEPT ![r] = [@ EXCEPT !.row = p.row, !.total = p.total]]
    /\ Goto(r, "award")
    /\ UNCHANGED <<order, active, details, points, bucket, urls, charged, confirmed, did, history>>

\* Mutant: the discount is ignored.
TotalOfOriginal(l) == (IF l.row THEN l.total ELSE 0) + PointsFor(l.original)

\* Mutant: the points of earlier orders are forgotten.
TotalReplaced(l) == PointsFor(l.final)

\* The customer's new total: 1% of the bill on top of the total that was read.
NewTotal(l) == (IF l.row THEN l.total ELSE 0) + PointsFor(l.final)

\* Another request has read the points of c and is about to write them.
BeingAwarded(c, r) ==
    \E q \in Requests \ {r} : pc[q] = "award" /\ loc[q].phone = c

\* ... and the new total and its level are written.  A second creation of the
\* customer's row violates its unique key, which the handler swallows: the award
\* is dropped.
AwardPoints(r) ==
    LET l == loc[r]
        total == NewTotal(l)
    IN
    /\ pc[r] = "award"
    /\ IF l.row \/ ~points[l.phone].row
       THEN /\ points' = [points EXCEPT ![l.phone] =
                            [row |-> TRUE, total |-> total, level |-> Reached(total)]]
            /\ Wrote(r, "awarded")
       ELSE points' = points /\ Wrote(r, "dropped")
    /\ overlapped' = IF BeingAwarded(l.phone, r) THEN overlapped \cup {l.phone} ELSE overlapped
    /\ Goto(r, "done")
    /\ UNCHANGED <<order, active, details, bucket, urls, charged, confirmed, loc, quote, outdated>>

\* The await that r is suspended on rejects, or the process dies: what r has
\* written stays written and the rest of the handler never runs.
Abort(r) ==
    /\ MayFail
    /\ pc[r] \in Suspended
    /\ Goto(r, "failed")
    /\ UNCHANGED <<order, active, details, points, bucket, urls, charged, confirmed, loc, did, history>>

-----------------------------------------------------------------------------

\* One step of a request that is already being served.
Continue(r) ==
    \/ EditWrite(r)
    \/ ReadVoucher(r)
    \/ Reprice(r)
    \/ ConsumeVoucher(r)
    \/ CreatePaymentDetail(r)
    \/ MarkPaid(r)
    \/ UploadInvoice(r)
    \/ SaveInvoiceUrl(r)
    \/ ReadPoints(r)
    \/ AwardPoints(r)

\* A call of a client.
ClientCall ==
    \/ \E o \in Orders, p \in Prices, c \in Phones : Create(o, p, c) \/ UpdateItems(o, p, c)
    \/ \E o \in Orders : Remove(o)
    \/ \E r \in Clients, o \in Orders :
         \/ \E c \in Phones : EditRead(r, o, c)
         \/ \E a \in Tenders, v \in MaybeVoucher : PayByCash(r, o, a, v)
         \/ \E v \in MaybeVoucher : PayOnline(r, o, v)
         \/ \E s \in Targets : PatchStatus(r, o, s)

\* A call of the gateway.
GatewayCall ==
    \E u \in Unanswered :
        \/ IpnAlreadyConfirmed(u)
        \/ \E r \in Deliveries : IpnAccept(r, u)

Next ==
    \/ ClientCall
    \/ \E u \in urls : Charge(u)
    \/ GatewayCall
    \/ \E r \in Requests : Continue(r) \/ Abort(r)

Spec == Init /\ [][Next]_vars

\* Node resumes every handler whose await has settled, and the gateway
\* repeats its call until it is answered; clients and customers owe nothing.
Fairness ==
    /\ \A r \in Requests : WF_vars(Continue(r))
    /\ WF_vars(GatewayCall)

FairSpec == Spec /\ Fairness

-----------------------------------------------------------------------------
(* Properties of every interleaving, failures included.                    *)

\* The payment detail that an order points to exists, and was made by a
\* payment of that very order which then wrote the status (order.service.ts,
\* payByCash, vnpayIpn, updateStatus).
DetailBelongsToOrder ==
    \A o \in Orders : LET d == order[o].detail IN
        d # NoRequest => /\ details[d].made
                         /\ loc[d].order = o
                         /\ loc[d].op \in {"cash", "ipn"}
                         /\ "marked" \in did[d]

\* A voucher is only used up after its discount has reached an order: no
\* failure costs the customer a voucher for nothing (payByCash, payOnline).
VoucherBoughtDiscount ==
    \A v \in Vouchers : ~active[v] =>
        \E r \in Requests : loc[r].voucher = v /\ "repriced" \in did[r]

\* An order that has an invoiceUrl has its PDF in the bucket: getInvoice
\* never signs a link to a missing object (updateStatus, getInvoice).
InvoiceIsStored ==
    \A o \in Orders : order[o].invoice => o \in bucket

\* The gateway is only told to stop calling about a charge once its amount is
\* a payment detail of the order, or somebody marked the order paid or
\* completed (vnpayIpn).
GatewayStoppedForReason ==
    \A u \in confirmed :
        \/ \E g \in Deliveries : /\ details[g].made
                                 /\ loc[g].order = u.order
                                 /\ details[g].amount = u.amount
        \/ \E r \in Requests : loc[r].order = u.order /\ "marked" \in did[r]

\* A VNPAY payment detail records, to the unit and without change, money that
\* the gateway did collect for that order (payOnline, vnpayIpn).
OnlineDetailIsCollected ==
    \A g \in Deliveries : details[g].made =>
        /\ [order |-> loc[g].order, amount |-> details[g].amount] \in charged
        /\ details[g].change = 0

Awards(c) == {r \in Requests : "awarded" \in did[r] /\ loc[r].phone = c}

Awarded(c) == Total([r \in Requests |-> PointsFor(loc[r].final)], Awards(c))

\* A customer never holds more points than the paid bills were worth, even
\* when awards interleave, and his level is the one his points give
\* (updateStatus).
PointsAreBacked ==
    \A c \in Customers :
        /\ points[c].total <= Awarded(c)
        /\ points[c].row => points[c].level = Reached(points[c].total)

\* The change on record is what was tendered above the price that the payment
\* set out with, however other calls move the price of the order meanwhile;
\* and it is only short when a voucher of the payment came to a higher price
\* than the one that the tendered amount was checked against (payByCash,
\* createPaymentDetail).
ChangeMatchesQuote ==
    \A r \in Requests : details[r].made /\ loc[r].op = "cash" =>
        /\ details[r].change = details[r].amount - quote[r]
        /\ details[r].change < 0 => loc[r].voucher # NoVoucher

\* A payment that is attached to an order is never detached from it again,
\* only replaced by a later one, whatever status the order is moved to
\* (updateStatus, updateItems).
PaymentStaysAttached ==
    [][\A o \in Orders : order[o].detail # NoRequest => order'[o].detail # NoRequest]_vars

\* The price of an order is its original price, or that price less the
\* discount of one voucher: discounts never add up and never survive a change
\* of the items.  Only items that are replaced while a call is putting a
\* voucher on the old ones end under a price of the old ones, until they are
\* replaced again (payByCash, payOnline, updateItems).
FinalFollowsOriginal ==
    \A o \in Orders \ outdated :
        order[o].final \in {order[o].original}
                           \cup {Discounted(order[o].original, v) : v \in Vouchers}

\* A customer loses none of his awards, neither to a later one nor to a
\* refused second row, unless one of them was written while another had read
\* his points already (updateStatus).
PointsAreComplete ==
    \A c \in Customers \ overlapped :
        /\ points[c].total = Awarded(c)
        /\ \A r \in Requests : loc[r].phone = c => "dropped" \notin did[r]

\* The order as the ledger sees it.
LedgerState(o) ==
    CASE order[o].status = "absent" -> "absent"
      [] order[o].status = "deleted" -> "gone"
      [] order[o].status = "pending" -> "pending"
      [] order[o].status \in {"paid", "completed"} -> "settled"
      [] OTHER -> "closed"

Ledger == INSTANCE OrderLedger WITH
    Counter <- Clients,
    Gateway <- Deliveries,
    state <- [o \in Orders |-> LedgerState(o)],
    admitted <- [r \in Requests |-> IF loc[r].op \in {"cash", "ipn"} THEN loc[r].order ELSE NoOrder],
    receipt <- [r \in Requests |-> IF details[r].made THEN loc[r].order ELSE NoOrder],
    checked <- [r \in Requests |-> IF pc[r] = "reprice" THEN loc[r].voucher ELSE NoVoucher],
    quoted <- [r \in Requests |-> IF "repriced" \in did[r] THEN loc[r].voucher ELSE NoVoucher],
    spent <- {v \in Vouchers : ~active[v]},
    settler <- [r \in Requests |-> IF "marked" \in did[r] THEN loc[r].order ELSE NoOrder],
    credited <- {r \in Requests : "awarded" \in did[r]}

\* The handlers implement the ledger: every step of a request is one of its
\* operations or none, in every interleaving and through failures half way
\* (payByCash, payOnline, vnpayIpn, updateStatus).
LedgerIsKept == Ledger!Spec

-----------------------------------------------------------------------------
(* Liveness, of FairSpec without failures, vouchers, new prices, deletions. *)

\* Money that the gateway has collected is eventually acknowledged to it,
\* with the order paid or completed at some moment from then on, whatever the
\* other requests do to the order's status meanwhile (vnpayIpn).
ChargeIsSettled ==
    \A o \in Orders, p \in Prices : LET u == [order |-> o, amount |-> p] IN
        u \in Unanswered ~> u \in confirmed /\ order[o].status \in {"paid", "completed"}

\* A paid order gets its invoice (updateStatus).
PaidOrderIsInvoiced ==
    \A o \in Orders : order[o].status = "paid" ~> order[o].invoice

=============================================================================
