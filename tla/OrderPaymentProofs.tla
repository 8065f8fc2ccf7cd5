------------------------- MODULE OrderPaymentProofs -------------------------
(***************************************************************************)
(* Proofs about OrderPayment, for any number of orders, vouchers, clients  *)
(* and deliveries, any prices and discounts, and any bound on the requests *)
(* being served.                                                           *)
(***************************************************************************)
EXTENDS OrderPayment, SumProofs

-----------------------------------------------------------------------------
(* Arithmetic.                                                             *)

\* A percentage of a price is at most the price.
LEMMA DiscountedIsNat ==
    ASSUME NEW p \in Nat, NEW v \in Vouchers
    PROVE  Discounted(p, v) \in Nat
<1>1. PICK d \in 0..100 : d = Discount[v]
  BY DiscountAssumption
<1>2. p * d \in Nat /\ p * d <= 100 * p
  BY SMT
<1>3. ASSUME NEW n \in Nat, n <= 100 * p
      PROVE  n \div 100 \in Nat /\ n \div 100 <= p
  BY <1>3, SMT
<1>4. (p * d) \div 100 \in Nat /\ (p * d) \div 100 <= p
  BY <1>2, <1>3
<1>5. Discounted(p, v) = p - (p * d) \div 100
  BY <1>1, Zenon DEF Discounted
<1> DEFINE q == (p * d) \div 100
<1>6. q \in Nat /\ q <= p
  BY <1>4
<1> HIDE DEF q
<1>7. p - q \in Nat
  BY <1>6, SMT
<1> QED
  BY <1>5, <1>7 DEF q

\* A quotient of natural numbers is a natural number.
LEMMA QuotientIsNat ==
    ASSUME NEW a \in Nat, NEW b \in Nat, b > 0
    PROVE  a \div b \in Nat
<1>1. a \div b \in Int /\ a = b * (a \div b) + (a % b) /\ a % b < b
  BY SMT
<1>2. CASE a \div b < 0
  <2>1. b * (a \div b) <= -b
    BY <1>1, <1>2, SMT
  <2> QED
    BY <1>1, <2>1, SMT
<1> QED
  BY <1>1, <1>2, SMT

\* 1% of a bill, rounded, is a natural number of points.
LEMMA PointsForIsNat ==
    ASSUME NEW p \in Nat
    PROVE  PointsFor(p) \in Nat
<1>1. 2 * p + 100 * Unit \in Nat /\ 200 * Unit \in Nat /\ 200 * Unit > 0
  BY UnitAssumption, SMT
<1> QED
  BY <1>1, QuotientIsNat DEF PointsFor

-----------------------------------------------------------------------------
(* What a handler's copy of an order row is.                               *)

\* A snapshot takes over the prices and the phone of the row and keeps the rest.
LEMMA SnapshotFields ==
    ASSUME NEW row \in OrderRow, NEW l \in Local
    PROVE  /\ Snapshot(row, l) \in Local
           /\ Snapshot(row, l).op = l.op
           /\ Snapshot(row, l).order = l.order
           /\ Snapshot(row, l).voucher = l.voucher
           /\ Snapshot(row, l).amount = l.amount
           /\ Snapshot(row, l).original = row.original
           /\ Snapshot(row, l).final = row.final
           /\ Snapshot(row, l).phone = row.phone
<1>1. row.original \in Nat /\ row.final \in Nat /\ row.phone \in Phones
  BY DEF OrderRow
<1>2. Snapshot(row, l) \in Local
  BY <1>1 DEF Snapshot, Local
<1> QED
  BY <1>1, <1>2 DEF Snapshot, Local

-----------------------------------------------------------------------------
(* The inductive invariant.                                                *)

\* What the local variables of request r are at each of its awaits.
RequestInv(r) ==
    /\ pc[r] = "idle" => did[r] = {} /\ loc[r].op = "none"
    /\ pc[r] \in {"idle", "voucher", "reprice", "consume", "detail"} => ~details[r].made
    /\ pc[r] \in Suspended => loc[r].order \in Orders
    /\ pc[r] \in {"voucher", "reprice", "consume"} =>
         loc[r].voucher \in Vouchers /\ loc[r].op \in {"cash", "online"}
    /\ pc[r] = "consume" => "repriced" \in did[r]
    /\ pc[r] \in {"detail", "status"} => loc[r].op \in {"cash", "ipn"}
    /\ pc[r] = "detail" /\ loc[r].op = "ipn" => loc[r].final = loc[r].amount
    /\ pc[r] = "status" => details[r].made
    /\ pc[r] = "invoice" => loc[r].order \in bucket
    /\ pc[r] \in {"points", "award"} => loc[r].phone \in Customers
    /\ details[r].made => loc[r].order \in Orders /\ loc[r].op \in {"cash", "ipn"}
    /\ r \in Deliveries => loc[r].op \in {"none", "ipn"}
    /\ loc[r].op = "ipn" => /\ r \in Deliveries
                            /\ [order |-> loc[r].order, amount |-> loc[r].amount] \in charged

\* An order that is paid or completed was marked so by a request.
SettledWasMarked ==
    \A o \in Orders : order[o].status \in {"paid", "completed"} =>
        \E r \in Requests : loc[r].order = o /\ "marked" \in did[r]

\* A charge is confirmed because its own delivery has made a payment detail
\* or because the order was marked.
IInv ==
    /\ TypeOK
    /\ \A r \in Requests : RequestInv(r)
    /\ DetailBelongsToOrder
    /\ OnlineDetailIsCollected
    /\ VoucherBoughtDiscount
    /\ InvoiceIsStored
    /\ SettledWasMarked
    /\ \A g \in Deliveries : details[g].made => details[g].amount = loc[g].amount
    /\ GatewayStoppedForReason
-----------------------------------------------------------------------------
(* Type correctness is preserved.                                          *)

\* The invariant holds before the first request.
LEMMA InitInvariant == Init => IInv
<1> SUFFICES ASSUME Init PROVE IInv
  OBVIOUS
<1>1. TypeOK
  <2>1. order \in [Orders -> OrderRow]
    BY DEF Init, OrderRow, RowStatus, Phones, MaybeRequest
  <2>2. details \in [Requests -> DetailRow] /\ points \in [Customers -> PointRow]
    BY DEF Init, DetailRow, PointRow
  <2>3. loc \in [Requests -> Local]
    BY DEF Init, Local, MaybeOp, MaybeOrder, MaybeVoucher, Phones
  <2>4. pc \in [Requests -> Labels] /\ did \in [Requests -> SUBSET Writes]
    BY DEF Init, Labels
  <2>5. quote \in [Requests -> Nat] /\ outdated \subseteq Orders /\ overlapped \subseteq Customers
    BY DEF Init
  <2> QED
    BY <2>1, <2>2, <2>3, <2>4, <2>5 DEF Init, TypeOK
<1>2. \A r \in Requests : RequestInv(r)
  BY DEF Init, RequestInv, Suspended
<1>3. DetailBelongsToOrder /\ InvoiceIsStored /\ SettledWasMarked
  BY DEF Init, DetailBelongsToOrder, InvoiceIsStored, SettledWasMarked
<1>4. /\ OnlineDetailIsCollected /\ VoucherBoughtDiscount /\ GatewayStoppedForReason
      /\ \A g \in Deliveries : details[g].made => details[g].amount = loc[g].amount
  BY DEF Init, OnlineDetailIsCollected, VoucherBoughtDiscount, GatewayStoppedForReason, Requests
<1> QED
  BY <1>1, <1>2, <1>3, <1>4 DEF IInv

\* A jump to a label keeps the program counters well typed.
LEMMA GotoType ==
    ASSUME TypeOK, NEW r \in Requests, NEW l \in Labels, Goto(r, l)
    PROVE  pc' \in [Requests -> Labels]
  BY DEF TypeOK, Goto

\* What an award has read fits the locals of its request.
LEMMA PointsAsRead ==
    ASSUME NEW l \in Local, NEW row \in BOOLEAN, NEW total \in Nat
    PROVE  [l EXCEPT !.row = row, !.total = total] \in Local
  BY DEF Local

\* Every step keeps the tables, the requests and the gateway's sets well typed.
LEMMA TypeStep ==
    ASSUME TypeOK, \A r \in Requests : RequestInv(r), [Next]_vars
    PROVE  TypeOK'
<1> USE DEF TypeOK, history
<1>1. ASSUME NEW o \in Orders, NEW p \in Prices, NEW c \in Phones, Create(o, p, c)
      PROVE  TypeOK'
  <2>1. p \in Nat /\ "pending" \in RowStatus
    BY MoneyAssumption DEF RowStatus, OrderStatus
  <2>2. [order[o] EXCEPT !.status = "pending", !.original = p, !.final = p, !.phone = c]
          \in OrderRow
    BY <2>1 DEF OrderRow
  <2> QED
    BY <1>1, <2>2 DEF Create, requestVars
<1>2. ASSUME NEW o \in Orders, NEW p \in Prices, NEW c \in Phones, UpdateItems(o, p, c)
      PROVE  TypeOK'
  <2>1. p \in Nat
    BY MoneyAssumption
  <2> DEFINE d == IF c = NoCustomer THEN order[o].phone ELSE c
  <2>2. d \in Phones
    BY DEF OrderRow
  <2>3. RepricedRow(order[o], p, c) = [order[o] EXCEPT !.original = p, !.final = p, !.phone = d]
    BY DEF RepricedRow
  <2> HIDE DEF d
  <2>5. [order[o] EXCEPT !.original = p, !.final = p, !.phone = d] \in OrderRow
    BY <2>1, <2>2 DEF OrderRow
  <2>4. RepricedRow(order[o], p, c) \in OrderRow
    BY <2>3, <2>5
  <2>6. outdated' \subseteq Orders
    BY <1>2 DEF UpdateItems
  <2> QED
    BY <1>2, <2>4, <2>6 DEF UpdateItems
<1>3. ASSUME NEW o \in Orders, Remove(o)
      PROVE  TypeOK'
  BY <1>3 DEF Remove, requestVars, OrderRow, RowStatus
<1>4. ASSUME NEW r \in Clients, NEW o \in Orders, NEW c \in Phones, EditRead(r, o, c)
      PROVE  TypeOK'
  <2> DEFINE d == IF c = NoCustomer THEN order[o].phone ELSE c
             l == [Snapshot(order[o], loc[r]) EXCEPT !.op = "update", !.order = o, !.phone = d]
  <2>1. d \in Phones /\ "update" \in MaybeOp /\ o \in MaybeOrder /\ "edit" \in Labels
    BY DEF OrderRow, MaybeOp, OpNames, MaybeOrder, Labels, Suspended
  <2>2. Snapshot(order[o], loc[r]) \in Local /\ r \in Requests
    BY SnapshotFields DEF Requests
  <2>3. loc' = [loc EXCEPT ![r] = l]
    BY <1>4 DEF EditRead
  <2> HIDE DEF d
  <2>4. l \in Local
    BY <2>1, <2>2 DEF Local
  <2> HIDE DEF l
  <2>5. loc' \in [Requests -> Local]
    BY <2>3, <2>4
  <2>6. pc' \in [Requests -> Labels]
    BY <1>4, <2>1, <2>2, GotoType DEF EditRead
  <2> QED
    BY <1>4, <2>5, <2>6 DEF EditRead
<1>5. ASSUME NEW r \in Requests, EditWrite(r), RequestInv(r)
      PROVE  TypeOK'
  <2>1. loc[r].order \in Orders /\ loc[r].phone \in Phones
    BY <1>5 DEF EditWrite, RequestInv, Suspended, Local
  <2>2. order' \in [Orders -> OrderRow]
    BY <1>5, <2>1 DEF EditWrite, OrderRow
  <2>3. pc' \in [Requests -> Labels]
    BY <1>5, GotoType DEF EditWrite, Labels, Finished
  <2> QED
    BY <1>5, <2>2, <2>3 DEF EditWrite
<1>6. ASSUME NEW r \in Clients, NEW o \in Orders, NEW a \in Tenders, NEW v \in MaybeVoucher,
             PayByCash(r, o, a, v)
      PROVE  TypeOK'
  <2> DEFINE l == [Snapshot(order[o], loc[r]) EXCEPT
                     !.op = "cash", !.order = o, !.amount = a, !.voucher = v]
  <2>1. a \in Nat /\ "cash" \in MaybeOp /\ o \in MaybeOrder
    BY MoneyAssumption DEF MaybeOp, OpNames, MaybeOrder
  <2>2. Snapshot(order[o], loc[r]) \in Local /\ r \in Requests
    BY SnapshotFields DEF Requests
  <2>3. loc' = [loc EXCEPT ![r] = l]
    BY <1>6 DEF PayByCash
  <2>4. l \in Local
    BY <2>1, <2>2 DEF Local
  <2> HIDE DEF l
  <2>5. loc' \in [Requests -> Local]
    BY <2>3, <2>4
  <2>6. pc' \in [Requests -> Labels]
    BY <1>6, <2>2, GotoType DEF PayByCash, Labels, Suspended
  <2>7. Quote(order[o], v) \in Nat
    <3>1. order[o].final \in Nat /\ order[o].original \in Nat
      BY DEF OrderRow
    <3>2. v = NoVoucher \/ v \in Vouchers
      BY DEF MaybeVoucher
    <3> QED
      BY <3>1, <3>2, DiscountedIsNat DEF Quote
  <2>8. quote' \in [Requests -> Nat]
    BY <1>6, <2>7 DEF PayByCash
  <2> QED
    BY <1>6, <2>5, <2>6, <2>8 DEF PayByCash
<1>7. ASSUME NEW r \in Clients, NEW o \in Orders, NEW v \in MaybeVoucher, PayOnline(r, o, v)
      PROVE  TypeOK'
  <2> DEFINE l == [Snapshot(order[o], loc[r]) EXCEPT
                     !.op = "online", !.order = o, !.voucher = v]
  <2>1. "online" \in MaybeOp /\ o \in MaybeOrder
    BY DEF MaybeOp, OpNames, MaybeOrder
  <2>2. Snapshot(order[o], loc[r]) \in Local /\ r \in Requests
    BY SnapshotFields DEF Requests
  <2>3. loc' = [loc EXCEPT ![r] = l]
    BY <1>7 DEF PayOnline
  <2>4. l \in Local
    BY <2>1, <2>2 DEF Local
  <2> HIDE DEF l
  <2>5. loc' \in [Requests -> Local]
    BY <2>3, <2>4
  <2>6. pc' \in [Requests -> Labels]
    BY <1>7, <2>2, GotoType DEF PayOnline, Labels, Suspended, Finished
  <2>7. order[o].final \in Nat
    BY DEF OrderRow
  <2>8. urls' \subseteq Link /\ urls \subseteq urls'
    BY <1>7, <2>7 DEF PayOnline, Link
  <2> QED
    BY <1>7, <2>5, <2>6, <2>8 DEF PayOnline
<1>8. ASSUME NEW r \in Requests, ReadVoucher(r)
      PROVE  TypeOK'
  <2>1. pc' \in [Requests -> Labels]
    BY <1>8, GotoType DEF ReadVoucher, Labels, Suspended, Finished
  <2> QED
    BY <1>8, <2>1 DEF ReadVoucher
<1>9. ASSUME NEW r \in Requests, Reprice(r), RequestInv(r)
      PROVE  TypeOK'
  <2> DEFINE o == loc[r].order
             f == DiscountedPrice(loc[r])
             row == [order[o] EXCEPT !.final = f]
  <2>1. o \in Orders /\ loc[r].voucher \in Vouchers /\ loc[r].original \in Nat
    BY <1>9 DEF Reprice, RequestInv, Suspended, Local
  <2>2. f \in Nat
    BY <2>1, DiscountedIsNat DEF DiscountedPrice
  <2> HIDE DEF f
  <2>3. row \in OrderRow
    BY <2>1, <2>2 DEF OrderRow
  <2>4. Snapshot(row, loc[r]) \in Local
    BY <2>3, SnapshotFields
  <2>5. CASE Exists(o)
    <3>1. order' = [order EXCEPT ![o].final = f] /\ loc' = [loc EXCEPT ![r] = Snapshot(row, loc[r])]
      BY <1>9, <2>5 DEF Reprice, f
    <3>2. order' \in [Orders -> OrderRow] /\ loc' \in [Requests -> Local]
      BY <2>1, <2>2, <2>4, <3>1 DEF OrderRow
    <3>3. did' \in [Requests -> SUBSET Writes]
      BY <1>9, <2>5 DEF Reprice, Wrote, Writes
    <3>4. pc' \in [Requests -> Labels]
      BY <1>9, <2>5, GotoType DEF Reprice, Labels, Suspended
    <3> QED
      BY <1>9, <3>2, <3>3, <3>4 DEF Reprice
  <2>6. CASE ~Exists(o)
    <3>1. pc' \in [Requests -> Labels]
      BY <1>9, <2>6, GotoType DEF Reprice, Labels, Finished
    <3> QED
      BY <1>9, <2>6, <3>1 DEF Reprice
  <2> QED
    BY <2>5, <2>6
<1>10. ASSUME NEW r \in Requests, ConsumeVoucher(r), RequestInv(r)
       PROVE  TypeOK'
  <2>1. loc[r].order \in Orders /\ loc[r].final \in Nat
    BY <1>10 DEF ConsumeVoucher, RequestInv, Suspended, Local
  <2>2. active' \in [Vouchers -> BOOLEAN]
    BY <1>10 DEF ConsumeVoucher
  <2>3. did' \in [Requests -> SUBSET Writes]
    BY <1>10 DEF ConsumeVoucher, Wrote, Writes
  <2>4. pc' \in [Requests -> Labels]
    BY <1>10, GotoType DEF ConsumeVoucher, Labels, Suspended, Finished
  <2>5. urls' \subseteq Link /\ urls \subseteq urls'
    BY <1>10, <2>1 DEF ConsumeVoucher, Link
  <2> QED
    BY <1>10, <2>2, <2>3, <2>4, <2>5 DEF ConsumeVoucher
<1>11. ASSUME NEW u \in urls, Charge(u)
       PROVE  TypeOK'
  BY <1>11 DEF Charge, requestVars
<1>12. ASSUME NEW u \in Unanswered, IpnAlreadyConfirmed(u)
       PROVE  TypeOK'
  BY <1>12 DEF IpnAlreadyConfirmed, Unanswered, requestVars
<1>13. ASSUME NEW u \in Unanswered, NEW r \in Deliveries, IpnAccept(r, u)
       PROVE  TypeOK'
  <2> DEFINE l == [Snapshot(order[u.order], loc[r]) EXCEPT
                     !.op = "ipn", !.order = u.order, !.amount = u.amount]
  <2>1. "ipn" \in MaybeOp /\ u.order \in Orders /\ u.order \in MaybeOrder /\ u.amount \in Nat
    BY DEF MaybeOp, OpNames, MaybeOrder, Unanswered, Link
  <2>2. Snapshot(order[u.order], loc[r]) \in Local /\ r \in Requests
    BY <2>1, SnapshotFields DEF Requests
  <2>3. loc' = [loc EXCEPT ![r] = l]
    BY <1>13 DEF IpnAccept
  <2>4. l \in Local
    BY <2>1, <2>2 DEF Local
  <2> HIDE DEF l
  <2>5. loc' \in [Requests -> Local]
    BY <2>3, <2>4
  <2>6. pc' \in [Requests -> Labels]
    BY <1>13, <2>2, GotoType DEF IpnAccept, Labels, Suspended
  <2> QED
    BY <1>13, <2>5, <2>6 DEF IpnAccept
<1>14. ASSUME NEW r \in Requests, CreatePaymentDetail(r), RequestInv(r)
       PROVE  TypeOK'
  <2>1. loc[r].amount \in Nat /\ loc[r].amount - loc[r].final \in Int
    BY DEF Local
  <2> DEFINE row == [made |-> TRUE, amount |-> loc[r].amount,
                     change |-> loc[r].amount - loc[r].final]
  <2>5. row \in DetailRow
    BY <2>1 DEF DetailRow
  <2>6. details' = details \/ details' = [details EXCEPT ![r] = row]
    BY <1>14 DEF CreatePaymentDetail, ChangeDue
  <2> HIDE DEF row
  <2>2. details' \in [Requests -> DetailRow]
    BY <2>5, <2>6
  <2>3. confirmed' \subseteq charged
    BY <1>14 DEF CreatePaymentDetail, ChangeDue, RequestInv
  <2>4. pc' \in [Requests -> Labels]
    BY <1>14, GotoType DEF CreatePaymentDetail, ChangeDue, Labels, Suspended, Finished
  <2> QED
    BY <1>14, <2>2, <2>3, <2>4 DEF CreatePaymentDetail, ChangeDue
<1>15. ASSUME NEW r \in Requests, NEW o \in Orders, NEW s \in OrderStatus,
              NEW d \in MaybeRequest, NEW l \in Local, WriteStatus(r, o, s, d, l)
       PROVE  /\ order' \in [Orders -> OrderRow] /\ loc' \in [Requests -> Local]
              /\ did' \in [Requests -> SUBSET Writes] /\ pc' \in [Requests -> Labels]
  <2>1. StatusRow(order[o], s, d) \in OrderRow
    <3> DEFINE e == IF d = NoRequest THEN order[o].detail ELSE d
    <3>1. e \in MaybeRequest /\ s \in RowStatus
      BY DEF OrderRow, RowStatus
    <3>2. StatusRow(order[o], s, d) = [order[o] EXCEPT !.status = s, !.detail = e]
      BY DEF StatusRow
    <3> HIDE DEF e
    <3>3. PICK row \in OrderRow : row = order[o]
      OBVIOUS
    <3>4. [row EXCEPT !.status = s, !.detail = e] \in OrderRow
      BY <3>1 DEF OrderRow
    <3> QED
      BY <3>2, <3>3, <3>4
  <2>2. order' \in [Orders -> OrderRow]
    BY <1>15, <2>1 DEF WriteStatus
  <2>3. loc' \in [Requests -> Local]
    BY <1>15, SnapshotFields DEF WriteStatus
  <2>4. did' \in [Requests -> SUBSET Writes]
    BY <1>15 DEF WriteStatus, Writes
  <2>5. pc' \in [Requests -> Labels]
    BY <1>15, GotoType DEF WriteStatus, AfterStatus, Labels, Suspended, Finished
  <2> QED
    BY <2>2, <2>3, <2>4, <2>5
<1>16. ASSUME NEW r \in Requests, MarkPaid(r), RequestInv(r)
       PROVE  TypeOK'
  <2>1. loc[r].order \in Orders /\ "paid" \in OrderStatus /\ r \in MaybeRequest /\ loc[r] \in Local
    BY <1>16 DEF MarkPaid, RequestInv, Suspended, OrderStatus, MaybeRequest
  <2>2. CASE Exists(loc[r].order)
    <3>1. WriteStatus(r, loc[r].order, "paid", r, loc[r])
      BY <1>16, <2>2 DEF MarkPaid
    <3>2. /\ order' \in [Orders -> OrderRow] /\ loc' \in [Requests -> Local]
          /\ did' \in [Requests -> SUBSET Writes] /\ pc' \in [Requests -> Labels]
      BY <1>15, <2>1, <3>1
    <3> QED
      BY <1>16, <3>2 DEF MarkPaid
  <2>3. CASE ~Exists(loc[r].order)
    <3>1. pc' \in [Requests -> Labels]
      BY <1>16, <2>3, GotoType DEF MarkPaid, Labels, Finished
    <3> QED
      BY <1>16, <2>3, <3>1 DEF MarkPaid
  <2> QED
    BY <2>2, <2>3
<1>17. ASSUME NEW r \in Clients, NEW o \in Orders, NEW s \in Targets, PatchStatus(r, o, s)
       PROVE  TypeOK'
  <2> DEFINE l == [loc[r] EXCEPT !.op = "status", !.order = o]
  <2>1. r \in Requests /\ s \in OrderStatus /\ NoRequest \in MaybeRequest
    BY TargetAssumption DEF Requests, MaybeRequest
  <2>2. "status" \in MaybeOp /\ o \in MaybeOrder
    BY DEF MaybeOp, OpNames, MaybeOrder
  <2>3. l \in Local
    <3>1. PICK old \in Local : old = loc[r]
      BY <2>1
    <3>2. [old EXCEPT !.op = "status", !.order = o] \in Local
      BY <2>2 DEF Local
    <3> QED
      BY <3>1, <3>2
  <2>4. WriteStatus(r, o, s, NoRequest, l)
    BY <1>17 DEF PatchStatus
  <2>5. /\ order' \in [Orders -> OrderRow] /\ loc' \in [Requests -> Local]
        /\ did' \in [Requests -> SUBSET Writes] /\ pc' \in [Requests -> Labels]
    BY <1>15, <2>1, <2>3, <2>4
  <2> QED
    BY <1>17, <2>5 DEF PatchStatus
<1>18. ASSUME NEW r \in Requests, UploadInvoice(r), RequestInv(r)
       PROVE  TypeOK'
  <2>1. bucket' \subseteq Orders
    BY <1>18 DEF UploadInvoice, RequestInv, Suspended
  <2>2. pc' \in [Requests -> Labels]
    BY <1>18, GotoType DEF UploadInvoice, Labels, Suspended
  <2> QED
    BY <1>18, <2>1, <2>2 DEF UploadInvoice
<1>19. ASSUME NEW r \in Requests, SaveInvoiceUrl(r), RequestInv(r)
       PROVE  TypeOK'
  <2>1. loc[r].order \in Orders
    BY <1>19 DEF SaveInvoiceUrl, RequestInv, Suspended
  <2> DEFINE row == [order[loc[r].order] EXCEPT !.invoice = TRUE]
  <2>4. row \in OrderRow
    BY <2>1 DEF OrderRow
  <2>5. order' = order \/ order' = [order EXCEPT ![loc[r].order] = row]
    BY <1>19 DEF SaveInvoiceUrl
  <2> HIDE DEF row
  <2>2. order' \in [Orders -> OrderRow]
    BY <2>1, <2>4, <2>5
  <2>3. pc' \in [Requests -> Labels]
    BY <1>19, GotoType DEF SaveInvoiceUrl, Labels, Suspended, Finished
  <2> QED
    BY <1>19, <2>2, <2>3 DEF SaveInvoiceUrl
<1>20. ASSUME NEW r \in Requests, ReadPoints(r), RequestInv(r)
       PROVE  TypeOK'
  <2> DEFINE p == points[loc[r].phone]
             l == [loc[r] EXCEPT !.row = p.row, !.total = p.total]
  <2>1. p.row \in BOOLEAN /\ p.total \in Nat
    BY <1>20 DEF ReadPoints, RequestInv, PointRow
  <2>2. loc' = [loc EXCEPT ![r] = l]
    BY <1>20 DEF ReadPoints
  <2> HIDE DEF p
  <2>3. l \in Local
    BY <2>1, PointsAsRead
  <2> HIDE DEF l
  <2>4. loc' \in [Requests -> Local]
    BY <2>2, <2>3
  <2>5. pc' \in [Requests -> Labels]
    BY <1>20, GotoType DEF ReadPoints, Labels, Suspended
  <2> QED
    BY <1>20, <2>4, <2>5 DEF ReadPoints
<1>21. ASSUME NEW r \in Requests, AwardPoints(r), RequestInv(r)
       PROVE  TypeOK'
  <2>1. loc[r].total \in Nat /\ loc[r].final \in Nat
    BY DEF Local
  <2>2. NewTotal(loc[r]) \in Nat
    BY <2>1, PointsForIsNat DEF NewTotal
  <2>3. Reached(NewTotal(loc[r])) \in SUBSET Levels
    BY DEF Reached
  <2> DEFINE t == NewTotal(loc[r])
             row == [row |-> TRUE, total |-> t, level |-> Reached(t)]
  <2>7. row \in PointRow
    BY <2>2, <2>3 DEF PointRow
  <2>8. points' = points \/ points' = [points EXCEPT ![loc[r].phone] = row]
    BY <1>21 DEF AwardPoints
  <2> HIDE DEF row
  <2>4. points' \in [Customers -> PointRow]
    BY <2>7, <2>8
  <2>5. did' \in [Requests -> SUBSET Writes]
    BY <1>21 DEF AwardPoints, Wrote, Writes
  <2>6. pc' \in [Requests -> Labels]
    BY <1>21, GotoType DEF AwardPoints, Labels, Finished
  <2>9. overlapped' \subseteq Customers
    BY <1>21 DEF AwardPoints, RequestInv
  <2> QED
    BY <1>21, <2>4, <2>5, <2>6, <2>9 DEF AwardPoints
<1>22. ASSUME NEW r \in Requests, Abort(r)
       PROVE  TypeOK'
  <2>1. pc' \in [Requests -> Labels]
    BY <1>22, GotoType DEF Abort, Labels, Finished
  <2> QED
    BY <1>22, <2>1 DEF Abort
<1>23. CASE UNCHANGED vars
  BY <1>23 DEF vars
<1> QED
  BY <1>1, <1>2, <1>3, <1>4, <1>5, <1>6, <1>7, <1>8, <1>9, <1>10, <1>11, <1>12, <1>13, <1>14,
     <1>16, <1>17, <1>18, <1>19, <1>20, <1>21, <1>22, <1>23
  DEF Next, ClientCall, GatewayCall, Continue
-----------------------------------------------------------------------------
(* Request invariants are preserved.                                       *)

\* A request that does not move keeps its invariant.
LEMMA RequestFrame ==
    ASSUME NEW r \in Requests, RequestInv(r),
           pc'[r] = pc[r], loc'[r] = loc[r], did'[r] = did[r], details'[r] = details[r],
           charged \subseteq charged', bucket \subseteq bucket'
    PROVE  RequestInv(r)'
  BY DEF RequestInv

\* A jump of request q.
LEMMA GotoEffect ==
    ASSUME TypeOK, NEW q \in Requests, NEW l, Goto(q, l)
    PROVE  pc'[q] = l /\ \A r \in Requests : r # q => pc'[r] = pc[r]
  BY DEF TypeOK, Goto

\* Every step keeps what each request relies on at its await.
LEMMA RequestStep ==
    ASSUME TypeOK, NEW r \in Requests, \A q \in Requests : RequestInv(q), [Next]_vars
    PROVE  RequestInv(r)'
<1> USE DEF TypeOK
<1> DEFINE Still == /\ pc'[r] = pc[r] /\ loc'[r] = loc[r] /\ did'[r] = did[r]
                    /\ details'[r] = details[r]
                    /\ charged \subseteq charged' /\ bucket \subseteq bucket'
<1>0. Still => RequestInv(r)'
  BY RequestFrame
<1>1. ASSUME NEW o \in Orders, NEW p \in Prices, NEW c \in Phones,
             Create(o, p, c) \/ UpdateItems(o, p, c)
      PROVE  RequestInv(r)'
  BY <1>0, <1>1 DEF Create, UpdateItems, requestVars
<1>2. ASSUME NEW o \in Orders, Remove(o)
      PROVE  RequestInv(r)'
  BY <1>0, <1>2 DEF Remove, requestVars
<1>3. ASSUME NEW u \in urls, Charge(u)
      PROVE  RequestInv(r)'
  BY <1>0, <1>3 DEF Charge, requestVars
<1>4. ASSUME NEW u \in Unanswered, IpnAlreadyConfirmed(u)
      PROVE  RequestInv(r)'
  BY <1>0, <1>4 DEF IpnAlreadyConfirmed, requestVars
<1>5. ASSUME NEW q \in Clients, NEW o \in Orders, NEW c \in Phones, EditRead(q, o, c)
      PROVE  RequestInv(r)'
  <2>1. q \in Requests
    BY DEF Requests
  <2>2. CASE r # q
    BY <1>0, <1>5, <2>1, <2>2, GotoEffect DEF EditRead
  <2>3. CASE r = q
    <3>1. Snapshot(order[o], loc[r]) \in Local
      BY SnapshotFields
    <3>2. loc'[r].op = "update" /\ loc'[r].order = o
      BY <1>5, <2>3, <3>1 DEF EditRead, Local
    <3>3. pc[r] = "idle" /\ pc'[r] = "edit" /\ did' = did /\ details' = details
      BY <1>5, <2>1, <2>3, GotoEffect DEF EditRead, Starts
    <3>4. r \notin Deliveries
      BY <2>3, RequestAssumption
    <3>5. ~details[r].made
      BY <3>3 DEF RequestInv
    <3> QED
      BY <3>2, <3>3, <3>4, <3>5 DEF RequestInv
  <2> QED
    BY <2>2, <2>3
<1>6. ASSUME NEW q \in Requests, EditWrite(q)
      PROVE  RequestInv(r)'
  <2>1. CASE r # q
    BY <1>0, <1>6, <2>1, GotoEffect DEF EditWrite
  <2>2. CASE r = q
    <3>1. pc[r] = "edit" /\ pc'[r] \in {"done", "failed"}
      BY <1>6, <2>2, GotoEffect DEF EditWrite
    <3>2. UNCHANGED <<loc, did, details, charged, bucket>>
      BY <1>6 DEF EditWrite
    <3> QED
      BY <3>1, <3>2 DEF RequestInv, Suspended
  <2> QED
    BY <2>1, <2>2
<1>7. ASSUME NEW q \in Clients, NEW o \in Orders, NEW a \in Tenders, NEW v \in MaybeVoucher,
             PayByCash(q, o, a, v)
      PROVE  RequestInv(r)'
  <2>1. q \in Requests
    BY DEF Requests
  <2>2. CASE r # q
    BY <1>0, <1>7, <2>1, <2>2, GotoEffect DEF PayByCash
  <2>3. CASE r = q
    <3>1. Snapshot(order[o], loc[r]) \in Local
      BY SnapshotFields
    <3>2. loc'[r].op = "cash" /\ loc'[r].order = o /\ loc'[r].voucher = v
      BY <1>7, <2>3, <3>1 DEF PayByCash, Local
    <3>3. /\ pc[r] = "idle" /\ pc'[r] = (IF v = NoVoucher THEN "detail" ELSE "voucher")
          /\ did' = did /\ details' = details
      BY <1>7, <2>1, <2>3, GotoEffect DEF PayByCash, Starts
    <3>4. r \notin Deliveries
      BY <2>3, RequestAssumption
    <3>5. ~details[r].made
      BY <3>3 DEF RequestInv
    <3>6. v # NoVoucher => v \in Vouchers
      BY DEF MaybeVoucher
    <3> QED
      BY <3>2, <3>3, <3>4, <3>5, <3>6 DEF RequestInv
  <2> QED
    BY <2>2, <2>3
<1>8. ASSUME NEW q \in Clients, NEW o \in Orders, NEW v \in MaybeVoucher, PayOnline(q, o, v)
      PROVE  RequestInv(r)'
  <2>1. q \in Requests
    BY DEF Requests
  <2>2. CASE r # q
    BY <1>0, <1>8, <2>1, <2>2, GotoEffect DEF PayOnline
  <2>3. CASE r = q
    <3>1. Snapshot(order[o], loc[r]) \in Local
      BY SnapshotFields
    <3>2. loc'[r].op = "online" /\ loc'[r].order = o /\ loc'[r].voucher = v
      BY <1>8, <2>3, <3>1 DEF PayOnline, Local
    <3>3. /\ pc[r] = "idle" /\ pc'[r] = (IF v = NoVoucher THEN "done" ELSE "voucher")
          /\ did' = did /\ details' = details
      BY <1>8, <2>1, <2>3, GotoEffect DEF PayOnline, Starts
    <3>4. r \notin Deliveries
      BY <2>3, RequestAssumption
    <3>5. ~details[r].made
      BY <3>3 DEF RequestInv
    <3>6. v # NoVoucher => v \in Vouchers
      BY DEF MaybeVoucher
    <3> QED
      BY <3>2, <3>3, <3>4, <3>5, <3>6 DEF RequestInv, Suspended
  <2> QED
    BY <2>2, <2>3
<1>9. ASSUME NEW q \in Requests, ReadVoucher(q)
      PROVE  RequestInv(r)'
  <2>1. CASE r # q
    BY <1>0, <1>9, <2>1, GotoEffect DEF ReadVoucher
  <2>2. CASE r = q
    <3>1. pc[r] = "voucher" /\ pc'[r] \in {"reprice", "rejected"}
      BY <1>9, <2>2, GotoEffect DEF ReadVoucher
    <3>2. UNCHANGED <<loc, did, details, charged, bucket>>
      BY <1>9 DEF ReadVoucher
    <3> QED
      BY <3>1, <3>2 DEF RequestInv, Suspended
  <2> QED
    BY <2>1, <2>2
<1>10. ASSUME NEW q \in Requests, Reprice(q)
       PROVE  RequestInv(r)'
  <2>1. CASE r # q
    BY <1>0, <1>10, <2>1, GotoEffect DEF Reprice, Wrote
  <2>2. CASE r = q /\ Exists(loc[r].order)
    <3> DEFINE o == loc[r].order
               row == [order[o] EXCEPT !.final = DiscountedPrice(loc[r])]
    <3>1. pc[r] = "reprice" /\ pc'[r] = "consume"
      BY <1>10, <2>2, GotoEffect DEF Reprice
    <3>2. o \in Orders /\ loc[r].voucher \in Vouchers /\ loc[r].op \in {"cash", "online"}
      BY <3>1 DEF RequestInv, Suspended
    <3>3. row \in OrderRow
      <4>1. DiscountedPrice(loc[r]) \in Nat
        BY <3>2, DiscountedIsNat DEF DiscountedPrice, Local
      <4> QED
        BY <3>2, <4>1 DEF OrderRow
    <3>4. loc'[r] = Snapshot(row, loc[r])
      BY <1>10, <2>2 DEF Reprice
    <3>5. /\ loc'[r].op = loc[r].op /\ loc'[r].order = loc[r].order
          /\ loc'[r].voucher = loc[r].voucher
      BY <3>3, <3>4, SnapshotFields
    <3>6. "repriced" \in did'[r] /\ UNCHANGED <<details, charged, bucket>>
      BY <1>10, <2>2 DEF Reprice, Wrote
    <3>7. ~details[r].made
      BY <3>1 DEF RequestInv
    <3> QED
      BY <3>1, <3>2, <3>5, <3>6, <3>7 DEF RequestInv
  <2>3. CASE r = q /\ ~Exists(loc[r].order)
    <3>1. pc[r] = "reprice" /\ pc'[r] = "failed"
      BY <1>10, <2>3, GotoEffect DEF Reprice
    <3>2. UNCHANGED <<loc, did, details, charged, bucket>>
      BY <1>10, <2>3 DEF Reprice
    <3> QED
      BY <3>1, <3>2 DEF RequestInv, Suspended
  <2> QED
    BY <2>1, <2>2, <2>3
<1>11. ASSUME NEW q \in Requests, ConsumeVoucher(q)
       PROVE  RequestInv(r)'
  <2>1. CASE r # q
    BY <1>0, <1>11, <2>1, GotoEffect DEF ConsumeVoucher, Wrote
  <2>2. CASE r = q
    <3>1. /\ pc[r] = "consume"
          /\ pc'[r] = (IF loc[r].op = "online" THEN "done" ELSE "detail")
      BY <1>11, <2>2, GotoEffect DEF ConsumeVoucher
    <3>2. UNCHANGED <<loc, details, charged, bucket>>
      BY <1>11 DEF ConsumeVoucher
    <3>3. loc[r].op \in {"cash", "online"} /\ ~details[r].made
      BY <3>1 DEF RequestInv
    <3> QED
      BY <3>1, <3>2, <3>3 DEF RequestInv, Suspended
  <2> QED
    BY <2>1, <2>2
<1>12. ASSUME NEW u \in Unanswered, NEW q \in Deliveries, IpnAccept(q, u)
       PROVE  RequestInv(r)'
  <2>1. q \in Requests /\ u \in charged /\ u.order \in Orders
    BY DEF Requests, Unanswered, Link
  <2>2. CASE r # q
    BY <1>0, <1>12, <2>1, <2>2, GotoEffect DEF IpnAccept
  <2>3. CASE r = q
    <3>1. Snapshot(order[u.order], loc[r]) \in Local
      BY <2>1, SnapshotFields
    <3>2. Snapshot(order[u.order], loc[r]).final = order[u.order].final
      BY <2>1, SnapshotFields
    <3>3. /\ loc'[r].op = "ipn" /\ loc'[r].order = u.order /\ loc'[r].amount = u.amount
          /\ loc'[r].final = order[u.order].final
      BY <1>12, <2>3, <3>1, <3>2 DEF IpnAccept, Local
    <3>4. u.amount = order[u.order].final
      BY <1>12 DEF IpnAccept, AmountMatches
    <3>5. u = [order |-> u.order, amount |-> u.amount]
      BY <2>1 DEF Link
    <3>6. /\ pc[r] = "idle" /\ pc'[r] = "detail" /\ UNCHANGED <<did, details, charged, bucket>>
      BY <1>12, <2>1, <2>3, GotoEffect DEF IpnAccept, Starts
    <3>7. ~details[r].made
      BY <3>6 DEF RequestInv
    <3> QED
      BY <2>1, <2>3, <3>3, <3>4, <3>5, <3>6, <3>7 DEF RequestInv
  <2> QED
    BY <2>2, <2>3
<1>13. ASSUME NEW q \in Requests, CreatePaymentDetail(q)
       PROVE  RequestInv(r)'
  <2>1. CASE r # q
    BY <1>0, <1>13, <2>1, GotoEffect DEF CreatePaymentDetail, ChangeDue
  <2>2. CASE r = q
    <3>1. pc[r] = "detail" /\ UNCHANGED <<loc, did, charged, bucket>>
      BY <1>13, <2>2 DEF CreatePaymentDetail, ChangeDue
    <3>2. loc[r].order \in Orders /\ loc[r].op \in {"cash", "ipn"}
      BY <3>1 DEF RequestInv, Suspended
    <3>3. \/ pc'[r] = "status" /\ details'[r].made
          \/ pc'[r] = "failed" /\ details' = details
      BY <1>13, <2>2, GotoEffect DEF CreatePaymentDetail, ChangeDue
    <3> QED
      BY <3>1, <3>2, <3>3 DEF RequestInv, Suspended
  <2> QED
    BY <2>1, <2>2
<1>14. ASSUME NEW q \in Requests, MarkPaid(q)
       PROVE  RequestInv(r)'
  <2>1. CASE r # q
    BY <1>0, <1>14, <2>1, GotoEffect DEF MarkPaid, WriteStatus
  <2>2. CASE r = q
    <3>1. pc[r] = "status" /\ UNCHANGED <<details, charged, bucket>>
      BY <1>14, <2>2 DEF MarkPaid
    <3>2. loc[r].order \in Orders /\ loc[r] \in Local
      BY <3>1 DEF RequestInv, Suspended
    <3>3. \/ pc'[r] = "failed" /\ loc' = loc
          \/ pc'[r] = "upload" /\ loc'[r] = Snapshot(order[loc[r].order], loc[r])
      BY <1>14, <2>2, GotoEffect DEF MarkPaid, WriteStatus, AfterStatus
    <3>4. /\ loc'[r].op = loc[r].op /\ loc'[r].order = loc[r].order
          /\ loc'[r].amount = loc[r].amount
      BY <3>2, <3>3, SnapshotFields
    <3> QED
      BY <3>1, <3>2, <3>3, <3>4 DEF RequestInv, Suspended
  <2> QED
    BY <2>1, <2>2
<1>15. ASSUME NEW q \in Clients, NEW o \in Orders, NEW s \in Targets, PatchStatus(q, o, s)
       PROVE  RequestInv(r)'
  <2>1. q \in Requests
    BY DEF Requests
  <2>2. CASE r # q
    BY <1>0, <1>15, <2>1, <2>2, GotoEffect DEF PatchStatus, WriteStatus
  <2>3. CASE r = q
    <3> DEFINE l == [loc[r] EXCEPT !.op = "status", !.order = o]
    <3>1. l \in Local /\ l.op = "status" /\ l.order = o
      <4>1. "status" \in MaybeOp /\ o \in MaybeOrder
        BY DEF MaybeOp, OpNames, MaybeOrder
      <4> QED
        BY <4>1 DEF Local
    <3>2. loc'[r] = Snapshot(order[o], l)
      BY <1>15, <2>3 DEF PatchStatus, WriteStatus
    <3> HIDE DEF l
    <3>3. loc'[r].op = "status" /\ loc'[r].order = o
      BY <3>1, <3>2, SnapshotFields
    <3>4. /\ pc[r] = "idle" /\ pc'[r] \in {"upload", "done"}
          /\ UNCHANGED <<details, charged, bucket>>
      BY <1>15, <2>1, <2>3, GotoEffect DEF PatchStatus, WriteStatus, AfterStatus, Starts
    <3>5. r \notin Deliveries
      BY <2>3, RequestAssumption
    <3>6. ~details[r].made
      BY <3>4 DEF RequestInv
    <3> QED
      BY <3>3, <3>4, <3>5, <3>6 DEF RequestInv, Suspended
  <2> QED
    BY <2>2, <2>3
<1>16. ASSUME NEW q \in Requests, UploadInvoice(q)
       PROVE  RequestInv(r)'
  <2>1. CASE r # q
    BY <1>0, <1>16, <2>1, GotoEffect DEF UploadInvoice
  <2>2. CASE r = q
    <3>1. pc[r] = "upload" /\ pc'[r] = "invoice" /\ loc[r].order \in bucket'
      BY <1>16, <2>2, GotoEffect DEF UploadInvoice
    <3>2. UNCHANGED <<loc, did, details, charged>>
      BY <1>16 DEF UploadInvoice
    <3> QED
      BY <3>1, <3>2 DEF RequestInv, Suspended
  <2> QED
    BY <2>1, <2>2
<1>17. ASSUME NEW q \in Requests, SaveInvoiceUrl(q)
       PROVE  RequestInv(r)'
  <2>1. CASE r # q
    BY <1>0, <1>17, <2>1, GotoEffect DEF SaveInvoiceUrl
  <2>2. CASE r = q
    <3>1. /\ pc[r] = "invoice"
          /\ \/ pc'[r] \in {"done", "failed"}
             \/ pc'[r] = "points" /\ loc[r].phone # NoCustomer
      BY <1>17, <2>2, GotoEffect DEF SaveInvoiceUrl
    <3>2. UNCHANGED <<loc, did, details, charged, bucket>>
      BY <1>17 DEF SaveInvoiceUrl
    <3>3. loc[r].phone # NoCustomer => loc[r].phone \in Customers
      BY DEF Local, Phones
    <3> QED
      BY <3>1, <3>2, <3>3 DEF RequestInv, Suspended
  <2> QED
    BY <2>1, <2>2
<1>18. ASSUME NEW q \in Requests, ReadPoints(q)
       PROVE  RequestInv(r)'
  <2>1. CASE r # q
    BY <1>0, <1>18, <2>1, GotoEffect DEF ReadPoints
  <2>2. CASE r = q
    <3> DEFINE t == points[loc[r].phone]
    <3>1. /\ pc[r] = "points" /\ pc'[r] = "award"
          /\ UNCHANGED <<did, details, charged, bucket>>
      BY <1>18, <2>2, GotoEffect DEF ReadPoints
    <3>2. loc'[r] = [loc[r] EXCEPT !.row = t.row, !.total = t.total]
      BY <1>18, <2>2 DEF ReadPoints
    <3> HIDE DEF t
    <3>3. /\ loc'[r].op = loc[r].op /\ loc'[r].order = loc[r].order
          /\ loc'[r].amount = loc[r].amount /\ loc'[r].phone = loc[r].phone
      BY <3>2 DEF Local
    <3> QED
      BY <3>1, <3>3 DEF RequestInv, Suspended
  <2> QED
    BY <2>1, <2>2
<1>19. ASSUME NEW q \in Requests, AwardPoints(q)
       PROVE  RequestInv(r)'
  <2>1. CASE r # q
    BY <1>0, <1>19, <2>1, GotoEffect DEF AwardPoints, Wrote
  <2>2. CASE r = q
    <3>1. /\ pc[r] = "award" /\ pc'[r] = "done"
          /\ UNCHANGED <<loc, details, charged, bucket>>
      BY <1>19, <2>2, GotoEffect DEF AwardPoints
    <3> QED
      BY <3>1 DEF RequestInv, Suspended
  <2> QED
    BY <2>1, <2>2
<1>20. ASSUME NEW q \in Requests, Abort(q)
       PROVE  RequestInv(r)'
  <2>1. CASE r # q
    BY <1>0, <1>20, <2>1, GotoEffect DEF Abort
  <2>2. CASE r = q
    <3>1. /\ pc[r] \in Suspended /\ pc'[r] = "failed"
          /\ UNCHANGED <<loc, did, details, charged, bucket>>
      BY <1>20, <2>2, GotoEffect DEF Abort
    <3> QED
      BY <3>1 DEF RequestInv, Suspended
  <2> QED
    BY <2>1, <2>2
<1>21. CASE UNCHANGED vars
  BY <1>0, <1>21 DEF vars
<1> QED
  BY <1>1, <1>2, <1>3, <1>4, <1>5, <1>6, <1>7, <1>8, <1>9, <1>10, <1>11, <1>12, <1>13, <1>14,
     <1>15, <1>16, <1>17, <1>18, <1>19, <1>20, <1>21
  DEF Next, ClientCall, GatewayCall, Continue
-----------------------------------------------------------------------------
(* What a step leaves of a request that has started.                       *)

\* What a started request has written, and which order and voucher it serves,
\* stays as it is; charges only grow.
LEMMA StartedIsStable ==
    ASSUME TypeOK, \A q \in Requests : RequestInv(q), [Next]_vars,
           NEW r \in Requests, pc[r] # "idle"
    PROVE  /\ loc'[r].op = loc[r].op
           /\ loc'[r].order = loc[r].order
           /\ loc'[r].voucher = loc[r].voucher
           /\ loc'[r].amount = loc[r].amount
           /\ did[r] \subseteq did'[r]
           /\ details[r].made => details'[r] = details[r]
           /\ charged \subseteq charged'
<1> USE DEF TypeOK
<1> DEFINE Same == loc'[r] = loc[r] /\ did[r] \subseteq did'[r] /\ details'[r] = details[r]
                   /\ charged \subseteq charged'
<1> DEFINE Kept == /\ loc'[r].op = loc[r].op /\ loc'[r].order = loc[r].order
                   /\ loc'[r].voucher = loc[r].voucher /\ loc'[r].amount = loc[r].amount
                   /\ did[r] \subseteq did'[r]
                   /\ details[r].made => details'[r] = details[r]
                   /\ charged \subseteq charged'
<1>0. Same => Kept
  OBVIOUS
<1> SUFFICES Kept
  OBVIOUS
<1>1. ASSUME NEW o \in Orders, NEW p \in Prices, NEW c \in Phones,
             Create(o, p, c) \/ UpdateItems(o, p, c)
      PROVE  Same
  BY <1>1 DEF Create, UpdateItems, requestVars
<1>2. ASSUME NEW o \in Orders, Remove(o)
      PROVE  Same
  BY <1>2 DEF Remove, requestVars
<1>3. ASSUME NEW u \in urls, Charge(u)
      PROVE  Same
  BY <1>3 DEF Charge, requestVars
<1>4. ASSUME NEW u \in Unanswered, IpnAlreadyConfirmed(u)
      PROVE  Same
  BY <1>4 DEF IpnAlreadyConfirmed, requestVars
<1>5. ASSUME NEW q \in Clients, NEW o \in Orders,
             \/ \E c \in Phones : EditRead(q, o, c)
             \/ \E a \in Tenders, v \in MaybeVoucher : PayByCash(q, o, a, v)
             \/ \E v \in MaybeVoucher : PayOnline(q, o, v)
      PROVE  Same
  BY <1>5 DEF EditRead, PayByCash, PayOnline, Starts, Requests
<1>6. ASSUME NEW q \in Requests,
             \/ EditWrite(q) \/ ReadVoucher(q) \/ UploadInvoice(q) \/ SaveInvoiceUrl(q)
             \/ Abort(q)
      PROVE  Same
  BY <1>6 DEF EditWrite, ReadVoucher, UploadInvoice, SaveInvoiceUrl, Abort
<1>7. ASSUME NEW q \in Requests, Reprice(q)
      PROVE  Kept
  <2>1. CASE r # q \/ ~Exists(loc[q].order)
    BY <1>7, <2>1 DEF Reprice, Wrote
  <2>2. CASE r = q /\ Exists(loc[r].order)
    <3> DEFINE row == [order[loc[r].order] EXCEPT !.final = DiscountedPrice(loc[r])]
    <3>1. loc[r].order \in Orders /\ loc[r].voucher \in Vouchers
      BY <1>7, <2>2 DEF Reprice, RequestInv, Suspended
    <3>2. DiscountedPrice(loc[r]) \in Nat
      BY <3>1, DiscountedIsNat DEF DiscountedPrice, Local
    <3>3. row \in OrderRow
      BY <3>1, <3>2 DEF OrderRow
    <3>4. loc'[r] = Snapshot(row, loc[r])
      BY <1>7, <2>2 DEF Reprice
    <3>5. did[r] \subseteq did'[r] /\ UNCHANGED <<details, charged>>
      BY <1>7, <2>2 DEF Reprice, Wrote
    <3> HIDE DEF row
    <3> QED
      BY <3>3, <3>4, <3>5, SnapshotFields
  <2> QED
    BY <2>1, <2>2
<1>8. ASSUME NEW q \in Requests, ConsumeVoucher(q) \/ AwardPoints(q)
      PROVE  Same
  BY <1>8 DEF ConsumeVoucher, AwardPoints, Wrote
<1>9. ASSUME NEW u \in Unanswered, NEW q \in Deliveries, IpnAccept(q, u)
      PROVE  Same
  BY <1>9 DEF IpnAccept, Starts, Requests
<1>10. ASSUME NEW q \in Requests, CreatePaymentDetail(q)
       PROVE  Kept
  <2>1. r = q => ~details[r].made
    BY <1>10 DEF CreatePaymentDetail, ChangeDue, RequestInv
  <2> QED
    BY <1>10, <2>1 DEF CreatePaymentDetail, ChangeDue
<1>11. ASSUME NEW q \in Requests, MarkPaid(q)
       PROVE  Kept
  <2>1. CASE r # q \/ ~Exists(loc[q].order)
    BY <1>11, <2>1 DEF MarkPaid, WriteStatus
  <2>2. CASE r = q /\ Exists(loc[r].order)
    <3>1. order[loc[r].order] \in OrderRow /\ loc[r] \in Local
      BY <1>11, <2>2 DEF MarkPaid, RequestInv, Suspended
    <3>2. loc'[r] = Snapshot(order[loc[r].order], loc[r])
      BY <1>11, <2>2 DEF MarkPaid, WriteStatus
    <3>3. did[r] \subseteq did'[r] /\ UNCHANGED <<details, charged>>
      BY <1>11, <2>2 DEF MarkPaid, WriteStatus
    <3> QED
      BY <3>1, <3>2, <3>3, SnapshotFields
  <2> QED
    BY <2>1, <2>2
<1>12. ASSUME NEW q \in Clients, NEW o \in Orders, NEW s \in Targets, PatchStatus(q, o, s)
       PROVE  Same
  BY <1>12 DEF PatchStatus, WriteStatus, Starts, Requests
<1>13. ASSUME NEW q \in Requests, ReadPoints(q)
       PROVE  Kept
  <2> DEFINE t == points[loc[q].phone]
             l == [loc[q] EXCEPT !.row = t.row, !.total = t.total]
  <2>1. loc' = [loc EXCEPT ![q] = l] /\ UNCHANGED <<did, details, charged>>
    BY <1>13 DEF ReadPoints
  <2> HIDE DEF t
  <2>2. /\ l.op = loc[q].op /\ l.order = loc[q].order /\ l.voucher = loc[q].voucher
        /\ l.amount = loc[q].amount
    BY DEF Local
  <2> HIDE DEF l
  <2> QED
    BY <2>1, <2>2
<1>14. CASE UNCHANGED vars
  BY <1>14 DEF vars
<1> QED
  BY <1>0, <1>1, <1>2, <1>3, <1>4, <1>5, <1>6, <1>7, <1>8, <1>9, <1>10, <1>11, <1>12, <1>13, <1>14
  DEF Next, ClientCall, GatewayCall, Continue

-----------------------------------------------------------------------------
(* Who writes what.                                                        *)

\* Which steps write what: every other step leaves it alone.
LEMMA Writers ==
    ASSUME [Next]_vars
    PROVE  /\ details' = details \/ \E q \in Requests : CreatePaymentDetail(q)
           /\ active' = active \/ \E q \in Requests : ConsumeVoucher(q)
           /\ \/ confirmed' = confirmed
              \/ \E q \in Requests : CreatePaymentDetail(q)
              \/ \E w \in Unanswered : IpnAlreadyConfirmed(w)
           /\ bucket' = bucket \/ \E q \in Requests : UploadInvoice(q)
           /\ \/ points' = points /\ overlapped' = overlapped
              \/ \E q \in Requests : AwardPoints(q)
           /\ \/ outdated' = outdated
              \/ \E o \in Orders, p \in Prices, c \in Phones : UpdateItems(o, p, c)
           /\ \/ did' = did
              \/ \E q \in Requests : AwardPoints(q) \/ Reprice(q) \/ ConsumeVoucher(q) \/ MarkPaid(q)
              \/ \E q \in Clients, o \in Orders, s \in Targets : PatchStatus(q, o, s)
           /\ \/ order' = order
              \/ \E o \in Orders, p \in Prices, c \in Phones : Create(o, p, c) \/ UpdateItems(o, p, c)
              \/ \E o \in Orders : Remove(o)
              \/ \E q \in Requests : EditWrite(q) \/ SaveInvoiceUrl(q) \/ Reprice(q) \/ MarkPaid(q)
              \/ \E q \in Clients, o \in Orders, s \in Targets : PatchStatus(q, o, s)
<1> DEFINE Details == details' = details \/ \E q \in Requests : CreatePaymentDetail(q)
           Active == active' = active \/ \E q \in Requests : ConsumeVoucher(q)
           Confirmed == \/ confirmed' = confirmed
                        \/ \E q \in Requests : CreatePaymentDetail(q)
                        \/ \E w \in Unanswered : IpnAlreadyConfirmed(w)
           Bucket == bucket' = bucket \/ \E q \in Requests : UploadInvoice(q)
           Points == \/ points' = points /\ overlapped' = overlapped
                     \/ \E q \in Requests : AwardPoints(q)
           Outdated == \/ outdated' = outdated
                       \/ \E o \in Orders, p \in Prices, c \in Phones : UpdateItems(o, p, c)
           Did == \/ did' = did
                  \/ \E q \in Requests :
                       AwardPoints(q) \/ Reprice(q) \/ ConsumeVoucher(q) \/ MarkPaid(q)
                  \/ \E q \in Clients, o \in Orders, s \in Targets : PatchStatus(q, o, s)
           Order == \/ order' = order
                    \/ \E o \in Orders, p \in Prices, c \in Phones :
                         Create(o, p, c) \/ UpdateItems(o, p, c)
                    \/ \E o \in Orders : Remove(o)
                    \/ \E q \in Requests :
                         EditWrite(q) \/ SaveInvoiceUrl(q) \/ Reprice(q) \/ MarkPaid(q)
                    \/ \E q \in Clients, o \in Orders, s \in Targets : PatchStatus(q, o, s)
           All == Details /\ Active /\ Confirmed /\ Bucket /\ Points /\ Outdated /\ Did /\ Order
<1>1. ASSUME NEW o \in Orders, NEW p \in Prices, NEW c \in Phones,
             Create(o, p, c) \/ UpdateItems(o, p, c)
      PROVE  All
  <2>1. Order
    BY <1>1
  <2>2. Details /\ Active /\ Confirmed /\ Bucket /\ Points /\ Did
    BY <1>1 DEF Create, UpdateItems, requestVars, history
  <2>3. Outdated
    BY <1>1 DEF Create, requestVars, history
  <2> QED
    BY <2>1, <2>2, <2>3
<1>2. ASSUME NEW o \in Orders, Remove(o) PROVE All
  <2>1. Order
    BY <1>2
  <2>2. Details /\ Active /\ Confirmed /\ Bucket /\ Points /\ Did /\ Outdated
    BY <1>2 DEF Remove, requestVars, history
  <2> QED
    BY <2>1, <2>2
<1>3. ASSUME NEW q \in Clients, NEW o \in Orders,
             \/ \E c \in Phones : EditRead(q, o, c)
             \/ \E a \in Tenders, v \in MaybeVoucher : PayByCash(q, o, a, v)
             \/ \E v \in MaybeVoucher : PayOnline(q, o, v)
      PROVE  All
  BY <1>3 DEF EditRead, PayByCash, PayOnline, history
<1>4. ASSUME NEW q \in Clients, NEW o \in Orders, NEW s \in Targets, PatchStatus(q, o, s)
      PROVE  All
  <2>1. Order /\ Did
    BY <1>4
  <2>2. Details /\ Active /\ Confirmed /\ Bucket /\ Points /\ Outdated
    BY <1>4 DEF PatchStatus, history
  <2> QED
    BY <2>1, <2>2
<1>5. ASSUME NEW u \in urls, Charge(u) PROVE All
  BY <1>5 DEF Charge, requestVars, history
<1>6. ASSUME NEW q \in Deliveries, NEW u \in Unanswered, IpnAccept(q, u) PROVE All
  BY <1>6 DEF IpnAccept, history
<1>7. ASSUME NEW u \in Unanswered, IpnAlreadyConfirmed(u) PROVE All
  <2>1. Confirmed
    BY <1>7
  <2>2. Details /\ Active /\ Bucket /\ Points /\ Outdated /\ Did /\ Order
    BY <1>7 DEF IpnAlreadyConfirmed, requestVars, history
  <2> QED
    BY <2>1, <2>2
<1>8. ASSUME NEW q \in Requests, EditWrite(q) \/ SaveInvoiceUrl(q) PROVE All
  <2>1. Order
    BY <1>8
  <2>2. Details /\ Active /\ Confirmed /\ Bucket /\ Points /\ Outdated /\ Did
    BY <1>8 DEF EditWrite, SaveInvoiceUrl, history
  <2> QED
    BY <2>1, <2>2
<1>9. ASSUME NEW q \in Requests, Reprice(q) \/ MarkPaid(q) PROVE All
  <2>1. Order /\ Did
    BY <1>9
  <2>2. Details /\ Active /\ Confirmed /\ Bucket /\ Points /\ Outdated
    BY <1>9 DEF Reprice, MarkPaid, history
  <2> QED
    BY <2>1, <2>2
<1>10. ASSUME NEW q \in Requests, ReadVoucher(q) \/ ReadPoints(q) \/ Abort(q) PROVE All
  BY <1>10 DEF ReadVoucher, ReadPoints, Abort, history
<1>11. ASSUME NEW q \in Requests, ConsumeVoucher(q) PROVE All
  <2>1. Active /\ Did
    BY <1>11
  <2>2. Details /\ Confirmed /\ Bucket /\ Points /\ Outdated /\ Order
    BY <1>11 DEF ConsumeVoucher, history
  <2> QED
    BY <2>1, <2>2
<1>12. ASSUME NEW q \in Requests, CreatePaymentDetail(q) PROVE All
  <2>1. Details /\ Confirmed
    BY <1>12
  <2>2. Active /\ Bucket /\ Points /\ Outdated /\ Did /\ Order
    BY <1>12 DEF CreatePaymentDetail, ChangeDue, history
  <2> QED
    BY <2>1, <2>2
<1>13. ASSUME NEW q \in Requests, UploadInvoice(q) PROVE All
  <2>1. Bucket
    BY <1>13
  <2>2. Details /\ Active /\ Confirmed /\ Points /\ Outdated /\ Did /\ Order
    BY <1>13 DEF UploadInvoice, history
  <2> QED
    BY <2>1, <2>2
<1>14. ASSUME NEW q \in Requests, AwardPoints(q) PROVE All
  <2>1. Points /\ Did
    BY <1>14
  <2>2. Details /\ Active /\ Confirmed /\ Bucket /\ Outdated /\ Order
    BY <1>14 DEF AwardPoints
  <2> QED
    BY <2>1, <2>2
<1>15. ASSUME UNCHANGED vars PROVE All
  BY <1>15 DEF vars, history
<1> HIDE DEF All
<1>16. ClientCall => All
  BY <1>1, <1>2, <1>3, <1>4 DEF ClientCall
<1>17. GatewayCall => All
  BY <1>6, <1>7 DEF GatewayCall
<1>18. ASSUME NEW q \in Requests, Continue(q) \/ Abort(q) PROVE All
  BY <1>8, <1>9, <1>10, <1>11, <1>12, <1>13, <1>14, <1>18 DEF Continue
<1>19. All
  BY <1>5, <1>15, <1>16, <1>17, <1>18 DEF Next
<1> QED
  BY <1>19 DEF All

-----------------------------------------------------------------------------
(* What a step does to an order.                                           *)

\* The payment of an order only changes when a payment handler marks it paid;
\* the invoice key is only written behind the upload; and an order that is
\* paid or completed after the step was so before or is marked by the step.
LEMMA OrderStep ==
    ASSUME TypeOK, \A q \in Requests : RequestInv(q), [Next]_vars, NEW o \in Orders
    PROVE  /\ \/ order'[o].detail = order[o].detail
              \/ \E q \in Requests : /\ MarkPaid(q) /\ Exists(o)
                                     /\ o = loc[q].order /\ order'[o].detail = q
           /\ \/ order'[o].invoice = order[o].invoice
              \/ o \in bucket
           /\ order'[o].status \in {"paid", "completed"} =>
                \/ order[o].status \in {"paid", "completed"}
                \/ \E q \in Requests : loc'[q].order = o /\ "marked" \in did'[q]
<1> USE DEF TypeOK
<1> DEFINE Kept == /\ order'[o].detail = order[o].detail
                   /\ order'[o].invoice = order[o].invoice
                   /\ order'[o].status \in {"paid", "completed"} =>
                        order[o].status \in {"paid", "completed"}
<1>1. ASSUME NEW x \in Orders, NEW p \in Prices, NEW c \in Phones, Create(x, p, c)
      PROVE  Kept
  <2>1. order'[o] = order[o] \/
        order'[o] = [order[o] EXCEPT !.status = "pending", !.original = p, !.final = p, !.phone = c]
    BY <1>1 DEF Create
  <2>2. PICK row \in OrderRow : row = order[o]
    OBVIOUS
  <2> DEFINE new == [row EXCEPT !.status = "pending", !.original = p, !.final = p, !.phone = c]
  <2>3. new.detail = row.detail /\ new.invoice = row.invoice /\ new.status = "pending"
    BY DEF OrderRow
  <2> QED
    BY <2>1, <2>2, <2>3
<1>2. ASSUME NEW x \in Orders, NEW p \in Prices, NEW c \in Phones, UpdateItems(x, p, c)
      PROVE  Kept
  <2>1. order'[o] = order[o] \/ order'[o] = RepricedRow(order[o], p, c)
    BY <1>2 DEF UpdateItems
  <2>2. PICK row \in OrderRow : row = order[o]
    OBVIOUS
  <2> DEFINE new == RepricedRow(row, p, c)
  <2>3. new.detail = row.detail /\ new.invoice = row.invoice /\ new.status = row.status
    BY DEF OrderRow, RepricedRow
  <2> HIDE DEF new
  <2>4. order'[o] = row \/ order'[o] = new
    BY <2>1, <2>2 DEF new
  <2> QED
    BY <2>2, <2>3, <2>4
<1>3. ASSUME NEW x \in Orders, Remove(x)
      PROVE  Kept
  BY <1>3 DEF Remove, OrderRow
<1>4. ASSUME NEW q \in Requests, EditWrite(q)
      PROVE  Kept
  BY <1>4 DEF EditWrite, OrderRow
<1>5. ASSUME NEW q \in Requests, Reprice(q)
      PROVE  Kept
  BY <1>5 DEF Reprice, OrderRow
<1>6. ASSUME NEW q \in Requests, MarkPaid(q)
      PROVE  /\ order'[o].detail = order[o].detail \/
                (Exists(o) /\ o = loc[q].order /\ order'[o].detail = q)
             /\ order'[o].invoice = order[o].invoice
             /\ order'[o].status \in {"paid", "completed"} =>
                  \/ order[o].status \in {"paid", "completed"}
                  \/ loc'[q].order = o /\ "marked" \in did'[q]
  <2> DEFINE x == loc[q].order
  <2>1. x \in Orders /\ loc[q] \in Local /\ q # NoRequest
    BY <1>6, NullAssumption DEF MarkPaid, RequestInv, Suspended
  <2>2. CASE o = x /\ Exists(x)
    <3>1. order'[o] = StatusRow(order[o], "paid", q)
      BY <1>6, <2>1, <2>2 DEF MarkPaid, WriteStatus
    <3>2. order'[o].detail = q /\ order'[o].invoice = order[o].invoice
      BY <2>1, <3>1 DEF StatusRow, OrderRow
    <3>3. loc'[q] = Snapshot(order[x], loc[q]) /\ "marked" \in did'[q]
      BY <1>6, <2>2 DEF MarkPaid, WriteStatus
    <3>4. loc'[q].order = x
      BY <2>1, <3>3, SnapshotFields
    <3> QED
      BY <2>2, <3>2, <3>3, <3>4
  <2>3. CASE ~(o = x /\ Exists(x))
    BY <1>6, <2>3 DEF MarkPaid, WriteStatus
  <2> QED
    BY <2>2, <2>3
<1>7. ASSUME NEW q \in Clients, NEW x \in Orders, NEW s \in Targets, PatchStatus(q, x, s)
      PROVE  /\ order'[o].detail = order[o].detail
             /\ order'[o].invoice = order[o].invoice
             /\ order'[o].status \in {"paid", "completed"} =>
                  \/ order[o].status \in {"paid", "completed"}
                  \/ loc'[q].order = o /\ "marked" \in did'[q]
  <2> DEFINE l == [loc[q] EXCEPT !.op = "status", !.order = x]
  <2>1. q \in Requests /\ l \in Local /\ l.order = x
    <3>1. "status" \in MaybeOp /\ x \in MaybeOrder
      BY DEF MaybeOp, OpNames, MaybeOrder
    <3> QED
      BY <3>1 DEF Local, Requests
  <2>2. CASE o = x
    <3>1. order'[o] = StatusRow(order[o], s, NoRequest)
      BY <1>7, <2>2 DEF PatchStatus, WriteStatus
    <3>2. /\ order'[o].detail = order[o].detail /\ order'[o].invoice = order[o].invoice
          /\ order'[o].status = s
      BY <3>1 DEF StatusRow, OrderRow
    <3>3. loc'[q] = Snapshot(order[x], l)
      BY <1>7, <2>1 DEF PatchStatus, WriteStatus
    <3> HIDE DEF l
    <3>4. loc'[q].order = x
      BY <2>1, <3>3, SnapshotFields
    <3>5. s \in {"paid", "completed"} => "marked" \in did'[q]
      BY <1>7, <2>1 DEF PatchStatus, WriteStatus
    <3> QED
      BY <2>2, <3>2, <3>4, <3>5
  <2>3. CASE o # x
    BY <1>7, <2>3 DEF PatchStatus, WriteStatus
  <2> QED
    BY <2>2, <2>3
<1>8. ASSUME NEW q \in Requests, SaveInvoiceUrl(q)
      PROVE  /\ order'[o].detail = order[o].detail /\ order'[o].status = order[o].status
             /\ order'[o].invoice = order[o].invoice \/ o \in bucket
  <2>1. loc[q].order \in bucket
    BY <1>8 DEF SaveInvoiceUrl, RequestInv
  <2> QED
    BY <1>8, <2>1 DEF SaveInvoiceUrl, OrderRow
<1>9. ASSUME UNCHANGED order
      PROVE  Kept
  BY <1>9
<1>10. ASSUME NEW q \in Clients, NEW x \in Orders,
              \/ \E c \in Phones : EditRead(q, x, c)
              \/ \E a \in Tenders, v \in MaybeVoucher : PayByCash(q, x, a, v)
              \/ \E v \in MaybeVoucher : PayOnline(q, x, v)
       PROVE  Kept
  BY <1>9, <1>10 DEF EditRead, PayByCash, PayOnline
<1>11. ASSUME NEW q \in Requests,
              \/ ReadVoucher(q) \/ ConsumeVoucher(q) \/ CreatePaymentDetail(q) \/ UploadInvoice(q)
              \/ ReadPoints(q) \/ AwardPoints(q) \/ Abort(q)
       PROVE  Kept
  BY <1>9, <1>11 DEF ReadVoucher, ConsumeVoucher, CreatePaymentDetail, ChangeDue, UploadInvoice, ReadPoints,
                     AwardPoints, Abort
<1>12. ASSUME NEW u, Charge(u) \/ IpnAlreadyConfirmed(u) \/ \E q \in Deliveries : IpnAccept(q, u)
       PROVE  Kept
  BY <1>9, <1>12 DEF Charge, IpnAlreadyConfirmed, IpnAccept
<1>13. ASSUME UNCHANGED vars
       PROVE  Kept
  BY <1>9, <1>13 DEF vars
<1>14. CASE \E q \in Requests : MarkPaid(q)
  BY <1>6, <1>14
<1>15. CASE \E q \in Clients, x \in Orders, s \in Targets : PatchStatus(q, x, s)
  <2>1. PICK q \in Clients, x \in Orders, s \in Targets : PatchStatus(q, x, s)
    BY <1>15
  <2>2. q \in Requests
    BY DEF Requests
  <2> QED
    BY <1>7, <2>1, <2>2
<1>16. CASE \E q \in Requests : SaveInvoiceUrl(q)
  BY <1>8, <1>16
<1> HIDE DEF Kept
<1>17. Kept \/ (\E q \in Requests : MarkPaid(q)) \/ (\E q \in Requests : SaveInvoiceUrl(q))
       \/ \E q \in Clients, x \in Orders, s \in Targets : PatchStatus(q, x, s)
  <2>1. CASE ClientCall
    BY <1>1, <1>2, <1>3, <1>10, <2>1 DEF ClientCall
  <2>2. CASE (\E u \in urls : Charge(u)) \/ GatewayCall
    BY <1>12, <2>2 DEF GatewayCall
  <2>3. CASE \E q \in Requests : Continue(q) \/ Abort(q)
    BY <1>4, <1>5, <1>11, <2>3 DEF Continue
  <2> QED
    BY <1>13, <2>1, <2>2, <2>3 DEF Next
<1> QED
  BY <1>14, <1>15, <1>16, <1>17 DEF Kept
-----------------------------------------------------------------------------
(* The invariant is inductive.                                             *)

\* A payment detail that the step makes holds what its request has read.
LEMMA DetailsStep ==
    ASSUME TypeOK, [Next]_vars, NEW r \in Requests
    PROVE  \/ details'[r] = details[r]
           \/ /\ pc[r] = "detail"
              /\ loc' = loc /\ charged' = charged
              /\ details'[r].amount = loc[r].amount
              /\ details'[r].change = loc[r].amount - loc[r].final
<1> USE DEF TypeOK
<1>1. ASSUME NEW q \in Requests, CreatePaymentDetail(q), q = r
      PROVE  \/ details'[r] = details[r]
             \/ /\ pc[r] = "detail"
                /\ loc' = loc /\ charged' = charged
                /\ details'[r].amount = loc[r].amount
                /\ details'[r].change = loc[r].amount - loc[r].final
  BY <1>1 DEF CreatePaymentDetail, ChangeDue
<1>2. ASSUME NEW q \in Requests, CreatePaymentDetail(q), q # r
      PROVE  details'[r] = details[r]
  BY <1>2 DEF CreatePaymentDetail, ChangeDue
<1>3. (\E q \in Requests : CreatePaymentDetail(q)) \/ details' = details
  BY Writers
<1> QED
  BY <1>1, <1>2, <1>3

\* A voucher that the step uses up is the one of a request that has repriced.
LEMMA VoucherStep ==
    ASSUME TypeOK, \A q \in Requests : RequestInv(q), [Next]_vars, NEW v \in Vouchers
    PROVE  \/ active'[v] = active[v]
           \/ \E q \in Requests : loc'[q].voucher = v /\ "repriced" \in did'[q]
<1> USE DEF TypeOK
<1>1. ASSUME NEW q \in Requests, ConsumeVoucher(q)
      PROVE  \/ active'[v] = active[v]
             \/ loc'[q].voucher = v /\ "repriced" \in did'[q]
  BY <1>1 DEF ConsumeVoucher, RequestInv, Wrote
<1>2. (\E q \in Requests : ConsumeVoucher(q)) \/ active' = active
  BY Writers
<1> QED
  BY <1>1, <1>2

\* A charge that the step confirms has just got its payment detail, or its
\* order is paid or completed.
LEMMA ConfirmStep ==
    ASSUME TypeOK, \A q \in Requests : RequestInv(q), [Next]_vars, NEW u \in confirmed'
    PROVE  \/ u \in confirmed
           \/ \E g \in Deliveries : /\ details'[g].made /\ details'[g].amount = u.amount
                                    /\ loc'[g].order = u.order
           \/ /\ u.order \in Orders /\ order[u.order].status \in {"paid", "completed"}
              /\ loc' = loc /\ did' = did
<1> USE DEF TypeOK
<1>1. ASSUME NEW q \in Requests, CreatePaymentDetail(q), u \notin confirmed
      PROVE  /\ details'[q].made /\ details'[q].amount = u.amount
             /\ loc'[q].order = u.order /\ q \in Deliveries
  <2>1. loc[q].op = "ipn" /\ u = [order |-> loc[q].order, amount |-> loc[q].amount]
    BY <1>1 DEF CreatePaymentDetail, ChangeDue
  <2>2. (loc[q].amount - loc[q].final) % Unit = 0
    BY <1>1 DEF CreatePaymentDetail, ChangeDue
  <2>3. q \in Deliveries
    BY <2>1 DEF RequestInv
  <2>4. details'[q].made /\ details'[q].amount = loc[q].amount /\ loc' = loc
    BY <1>1, <2>2 DEF CreatePaymentDetail, ChangeDue
  <2> QED
    BY <2>1, <2>3, <2>4
<1>2. ASSUME NEW w \in Unanswered, IpnAlreadyConfirmed(w), u \notin confirmed
      PROVE  /\ u.order \in Orders /\ order[u.order].status \in {"paid", "completed"}
             /\ loc' = loc /\ did' = did
  <2>1. u = w
    BY <1>2 DEF IpnAlreadyConfirmed
  <2> QED
    BY <1>2, <2>1 DEF IpnAlreadyConfirmed, AlreadyConfirmed, Unanswered, Link, requestVars
<1>3. \/ \E q \in Requests : CreatePaymentDetail(q)
      \/ \E w \in Unanswered : IpnAlreadyConfirmed(w)
      \/ confirmed' = confirmed
  BY Writers
<1> QED
  BY <1>1, <1>2, <1>3

\* Files are never removed from the bucket.
LEMMA BucketStep ==
    ASSUME [Next]_vars
    PROVE  bucket \subseteq bucket'
  BY Writers DEF UploadInvoice

\* Every step preserves the whole invariant.
LEMMA InvariantStep == IInv /\ [Next]_vars => IInv'
<1> SUFFICES ASSUME IInv, [Next]_vars PROVE IInv'
  OBVIOUS
<1> USE DEF IInv
<1>1. TypeOK'
  BY TypeStep
<1>2. \A r \in Requests : RequestInv(r)'
  BY RequestStep
<1>3. \A r \in Requests : did[r] # {} => pc[r] # "idle"
  BY DEF RequestInv
<1>4. \A r \in Requests : details[r].made => pc[r] # "idle"
  BY DEF RequestInv
<1>5. DetailBelongsToOrder'
  <2> SUFFICES ASSUME NEW o \in Orders, NEW d, d = order'[o].detail, d # NoRequest
               PROVE  /\ details'[d].made /\ loc'[d].order = o
                      /\ loc'[d].op \in {"cash", "ipn"} /\ "marked" \in did'[d]
    BY DEF DetailBelongsToOrder
  <2>1. CASE order[o].detail = d
    <3>1. d \in Requests
      BY <2>1 DEF TypeOK, OrderRow, MaybeRequest
    <3>2. /\ details[d].made /\ loc[d].order = o
          /\ loc[d].op \in {"cash", "ipn"} /\ "marked" \in did[d]
      BY <2>1 DEF DetailBelongsToOrder
    <3> QED
      BY <1>4, <3>1, <3>2, StartedIsStable
  <2>2. CASE order[o].detail # d
    <3>1. d \in Requests /\ MarkPaid(d) /\ Exists(o) /\ o = loc[d].order
      BY <2>2, OrderStep
    <3>2. pc[d] = "status" /\ loc[d].op \in {"cash", "ipn"} /\ details[d].made
      BY <3>1 DEF MarkPaid, RequestInv
    <3>3. did' = [did EXCEPT ![d] = @ \cup {"marked"}]
      BY <3>1 DEF MarkPaid, WriteStatus
    <3>4. "marked" \in did'[d]
      BY <3>1, <3>3 DEF TypeOK
    <3> QED
      BY <3>1, <3>2, <3>4, StartedIsStable
  <2> QED
    BY <2>1, <2>2
<1>6. (OnlineDetailIsCollected /\ \A g \in Deliveries : details[g].made => details[g].amount = loc[g].amount)'
  <2> SUFFICES ASSUME NEW g \in Deliveries, details'[g].made
               PROVE  /\ [order |-> loc'[g].order, amount |-> details'[g].amount] \in charged'
                      /\ details'[g].change = 0
                      /\ details'[g].amount = loc'[g].amount
    BY DEF OnlineDetailIsCollected
  <2>1. g \in Requests
    BY DEF Requests
  <2>2. CASE details'[g] = details[g]
    <3>1. pc[g] # "idle"
      BY <1>4, <2>1, <2>2
    <3>2. loc'[g].order = loc[g].order /\ loc'[g].amount = loc[g].amount /\ charged \subseteq charged'
      BY <2>1, <3>1, StartedIsStable
    <3> QED
      BY <2>2, <3>2 DEF OnlineDetailIsCollected
  <2>3. CASE details'[g] # details[g]
    <3>1. /\ pc[g] = "detail" /\ loc' = loc /\ charged' = charged
          /\ details'[g].amount = loc[g].amount
          /\ details'[g].change = loc[g].amount - loc[g].final
      BY <2>1, <2>3, DetailsStep
    <3>2. /\ loc[g].op = "ipn" /\ loc[g].final = loc[g].amount
          /\ [order |-> loc[g].order, amount |-> loc[g].amount] \in charged
      BY <2>1, <3>1 DEF RequestInv
    <3>3. loc[g].amount \in Nat
      BY <2>1 DEF TypeOK, Local
    <3> QED
      BY <3>1, <3>2, <3>3
  <2> QED
    BY <2>2, <2>3
<1>7. VoucherBoughtDiscount'
  <2> SUFFICES ASSUME NEW v \in Vouchers, ~active'[v]
               PROVE  \E r \in Requests : loc'[r].voucher = v /\ "repriced" \in did'[r]
    BY DEF VoucherBoughtDiscount
  <2>1. CASE ~active[v]
    <3>1. PICK r \in Requests : loc[r].voucher = v /\ "repriced" \in did[r]
      BY <2>1 DEF VoucherBoughtDiscount
    <3>2. loc'[r].voucher = v /\ "repriced" \in did'[r]
      BY <1>3, <3>1, StartedIsStable
    <3> QED
      BY <3>2
  <2>2. CASE active[v]
    BY <2>2, VoucherStep
  <2> QED
    BY <2>1, <2>2
<1>8. InvoiceIsStored'
  BY OrderStep, BucketStep DEF InvoiceIsStored
<1>9. SettledWasMarked'
  <2> SUFFICES ASSUME NEW o \in Orders, order'[o].status \in {"paid", "completed"}
               PROVE  \E r \in Requests : loc'[r].order = o /\ "marked" \in did'[r]
    BY DEF SettledWasMarked
  <2>1. CASE order[o].status \in {"paid", "completed"}
    <3>1. PICK r \in Requests : loc[r].order = o /\ "marked" \in did[r]
      BY <2>1 DEF SettledWasMarked
    <3>2. loc'[r].order = o /\ "marked" \in did'[r]
      BY <1>3, <3>1, StartedIsStable
    <3> QED
      BY <3>2
  <2>2. CASE order[o].status \notin {"paid", "completed"}
    BY <2>2, OrderStep
  <2> QED
    BY <2>1, <2>2
<1>10. GatewayStoppedForReason'
  <2> SUFFICES ASSUME NEW u \in confirmed'
               PROVE  \/ \E g \in Deliveries : /\ details'[g].made
                                               /\ loc'[g].order = u.order
                                               /\ details'[g].amount = u.amount
                      \/ \E r \in Requests : loc'[r].order = u.order /\ "marked" \in did'[r]
    BY DEF GatewayStoppedForReason
  <2>1. CASE u \in confirmed
    <3>1. CASE \E g \in Deliveries : /\ details[g].made /\ loc[g].order = u.order
                                     /\ details[g].amount = u.amount
      <4>1. PICK g \in Deliveries : /\ details[g].made /\ loc[g].order = u.order
                                    /\ details[g].amount = u.amount
        BY <3>1
      <4>2. g \in Requests /\ pc[g] # "idle"
        BY <1>4, <4>1 DEF Requests
      <4>3. details'[g] = details[g] /\ loc'[g].order = loc[g].order
        BY <4>1, <4>2, StartedIsStable
      <4> QED
        BY <4>1, <4>3
    <3>2. CASE \E r \in Requests : loc[r].order = u.order /\ "marked" \in did[r]
      <4>1. PICK r \in Requests : loc[r].order = u.order /\ "marked" \in did[r]
        BY <3>2
      <4>2. loc'[r].order = u.order /\ "marked" \in did'[r]
        BY <1>3, <4>1, StartedIsStable
      <4> QED
        BY <4>2
    <3> QED
      BY <2>1, <3>1, <3>2 DEF GatewayStoppedForReason
  <2>2. CASE u \notin confirmed
    <3>1. CASE u.order \in Orders /\ order[u.order].status \in {"paid", "completed"}
               /\ loc' = loc /\ did' = did
      BY <3>1 DEF SettledWasMarked
    <3> QED
      BY <2>2, <3>1, ConfirmStep
  <2> QED
    BY <2>1, <2>2
<1> QED
  BY <1>1, <1>2, <1>5, <1>6, <1>7, <1>8, <1>9, <1>10

-----------------------------------------------------------------------------
(* Theorems.                                                               *)

\* The invariant holds throughout.
LEMMA Invariant == Spec => []IInv
<1>1. Init => IInv
  BY InitInvariant
<1>2. IInv /\ [Next]_vars => IInv'
  BY InvariantStep
<1> QED
  BY <1>1, <1>2, PTL DEF Spec

\* Every table, every handler's local variables and the gateway's sets stay
\* well typed; in particular no charge is confirmed that was not collected.
THEOREM TypeCorrect == Spec => []TypeOK
<1>1. IInv => TypeOK
  BY DEF IInv
<1> QED
  BY <1>1, Invariant, PTL

\* The payment of an order is a payment detail that a payment of that order
\* has made (payByCash, vnpayIpn, updateStatus).
THEOREM DetailsBelong == Spec => []DetailBelongsToOrder
<1>1. IInv => DetailBelongsToOrder
  BY DEF IInv
<1> QED
  BY <1>1, Invariant, PTL

\* Every VNPAY payment detail is backed by money that the gateway collected
\* for the order, to the unit (payOnline, vnpayIpn).
THEOREM OnlineDetailsCollected == Spec => []OnlineDetailIsCollected
<1>1. IInv => OnlineDetailIsCollected
  BY DEF IInv
<1> QED
  BY <1>1, Invariant, PTL

\* No voucher is used up for nothing (payByCash, payOnline).
THEOREM VouchersBoughtDiscounts == Spec => []VoucherBoughtDiscount
<1>1. IInv => VoucherBoughtDiscount
  BY DEF IInv
<1> QED
  BY <1>1, Invariant, PTL

\* No order has the key of a PDF that is not in the bucket (updateStatus).
THEOREM InvoicesStored == Spec => []InvoiceIsStored
<1>1. IInv => InvoiceIsStored
  BY DEF IInv
<1> QED
  BY <1>1, Invariant, PTL

\* The gateway never stops calling about money that left no trace (vnpayIpn).
THEOREM GatewayStopsForReason == Spec => []GatewayStoppedForReason
<1>1. IInv => GatewayStoppedForReason
  BY DEF IInv
<1> QED
  BY <1>1, Invariant, PTL

\* A payment is never detached from its order (updateStatus, updateItems).
THEOREM PaymentsStayAttached == Spec => PaymentStaysAttached
<1>1. IInv /\ [Next]_vars =>
        [\A o \in Orders : order[o].detail # NoRequest => order'[o].detail # NoRequest]_vars
  <2> SUFFICES ASSUME IInv, [Next]_vars, NEW o \in Orders, order[o].detail # NoRequest
               PROVE  order'[o].detail # NoRequest
    OBVIOUS
  <2>1. \/ order'[o].detail = order[o].detail
        \/ order'[o].detail \in Requests
    BY OrderStep DEF IInv
  <2> QED
    BY <2>1, NullAssumption
<1> QED
  BY <1>1, Invariant, PTL DEF Spec, PaymentStaysAttached

-----------------------------------------------------------------------------
(* Points: a second invariant on top of the first.                         *)

\* What a request relies on when it works out the points: one that has
\* awarded points is over, and the points that it read were earned.
AwardInv(r) ==
    /\ "awarded" \in did[r] => pc[r] \in Finished /\ loc[r].phone \in Customers
    /\ pc[r] = "award" /\ loc[r].row => loc[r].total <= Awarded(loc[r].phone)

PointsInv ==
    /\ PointsAreBacked
    /\ \A r \in Requests : AwardInv(r)

\* A request that is over never changes again.
LEMMA FinishedIsStill ==
    ASSUME TypeOK, [Next]_vars, NEW r \in Requests, pc[r] \in Finished
    PROVE  pc'[r] = pc[r] /\ loc'[r] = loc[r] /\ did'[r] = did[r]
<1> DEFINE Still == pc'[r] = pc[r] /\ loc'[r] = loc[r] /\ did'[r] = did[r]
<1>1. ASSUME ClientCall PROVE Still
  <2>1. ASSUME NEW o \in Orders, NEW p \in Prices, NEW c \in Phones,
               Create(o, p, c) \/ UpdateItems(o, p, c)
        PROVE  Still
    BY <2>1 DEF Create, UpdateItems, requestVars
  <2>2. ASSUME NEW q \in Clients, NEW o \in Orders,
               \/ \E c \in Phones : EditRead(q, o, c)
               \/ \E a \in Tenders, v \in MaybeVoucher : PayByCash(q, o, a, v)
               \/ \E v \in MaybeVoucher : PayOnline(q, o, v)
        PROVE  Still
    BY <2>2 DEF TypeOK, EditRead, PayByCash, PayOnline, Starts, Goto, Finished, Requests
  <2>3. ASSUME NEW q \in Clients, NEW o \in Orders, NEW s \in Targets, PatchStatus(q, o, s)
        PROVE  Still
    BY <2>3 DEF TypeOK, PatchStatus, WriteStatus, Starts, Goto, Finished, Requests
  <2>4. ASSUME NEW o \in Orders, Remove(o) PROVE Still
    BY <2>4 DEF Remove, requestVars
  <2> HIDE DEF Still
  <2> QED
    BY <1>1, <2>1, <2>2, <2>3, <2>4 DEF ClientCall
<1>2. ASSUME (\E u \in urls : Charge(u)) \/ GatewayCall PROVE Still
  BY <1>2 DEF TypeOK, Charge, GatewayCall, IpnAccept, IpnAlreadyConfirmed, Starts, Goto,
              requestVars, Finished, Requests
<1>3. ASSUME NEW q \in Requests,
             EditWrite(q) \/ ReadVoucher(q) \/ Reprice(q) \/ ConsumeVoucher(q)
      PROVE  Still
  BY <1>3 DEF TypeOK, EditWrite, ReadVoucher, Reprice, ConsumeVoucher, Wrote, Goto, Finished
<1>4. ASSUME NEW q \in Requests, CreatePaymentDetail(q) \/ MarkPaid(q)
      PROVE  Still
  BY <1>4 DEF TypeOK, CreatePaymentDetail, ChangeDue, MarkPaid, WriteStatus, Goto, Finished
<1>5. ASSUME NEW q \in Requests,
             UploadInvoice(q) \/ SaveInvoiceUrl(q) \/ ReadPoints(q) \/ AwardPoints(q) \/ Abort(q)
      PROVE  Still
  BY <1>5 DEF TypeOK, UploadInvoice, SaveInvoiceUrl, ReadPoints, AwardPoints, Abort, Wrote, Goto,
              Finished, Suspended
<1>6. ASSUME UNCHANGED vars PROVE Still
  BY <1>6 DEF vars
<1> HIDE DEF Still
<1>7. Still
  BY <1>1, <1>2, <1>3, <1>4, <1>5, <1>6 DEF Next, Continue
<1> QED
  BY <1>7 DEF Still

\* Only an award adds to the awards.
LEMMA AwardStep ==
    ASSUME TypeOK, [Next]_vars, NEW r \in Requests, "awarded" \in did'[r], "awarded" \notin did[r]
    PROVE  AwardPoints(r)
<1>1. ASSUME NEW q \in Requests, AwardPoints(q) PROVE AwardPoints(r)
  BY <1>1 DEF TypeOK, AwardPoints, Wrote
<1>2. ASSUME NEW q \in Requests, Reprice(q) \/ ConsumeVoucher(q) \/ MarkPaid(q) PROVE FALSE
  BY <1>2 DEF TypeOK, Reprice, ConsumeVoucher, MarkPaid, WriteStatus, Wrote
<1>3. ASSUME NEW q \in Clients, NEW o \in Orders, NEW s \in Targets, PatchStatus(q, o, s)
      PROVE  FALSE
  BY <1>3 DEF TypeOK, PatchStatus, WriteStatus
<1>4. \/ \E q \in Requests : AwardPoints(q) \/ Reprice(q) \/ ConsumeVoucher(q) \/ MarkPaid(q)
      \/ \E q \in Clients, o \in Orders, s \in Targets : PatchStatus(q, o, s)
      \/ did' = did
  BY Writers
<1> QED
  BY <1>1, <1>2, <1>3, <1>4

\* A row of points only changes in an award, to the total that the award works
\* out; the award is then on record.
LEMMA PointsStep ==
    ASSUME TypeOK, [Next]_vars, NEW c \in Customers, points'[c] # points[c]
    PROVE  \E r \in Requests :
             /\ AwardPoints(r) /\ loc[r].phone = c /\ (loc[r].row \/ ~points[c].row)
             /\ "awarded" \in did'[r]
             /\ points'[c] = [row |-> TRUE, total |-> NewTotal(loc[r]),
                              level |-> Reached(NewTotal(loc[r]))]
<1>1. PICK r \in Requests : AwardPoints(r)
  BY Writers
<1> DEFINE t == NewTotal(loc[r])
           row == [row |-> TRUE, total |-> t, level |-> Reached(t)]
<1>2. loc[r].row \/ ~points[loc[r].phone].row
  BY <1>1 DEF AwardPoints
<1>3. points' = [points EXCEPT ![loc[r].phone] = row] /\ Wrote(r, "awarded")
  BY <1>1, <1>2 DEF AwardPoints
<1>4. "awarded" \in did'[r]
  BY <1>3 DEF Wrote, TypeOK
<1> HIDE DEF row
<1>5. loc[r].phone = c /\ points'[c] = row
  BY <1>3 DEF TypeOK
<1> QED
  BY <1>1, <1>2, <1>4, <1>5 DEF row
\* A recorded award keeps its customer and its bill.
LEMMA AwardsStay ==
    ASSUME TypeOK, \A r \in Requests : AwardInv(r), [Next]_vars,
           NEW r \in Requests, "awarded" \in did[r]
    PROVE  "awarded" \in did'[r] /\ loc'[r] = loc[r]
  BY FinishedIsStill DEF AwardInv

\* What a customer was awarded only grows, and grows by the points of the bill
\* that a step awards.
LEMMA AwardedGrows ==
    ASSUME TypeOK, \A r \in Requests : RequestInv(r) /\ AwardInv(r), [Next]_vars,
           NEW c \in Customers
    PROVE  /\ Awarded(c) \in Nat /\ Awarded(c)' \in Nat /\ Awarded(c) <= Awarded(c)'
           /\ \A r \in Requests :
                AwardPoints(r) /\ loc[r].phone = c /\ "awarded" \in did'[r] =>
                  Awarded(c)' = Awarded(c) + PointsFor(loc[r].final)
           /\ (\A r \in Requests : ~(AwardPoints(r) /\ loc[r].phone = c)) =>
                Awarded(c)' = Awarded(c)
<1> DEFINE f == [r \in Requests |-> PointsFor(loc[r].final)]
           g == [r \in Requests |-> PointsFor(loc'[r].final)]
           A == Awards(c)
           B == Awards(c)'
<1>1. Awarded(c) = Total(f, A) /\ Awarded(c)' = Total(g, B)
  BY DEF Awarded
<1>2. TypeOK'
  BY TypeStep
<1>3. \A r \in Requests : f[r] \in Nat
  BY PointsForIsNat DEF TypeOK, Local
<1>4. \A r \in Requests : g[r] \in Nat
  <2>1. \A r \in Requests : loc'[r].final \in Nat
    BY <1>2 DEF TypeOK, Local
  <2> QED
    BY <2>1, PointsForIsNat
<1>5. IsFiniteSet(A) /\ IsFiniteSet(B) /\ A \subseteq Requests /\ B \subseteq Requests
  BY RequestAssumption, FS_Subset DEF Awards
<1>6. \A r \in A : r \in B /\ f[r] = g[r]
  BY AwardsStay DEF Awards
<1>7. \A r \in B \ A : AwardPoints(r) /\ loc[r].phone = c /\ "awarded" \notin did[r]
  <2> SUFFICES ASSUME NEW r \in Requests, "awarded" \in did'[r], loc'[r].phone = c, r \notin A
               PROVE  AwardPoints(r) /\ loc[r].phone = c /\ "awarded" \notin did[r]
    BY DEF Awards
  <2>1. "awarded" \notin did[r]
    BY AwardsStay DEF Awards
  <2>2. AwardPoints(r) /\ loc' = loc
    BY <2>1, AwardStep DEF AwardPoints
  <2> QED
    BY <2>1, <2>2
<1>8. ASSUME NEW r \in Requests, AwardPoints(r), loc[r].phone = c, "awarded" \in did'[r]
      PROVE  Total(g, B) = Total(f, A) + PointsFor(loc[r].final)
  <2>1. r \notin A
    BY <1>8 DEF AwardPoints, Awards, AwardInv, Finished
  <2>2. loc' = loc /\ \A q \in Requests : q # r => did'[q] = did[q]
    BY <1>8 DEF AwardPoints, Wrote, TypeOK
  <2>3. B = A \cup {r}
    BY <1>8, <2>2 DEF Awards
  <2>4. g = f
    BY <2>2
  <2> HIDE DEF A, B, f, g
  <2>7. \A q \in A \cup {r} : f[q] \in Int
    BY <1>3, <1>5
  <2>5. Total(f, A \cup {r}) = Total(f, A) + f[r]
    BY <1>5, <2>1, <2>7, TotalAdds
  <2>6. f[r] = PointsFor(loc[r].final)
    BY DEF f
  <2> QED
    BY <2>3, <2>4, <2>5, <2>6
<1>9. ASSUME \A r \in Requests : ~(AwardPoints(r) /\ loc[r].phone = c)
      PROVE  Total(g, B) = Total(f, A)
  <2>1. A = B
    BY <1>5, <1>6, <1>7, <1>9
  <2> HIDE DEF A, B, f, g
  <2>2. Total(f, A) = Total(g, A)
    BY <1>6, TotalSame
  <2> QED
    BY <2>1, <2>2
<1> HIDE DEF A, B, f, g
<1>10. Total(f, A) \in Nat /\ Total(g, B) \in Nat
  BY <1>3, <1>4, <1>5, TotalIsNat
<1>11. Total(f, A) <= Total(g, B)
  <2>1. CASE \E r \in Requests : AwardPoints(r) /\ loc[r].phone = c /\ "awarded" \in did'[r]
    <3>1. PICK r \in Requests : AwardPoints(r) /\ loc[r].phone = c /\ "awarded" \in did'[r]
      BY <2>1
    <3>2. PointsFor(loc[r].final) \in Nat
      BY <1>3 DEF f
    <3>3. Total(g, B) = Total(f, A) + PointsFor(loc[r].final)
      BY <1>8, <3>1
    <3> QED
      BY <1>10, <3>2, <3>3
  <2>2. CASE ~\E r \in Requests : AwardPoints(r) /\ loc[r].phone = c /\ "awarded" \in did'[r]
    <3>1. A = B
      BY <1>5, <1>6, <1>7, <2>2 DEF A, B, Awards
    <3>2. Total(f, A) = Total(g, A)
      BY <1>6, TotalSame
    <3> QED
      BY <1>10, <3>1, <3>2
  <2> QED
    BY <2>1, <2>2
<1> QED
  BY <1>1, <1>8, <1>9, <1>10, <1>11

\* No step pays out points that no bill has earned.
LEMMA BackedStep ==
    ASSUME TypeOK, \A q \in Requests : RequestInv(q), PointsInv, [Next]_vars
    PROVE  PointsAreBacked'
<1> SUFFICES ASSUME NEW c \in Customers
             PROVE  /\ points'[c].total <= Awarded(c)'
                    /\ points'[c].row => points'[c].level = Reached(points'[c].total)
  BY DEF PointsAreBacked
<1>1. /\ Awarded(c) \in Nat /\ Awarded(c)' \in Nat /\ Awarded(c) <= Awarded(c)'
      /\ \A r \in Requests :
           AwardPoints(r) /\ loc[r].phone = c /\ "awarded" \in did'[r] =>
             Awarded(c)' = Awarded(c) + PointsFor(loc[r].final)
  BY AwardedGrows DEF PointsInv
<1>2. points[c].total \in Nat /\ points[c].total <= Awarded(c)
  BY DEF TypeOK, PointRow, PointsInv, PointsAreBacked
<1>3. CASE points'[c] = points[c]
  <2>1. points'[c].row => points'[c].level = Reached(points'[c].total)
    BY <1>3 DEF PointsInv, PointsAreBacked
  <2> QED
    BY <1>1, <1>2, <1>3, <2>1
<1>4. CASE points'[c] # points[c]
  <2>1. PICK r \in Requests :
          /\ AwardPoints(r) /\ loc[r].phone = c /\ "awarded" \in did'[r]
          /\ points'[c] = [row |-> TRUE, total |-> NewTotal(loc[r]),
                           level |-> Reached(NewTotal(loc[r]))]
    BY <1>4, PointsStep
  <2>2. Awarded(c)' = Awarded(c) + PointsFor(loc[r].final)
    BY <1>1, <2>1
  <2>3. PointsFor(loc[r].final) \in Nat /\ loc[r].total \in Nat
    BY PointsForIsNat DEF TypeOK, Local
  <2>4. loc[r].row => loc[r].total <= Awarded(c)
    BY <2>1 DEF AwardPoints, PointsInv, AwardInv
  <2>5. NewTotal(loc[r]) <= Awarded(c) + PointsFor(loc[r].final)
    <3>1. CASE loc[r].row
      BY <1>1, <2>3, <2>4, <3>1 DEF NewTotal
    <3>2. CASE ~loc[r].row
      BY <1>1, <2>3, <3>2 DEF NewTotal
    <3> QED
      BY <3>1, <3>2
  <2> QED
    BY <2>1, <2>2, <2>5
<1> QED
  BY <1>3, <1>4

\* The points of a customer are read into the handler's variables.
LEMMA ReadPointsEffect ==
    ASSUME TypeOK, NEW r \in Requests, ReadPoints(r)
    PROVE  /\ loc'[r].phone = loc[r].phone /\ loc'[r].final = loc[r].final
           /\ loc[r].phone \in Customers =>
                /\ loc'[r].row = points[loc[r].phone].row
                /\ loc'[r].total = points[loc[r].phone].total
<1> DEFINE p == points[loc[r].phone]
           l == [loc[r] EXCEPT !.row = p.row, !.total = p.total]
<1>1. loc' = [loc EXCEPT ![r] = l]
  BY DEF ReadPoints
<1> HIDE DEF p
<1>2. l.phone = loc[r].phone /\ l.final = loc[r].final /\ l.row = p.row /\ l.total = p.total
  BY DEF TypeOK, Local
<1> HIDE DEF l
<1>3. loc'[r] = l
  BY <1>1 DEF TypeOK
<1> QED
  BY <1>2, <1>3 DEF p

\* A request comes to award points by reading them.
LEMMA AwardLabelStep ==
    ASSUME TypeOK, [Next]_vars, NEW r \in Requests, pc'[r] = "award"
    PROVE  (pc[r] = "award" /\ loc'[r] = loc[r]) \/ ReadPoints(r)
<1> DEFINE Goal == (pc[r] = "award" /\ loc'[r] = loc[r]) \/ ReadPoints(r)
<1> USE DEF TypeOK
<1>1. ASSUME UNCHANGED <<pc, loc>> PROVE Goal
  BY <1>1
<1>2. ASSUME NEW q \in Clients, NEW o \in Orders,
             \/ \E c \in Phones : EditRead(q, o, c)
             \/ \E a \in Tenders, v \in MaybeVoucher : PayByCash(q, o, a, v)
             \/ \E v \in MaybeVoucher : PayOnline(q, o, v)
             \/ \E s \in Targets : PatchStatus(q, o, s)
      PROVE  Goal
  BY <1>2 DEF Requests, EditRead, PayByCash, PayOnline, PatchStatus, WriteStatus, AfterStatus, Goto
<1>3. ASSUME ClientCall PROVE Goal
  BY <1>1, <1>2, <1>3 DEF ClientCall, Create, UpdateItems, Remove, requestVars
<1>4. ASSUME (\E u \in urls : Charge(u)) \/ GatewayCall PROVE Goal
  BY <1>1, <1>4 DEF Requests, GatewayCall, Charge, IpnAccept, IpnAlreadyConfirmed, requestVars, Goto
<1>5. ASSUME NEW q \in Requests, EditWrite(q) \/ ReadVoucher(q) \/ Reprice(q) \/ ConsumeVoucher(q)
      PROVE  Goal
  BY <1>5 DEF EditWrite, ReadVoucher, Reprice, ConsumeVoucher, Goto
<1>6. ASSUME NEW q \in Requests, CreatePaymentDetail(q) \/ MarkPaid(q)
      PROVE  Goal
  BY <1>6 DEF CreatePaymentDetail, ChangeDue, MarkPaid, WriteStatus, AfterStatus, Goto
<1>7. ASSUME NEW q \in Requests,
             UploadInvoice(q) \/ SaveInvoiceUrl(q) \/ ReadPoints(q) \/ AwardPoints(q) \/ Abort(q)
      PROVE  Goal
  BY <1>7 DEF UploadInvoice, SaveInvoiceUrl, ReadPoints, AwardPoints, Abort, Goto
<1>8. ASSUME UNCHANGED vars PROVE Goal
  BY <1>1, <1>8 DEF vars
<1> HIDE DEF Goal
<1>9. Goal
  BY <1>3, <1>4, <1>5, <1>6, <1>7, <1>8 DEF Next, Continue
<1> QED
  BY <1>9 DEF Goal

\* Every step keeps what each request relies on for the points.
LEMMA AwardInvStep ==
    ASSUME TypeOK, \A q \in Requests : RequestInv(q), PointsInv, [Next]_vars,
           NEW r \in Requests
    PROVE  AwardInv(r)'
<1>2. "awarded" \in did'[r] => pc'[r] \in Finished /\ loc'[r].phone \in Customers
  <2> SUFFICES ASSUME "awarded" \in did'[r]
               PROVE  pc'[r] \in Finished /\ loc'[r].phone \in Customers
    OBVIOUS
  <2>1. CASE "awarded" \in did[r]
    BY <2>1, FinishedIsStill DEF PointsInv, AwardInv
  <2>2. CASE "awarded" \notin did[r]
    <3>1. AwardPoints(r)
      BY <2>2, AwardStep
    <3>2. pc'[r] = "done" /\ loc' = loc /\ pc[r] = "award"
      BY <3>1 DEF AwardPoints, Goto, TypeOK
    <3> QED
      BY <3>2 DEF RequestInv, Finished
  <2> QED
    BY <2>1, <2>2
<1>3. (pc[r] = "award" /\ loc[r].row => loc[r].total <= Awarded(loc[r].phone))'
  <2> SUFFICES ASSUME pc'[r] = "award", loc'[r].row
               PROVE  (loc[r].total <= Awarded(loc[r].phone))'
    OBVIOUS
  <2>1. \/ pc[r] = "award" /\ loc'[r] = loc[r]
        \/ ReadPoints(r)
    BY AwardLabelStep
  <2>2. loc[r].phone \in Customers
    BY <2>1 DEF ReadPoints, RequestInv
  <2>3. PICK c \in Customers : c = loc[r].phone
    BY <2>2
  <2>7. loc'[r].phone = c
    BY <2>1, <2>3, ReadPointsEffect
  <2>4. Awarded(c) \in Nat /\ Awarded(c)' \in Nat /\ Awarded(c) <= Awarded(c)'
    BY AwardedGrows DEF PointsInv
  <2>5. CASE pc[r] = "award" /\ loc'[r] = loc[r]
    <3>1. loc[r].total <= Awarded(c) /\ loc[r].total \in Nat
      BY <2>3, <2>5 DEF PointsInv, AwardInv, TypeOK, Local
    <3>2. loc[r].total <= Awarded(c)'
      BY <2>4, <3>1
    <3> QED
      BY <2>3, <2>5, <2>7, <3>2
  <2>6. CASE ReadPoints(r)
    <3>1. points[c].total <= Awarded(c) /\ points[c].total \in Nat
      BY DEF PointsInv, PointsAreBacked, TypeOK, PointRow
    <3>2. points[c].total <= Awarded(c)'
      BY <2>4, <3>1
    <3>3. loc'[r].total = points[c].total /\ loc'[r].phone = c
      BY <2>3, <2>6, ReadPointsEffect
    <3> QED
      BY <2>3, <2>7, <3>2, <3>3
  <2> QED
    BY <2>1, <2>5, <2>6
<1> QED
  BY <1>2, <1>3 DEF AwardInv

\* Every step preserves the second invariant.
LEMMA PointsInvStep == IInv /\ PointsInv /\ [Next]_vars => PointsInv'
<1> SUFFICES ASSUME IInv, PointsInv, [Next]_vars PROVE PointsInv'
  OBVIOUS
<1>1. TypeOK /\ \A q \in Requests : RequestInv(q)
  BY DEF IInv
<1>2. PointsAreBacked'
  BY <1>1, BackedStep
<1>3. \A r \in Requests : AwardInv(r)'
  BY <1>1, AwardInvStep
<1> QED
  BY <1>2, <1>3 DEF PointsInv

\* The second invariant holds before the first request.
LEMMA PointsInvInit == Init => PointsInv
<1> SUFFICES ASSUME Init PROVE PointsInv
  OBVIOUS
<1>1. \A r \in Requests : AwardInv(r)
  BY DEF Init, AwardInv
<1>2. ASSUME NEW c \in Customers PROVE Awarded(c) = 0
  <2>1. Awards(c) = {}
    BY DEF Init, Awards
  <2> QED
    BY <2>1, TotalOfNone DEF Awarded
<1>3. PointsAreBacked
  BY <1>2 DEF Init, PointsAreBacked
<1> QED
  BY <1>1, <1>3 DEF PointsInv

\* Both invariants hold throughout.
LEMMA PointsInvariant == Spec => [](IInv /\ PointsInv)
<1>1. Init => IInv /\ PointsInv
  BY InitInvariant, PointsInvInit
<1>2. IInv /\ PointsInv /\ [Next]_vars => (IInv /\ PointsInv)'
  BY InvariantStep, PointsInvStep
<1> QED
  BY <1>1, <1>2, PTL DEF Spec

\* No interleaving of awards and no failure credits a customer with points
\* that his bills did not earn, nor with a level above his points
\* (updateStatus).
THEOREM PointsAreAlwaysBacked == Spec => []PointsAreBacked
<1>1. IInv /\ PointsInv => PointsAreBacked
  BY DEF PointsInv
<1> QED
  BY <1>1, PointsInvariant, PTL

-----------------------------------------------------------------------------
(* Calls that overlap: a third invariant on top of the first two.          *)

\* What request r has done when it comes to each of its awaits, and the price
\* that a cash payment has set out with.
CallInv(r) ==
    /\ pc[r] \in {"voucher", "reprice"} => "repriced" \notin did[r]
    /\ pc[r] \in {"voucher", "reprice", "consume", "detail", "status"} => "marked" \notin did[r]
    /\ pc[r] \in {"upload", "invoice", "points", "award"} => "marked" \in did[r]
    /\ loc[r].op = "cash" /\ pc[r] \in {"voucher", "reprice"} =>
         quote[r] = Discounted(loc[r].original, loc[r].voucher)
    /\ loc[r].op = "cash" /\ pc[r] \in {"consume", "detail"} => loc[r].final = quote[r]
    /\ loc[r].op = "cash" /\ pc[r] = "detail" /\ loc[r].voucher = NoVoucher =>
         loc[r].amount >= loc[r].final

\* The original price that r has read is that of the order, unless the items
\* were replaced meanwhile.
PriceInv(r) ==
    pc[r] \in {"voucher", "reprice"} =>
        /\ order[loc[r].order].status # "absent"
        /\ \/ loc[r].order \in outdated
           \/ loc[r].original = order[loc[r].order].original

\* The points that r has read are those of the customer, and r does not drop
\* its award, unless another award was written meanwhile.
TotalInv(r) ==
    /\ pc[r] = "award" /\ loc[r].phone \notin overlapped =>
         /\ loc[r].row = points[loc[r].phone].row
         /\ loc[r].total = points[loc[r].phone].total
    /\ "dropped" \in did[r] => pc[r] \in Finished /\ loc[r].phone \in overlapped

OverlapInv ==
    /\ \A r \in Requests : CallInv(r) /\ PriceInv(r) /\ TotalInv(r)
    /\ ChangeMatchesQuote
    /\ FinalFollowsOriginal
    /\ PointsAreComplete
    /\ \A c \in Customers : ~points[c].row => points[c].total = 0

\* The step leaves request r where it is.
Still(r) == /\ pc'[r] = pc[r] /\ loc'[r] = loc[r] /\ did'[r] = did[r]
            /\ details'[r] = details[r] /\ quote'[r] = quote[r]

\* Request r begins to be served.
Begins(r) ==
    \/ \E o \in Orders, c \in Phones : EditRead(r, o, c)
    \/ \E o \in Orders, a \in Tenders, v \in MaybeVoucher : PayByCash(r, o, a, v)
    \/ \E o \in Orders, v \in MaybeVoucher : PayOnline(r, o, v)
    \/ \E o \in Orders, s \in Targets : PatchStatus(r, o, s)
    \/ \E u \in Unanswered : IpnAccept(r, u)

\* A step leaves a request where it is, or is a step of it.
LEMMA Moves ==
    ASSUME TypeOK, [Next]_vars, NEW r \in Requests
    PROVE  Still(r) \/ Continue(r) \/ Abort(r) \/ Begins(r)
<1> USE DEF TypeOK
<1>1. ASSUME UNCHANGED <<pc, loc, did, details, quote>> PROVE Still(r)
  BY <1>1 DEF Still
<1>2. ASSUME NEW q \in Requests, q # r, NEW o \in Orders,
             \/ \E c \in Phones : EditRead(q, o, c)
             \/ \E a \in Tenders, v \in MaybeVoucher : PayByCash(q, o, a, v)
             \/ \E v \in MaybeVoucher : PayOnline(q, o, v)
             \/ \E s \in Targets : PatchStatus(q, o, s)
      PROVE  Still(r)
  BY <1>2 DEF Still, EditRead, PayByCash, PayOnline, PatchStatus, WriteStatus, Goto, history
<1>3. ASSUME NEW q \in Requests, q # r, NEW u \in Unanswered, IpnAccept(q, u) PROVE Still(r)
  BY <1>3 DEF Still, IpnAccept, Goto, history
<1>4. ASSUME NEW q \in Requests, q # r,
             EditWrite(q) \/ ReadVoucher(q) \/ Reprice(q) \/ ConsumeVoucher(q)
      PROVE  Still(r)
  BY <1>4 DEF Still, EditWrite, ReadVoucher, Reprice, ConsumeVoucher, Goto, Wrote, history
<1>5. ASSUME NEW q \in Requests, q # r, CreatePaymentDetail(q) \/ MarkPaid(q)
      PROVE  Still(r)
  BY <1>5 DEF Still, CreatePaymentDetail, ChangeDue, MarkPaid, WriteStatus, Goto, history
<1>6. ASSUME NEW q \in Requests, q # r,
             UploadInvoice(q) \/ SaveInvoiceUrl(q) \/ ReadPoints(q) \/ AwardPoints(q) \/ Abort(q)
      PROVE  Still(r)
  BY <1>6 DEF Still, UploadInvoice, SaveInvoiceUrl, ReadPoints, AwardPoints, Abort, Goto, Wrote,
              history
<1> DEFINE Goal == Still(r) \/ Continue(r) \/ Abort(r) \/ Begins(r)
<1>7. ASSUME ClientCall PROVE Goal
  <2>1. CASE UNCHANGED <<pc, loc, did, details, quote>>
    BY <1>1, <2>1
  <2>2. CASE \E q \in Clients, o \in Orders :
               \/ \E c \in Phones : EditRead(q, o, c)
               \/ \E a \in Tenders, v \in MaybeVoucher : PayByCash(q, o, a, v)
               \/ \E v \in MaybeVoucher : PayOnline(q, o, v)
               \/ \E s \in Targets : PatchStatus(q, o, s)
    <3>1. PICK q \in Clients, o \in Orders :
               \/ \E c \in Phones : EditRead(q, o, c)
               \/ \E a \in Tenders, v \in MaybeVoucher : PayByCash(q, o, a, v)
               \/ \E v \in MaybeVoucher : PayOnline(q, o, v)
               \/ \E s \in Targets : PatchStatus(q, o, s)
      BY <2>2
    <3>2. q \in Requests
      BY DEF Requests
    <3>3. q = r => Begins(r)
      BY <3>1 DEF Begins
    <3>4. q # r => Still(r)
      BY <1>2, <3>1, <3>2
    <3> QED
      BY <3>3, <3>4
  <2> QED
    BY <1>7, <2>1, <2>2 DEF ClientCall, Create, UpdateItems, Remove, requestVars, history
<1>8. ASSUME (\E u \in urls : Charge(u)) \/ GatewayCall PROVE Goal
  <2>1. CASE UNCHANGED <<pc, loc, did, details, quote>>
    BY <1>1, <2>1
  <2>2. CASE \E q \in Deliveries, u \in Unanswered : IpnAccept(q, u)
    BY <1>3, <2>2 DEF Begins, Requests
  <2> QED
    BY <1>8, <2>1, <2>2 DEF GatewayCall, Charge, IpnAlreadyConfirmed, requestVars, history
<1>9. ASSUME UNCHANGED vars PROVE Still(r)
  BY <1>1, <1>9 DEF vars, history
<1>10. ASSUME NEW q \in Requests, Continue(q) \/ Abort(q) PROVE Goal
  BY <1>4, <1>5, <1>6, <1>10 DEF Continue
<1> HIDE DEF Goal
<1>11. Goal
  BY <1>7, <1>8, <1>9, <1>10 DEF Next, Goal
<1> QED
  BY <1>11 DEF Goal

\* What a step of request r leaves for its next one.
LEMMA CallContinues ==
    ASSUME TypeOK, \A q \in Requests : RequestInv(q), NEW r \in Requests,
           CallInv(r), Continue(r) \/ Abort(r)
    PROVE  CallInv(r)'
<1> USE DEF TypeOK
<1>1. ASSUME EditWrite(r) \/ Abort(r) \/ AwardPoints(r) PROVE CallInv(r)'
  <2>1. pc'[r] \in {"done", "failed"}
    BY <1>1 DEF EditWrite, Abort, AwardPoints, Goto
  <2> QED
    BY <2>1 DEF CallInv
<1>2. ASSUME ReadVoucher(r) PROVE CallInv(r)'
  <2>1. /\ pc[r] = "voucher" /\ pc'[r] \in {"reprice", "rejected"}
        /\ UNCHANGED <<loc, did, quote>>
    BY <1>2 DEF ReadVoucher, Goto, history
  <2> QED
    BY <2>1 DEF CallInv
<1>3. ASSUME Reprice(r) PROVE CallInv(r)'
  <2> DEFINE o == loc[r].order
             f == DiscountedPrice(loc[r])
             row == [order[o] EXCEPT !.final = f]
  <2>1. pc[r] = "reprice" /\ o \in Orders /\ loc[r].voucher \in Vouchers
    BY <1>3 DEF Reprice, RequestInv, Suspended
  <2>2. CASE ~Exists(o)
    <3>1. pc'[r] = "failed"
      BY <1>3, <2>2 DEF Reprice, Goto
    <3> QED
      BY <3>1 DEF CallInv
  <2>3. CASE Exists(o)
    <3>1. /\ pc'[r] = "consume" /\ "marked" \notin did'[r] /\ quote' = quote
          /\ loc'[r] = Snapshot(row, loc[r])
      BY <1>3, <2>1, <2>3 DEF Reprice, Goto, Wrote, CallInv, history
    <3>2. f \in Nat
      BY <2>1, DiscountedIsNat DEF DiscountedPrice, Local
    <3>3. loc[r].op = "cash" => quote[r] = f
      BY <2>1 DEF CallInv, DiscountedPrice
    <3> HIDE DEF f
    <3>4. row \in OrderRow /\ row.final = f
      BY <2>1, <3>2 DEF OrderRow
    <3> HIDE DEF row
    <3>5. loc'[r].op = loc[r].op /\ loc'[r].final = f
      BY <3>1, <3>4, SnapshotFields
    <3> QED
      BY <3>1, <3>3, <3>5 DEF CallInv
  <2> QED
    BY <2>2, <2>3
<1>4. ASSUME ConsumeVoucher(r) PROVE CallInv(r)'
  <2>1. /\ pc[r] = "consume" /\ pc'[r] \in {"done", "detail"}
        /\ UNCHANGED <<loc, quote>> /\ "marked" \notin did'[r]
    BY <1>4 DEF ConsumeVoucher, Goto, Wrote, CallInv, history
  <2>2. loc[r].voucher # NoVoucher
    BY <2>1, NullAssumption DEF RequestInv
  <2> QED
    BY <2>1, <2>2 DEF CallInv
<1>5. ASSUME CreatePaymentDetail(r) PROVE CallInv(r)'
  <2>1. pc[r] = "detail" /\ pc'[r] \in {"status", "failed"} /\ did' = did
    BY <1>5 DEF CreatePaymentDetail, ChangeDue, Goto
  <2> QED
    BY <2>1 DEF CallInv
<1>6. ASSUME MarkPaid(r) PROVE CallInv(r)'
  <2>1. CASE Exists(loc[r].order)
    <3>1. pc'[r] = "upload" /\ "marked" \in did'[r]
      BY <1>6, <2>1 DEF MarkPaid, WriteStatus, AfterStatus, Goto
    <3> QED
      BY <3>1 DEF CallInv
  <2>2. CASE ~Exists(loc[r].order)
    <3>1. pc'[r] = "failed"
      BY <1>6, <2>2 DEF MarkPaid, Goto
    <3> QED
      BY <3>1 DEF CallInv
  <2> QED
    BY <2>1, <2>2
<1>7. ASSUME UploadInvoice(r) \/ SaveInvoiceUrl(r) \/ ReadPoints(r) PROVE CallInv(r)'
  <2>1. /\ pc[r] \in {"upload", "invoice", "points"}
        /\ pc'[r] \in {"invoice", "points", "award", "done", "failed"}
        /\ did' = did
    BY <1>7 DEF UploadInvoice, SaveInvoiceUrl, ReadPoints, Goto
  <2> QED
    BY <2>1 DEF CallInv
<1> QED
  BY <1>1, <1>2, <1>3, <1>4, <1>5, <1>6, <1>7 DEF Continue

\* What a request has from its first step.
LEMMA CallBegins ==
    ASSUME TypeOK, \A q \in Requests : RequestInv(q), NEW r \in Requests, Begins(r)
    PROVE  CallInv(r)' /\ pc[r] = "idle"
<1> USE DEF TypeOK
<1>1. ASSUME NEW o \in Orders, NEW c \in Phones, EditRead(r, o, c) PROVE CallInv(r)'
  <2>1. pc'[r] = "edit"
    BY <1>1 DEF EditRead, Goto
  <2> QED
    BY <2>1 DEF CallInv
<1>2. ASSUME NEW o \in Orders, NEW a \in Tenders, NEW v \in MaybeVoucher, PayByCash(r, o, a, v)
      PROVE  CallInv(r)'
  <2> DEFINE l == Snapshot(order[o], loc[r])
  <2>1. l \in Local /\ l.original = order[o].original /\ l.final = order[o].final
    BY SnapshotFields
  <2>2. loc' = [loc EXCEPT ![r] = [l EXCEPT !.op = "cash", !.order = o, !.amount = a, !.voucher = v]]
    BY <1>2 DEF PayByCash
  <2> HIDE DEF l
  <2>3. /\ loc'[r].original = order[o].original /\ loc'[r].final = order[o].final
        /\ loc'[r].voucher = v /\ loc'[r].amount = a
    BY <2>1, <2>2 DEF Local
  <2>4. /\ pc'[r] = (IF v = NoVoucher THEN "detail" ELSE "voucher") /\ did'[r] = {}
        /\ a >= order[o].final /\ quote'[r] = Quote(order[o], v)
    BY <1>2 DEF PayByCash, Starts, RequestInv, Goto
  <2> QED
    BY <2>3, <2>4 DEF CallInv, Quote
<1>3. ASSUME NEW o \in Orders, NEW v \in MaybeVoucher, PayOnline(r, o, v)
      PROVE  CallInv(r)'
  <2> DEFINE l == Snapshot(order[o], loc[r])
  <2>1. l \in Local
    BY SnapshotFields
  <2>2. loc' = [loc EXCEPT ![r] = [l EXCEPT !.op = "online", !.order = o, !.voucher = v]]
    BY <1>3 DEF PayOnline
  <2> HIDE DEF l
  <2>3. loc'[r].op = "online"
    BY <2>1, <2>2 DEF Local
  <2>4. pc'[r] \in {"done", "voucher"} /\ did'[r] = {}
    BY <1>3 DEF PayOnline, Starts, RequestInv, Goto
  <2> QED
    BY <2>3, <2>4 DEF CallInv
<1>4. ASSUME NEW o \in Orders, NEW s \in Targets, PatchStatus(r, o, s)
      PROVE  CallInv(r)'
  <2>1. pc'[r] = AfterStatus(s) /\ (s = "paid" => "marked" \in did'[r])
    BY <1>4 DEF PatchStatus, WriteStatus, Goto
  <2>2. pc'[r] = "done" \/ (pc'[r] = "upload" /\ "marked" \in did'[r])
    BY <2>1 DEF AfterStatus
  <2> QED
    BY <2>2 DEF CallInv
<1>5. ASSUME NEW u \in Unanswered, IpnAccept(r, u)
      PROVE  CallInv(r)'
  <2>0. u.order \in Orders
    BY DEF Unanswered, Link
  <2> DEFINE l == Snapshot(order[u.order], loc[r])
  <2>1. l \in Local
    BY <2>0, SnapshotFields
  <2>2. loc' = [loc EXCEPT ![r] = [l EXCEPT !.op = "ipn", !.order = u.order, !.amount = u.amount]]
    BY <1>5 DEF IpnAccept
  <2> HIDE DEF l
  <2>3. loc'[r].op = "ipn"
    BY <2>1, <2>2 DEF Local
  <2>4. pc'[r] = "detail" /\ did'[r] = {}
    BY <1>5 DEF IpnAccept, Starts, RequestInv, Goto
  <2> QED
    BY <2>3, <2>4 DEF CallInv
<1>6. pc[r] = "idle"
  BY DEF Begins, EditRead, PayByCash, PayOnline, PatchStatus, IpnAccept, Starts
<1> QED
  BY <1>1, <1>2, <1>3, <1>4, <1>5, <1>6 DEF Begins

\* Every step keeps what each request has done at its await.
LEMMA CallStep ==
    ASSUME TypeOK, \A q \in Requests : RequestInv(q), [Next]_vars, NEW r \in Requests, CallInv(r)
    PROVE  CallInv(r)'
<1>1. CASE Still(r)
  BY <1>1 DEF Still, CallInv
<1> QED
  BY <1>1, Moves, CallContinues, CallBegins

\* A cash payment keeps the price that it has set out with.
LEMMA QuoteStays ==
    ASSUME TypeOK, [Next]_vars, NEW r \in Requests, pc[r] # "idle"
    PROVE  quote'[r] = quote[r]
<1>1. ASSUME Begins(r) PROVE FALSE
  BY <1>1 DEF Begins, EditRead, PayByCash, PayOnline, PatchStatus, IpnAccept, Starts
<1>2. ASSUME Continue(r) \/ Abort(r) PROVE quote' = quote
  BY <1>2 DEF Continue, Abort, EditWrite, ReadVoucher, Reprice, ConsumeVoucher, CreatePaymentDetail,
     ChangeDue, MarkPaid, UploadInvoice, SaveInvoiceUrl, ReadPoints, AwardPoints, history
<1> QED
  BY <1>1, <1>2, Moves DEF Still

\* The change that a request works out is what is left of the price that it
\* has set out with.
LEMMA ChangeStep ==
    ASSUME TypeOK, \A q \in Requests : RequestInv(q) /\ CallInv(q), ChangeMatchesQuote,
           [Next]_vars
    PROVE  ChangeMatchesQuote'
<1> SUFFICES ASSUME NEW r \in Requests, details'[r].made, loc'[r].op = "cash"
             PROVE  /\ details'[r].change = details'[r].amount - quote'[r]
                    /\ details'[r].change < 0 => loc'[r].voucher # NoVoucher
  BY DEF ChangeMatchesQuote
<1>1. CASE details'[r] = details[r]
  <2>1. pc[r] # "idle"
    BY <1>1 DEF RequestInv
  <2>2. quote'[r] = quote[r] /\ loc'[r].op = loc[r].op /\ loc'[r].voucher = loc[r].voucher
    BY <2>1, QuoteStays, StartedIsStable
  <2> QED
    BY <1>1, <2>2 DEF ChangeMatchesQuote
<1>2. CASE details'[r] # details[r]
  <2>1. /\ pc[r] = "detail" /\ loc' = loc
        /\ details'[r].amount = loc[r].amount
        /\ details'[r].change = loc[r].amount - loc[r].final
    BY <1>2, DetailsStep
  <2>2. quote'[r] = quote[r]
    BY <2>1, QuoteStays
  <2>3. loc[r].final = quote[r] /\ (loc[r].voucher = NoVoucher => loc[r].amount >= loc[r].final)
    BY <2>1 DEF CallInv
  <2>4. loc[r].amount \in Nat /\ loc[r].final \in Nat
    BY DEF TypeOK, Local
  <2>5. loc[r].amount - loc[r].final < 0 => ~(loc[r].amount >= loc[r].final)
    BY <2>4
  <2> QED
    BY <2>1, <2>2, <2>3, <2>5
<1> QED
  BY <1>1, <1>2

\* Besides new items, only a voucher moves the price of an order; a row is
\* never created again.
LEMMA PriceStep ==
    ASSUME TypeOK, \A q \in Requests : RequestInv(q), [Next]_vars, NEW o \in Orders
    PROVE  /\ \/ order'[o].original = order[o].original /\ order'[o].final = order[o].final
              \/ /\ order'[o].final = order'[o].original
                 /\ \/ order[o].status = "absent"
                    \/ \E p \in Prices, c \in Phones : UpdateItems(o, p, c)
              \/ /\ order'[o].original = order[o].original
                 /\ \E q \in Requests : /\ pc[q] = "reprice" /\ loc[q].order = o
                                        /\ order'[o].final = DiscountedPrice(loc[q])
           /\ order[o].status # "absent" => order'[o].status # "absent"
<1> USE DEF TypeOK
<1> DEFINE Same == order'[o].original = order[o].original /\ order'[o].final = order[o].final
           New == /\ order'[o].final = order'[o].original
                  /\ \/ order[o].status = "absent"
                     \/ \E p \in Prices, c \in Phones : UpdateItems(o, p, c)
           Less == /\ order'[o].original = order[o].original
                   /\ \E q \in Requests : /\ pc[q] = "reprice" /\ loc[q].order = o
                                          /\ order'[o].final = DiscountedPrice(loc[q])
           Stays == order[o].status # "absent" => order'[o].status # "absent"
           Goal == (Same \/ New \/ Less) /\ Stays
<1>1. ASSUME NEW x \in Orders, NEW p \in Prices, NEW c \in Phones, Create(x, p, c)
      PROVE  Goal
  <2>1. \/ order'[o] = order[o]
        \/ /\ order'[o] = [order[o] EXCEPT !.status = "pending", !.original = p, !.final = p, !.phone = c]
           /\ order[o].status = "absent"
    BY <1>1 DEF Create
  <2> QED
    BY <2>1 DEF OrderRow
<1>2. ASSUME NEW x \in Orders, NEW p \in Prices, NEW c \in Phones, UpdateItems(x, p, c)
      PROVE  Goal
  <2>1. order'[o] = order[o] \/ (x = o /\ order'[o] = RepricedRow(order[o], p, c))
    BY <1>2 DEF UpdateItems
  <2>2. order'[o] = order[o] => Same /\ Stays
    OBVIOUS
  <2>3. x = o /\ order'[o] = RepricedRow(order[o], p, c) =>
          order'[o].final = order'[o].original /\ Stays
    BY DEF OrderRow, RepricedRow
  <2>4. x = o => \E q \in Prices, d \in Phones : UpdateItems(o, q, d)
    BY <1>2
  <2> QED
    BY <2>1, <2>2, <2>3, <2>4
<1>3. ASSUME NEW x \in Orders, Remove(x) PROVE Goal
  BY <1>3 DEF Remove, OrderRow
<1>4. ASSUME NEW q \in Requests, EditWrite(q) \/ SaveInvoiceUrl(q) PROVE Goal
  BY <1>4 DEF EditWrite, SaveInvoiceUrl, OrderRow
<1>5. ASSUME NEW q \in Requests, Reprice(q) PROVE Goal
  <2>1. pc[q] = "reprice" /\ loc[q].order \in Orders
    BY <1>5 DEF Reprice, RequestInv, Suspended
  <2> DEFINE f == DiscountedPrice(loc[q])
  <2>2. order' = order \/ order' = [order EXCEPT ![loc[q].order].final = f]
    BY <1>5 DEF Reprice
  <2> HIDE DEF f
  <2>3. /\ \/ order'[o] = order[o]
           \/ loc[q].order = o /\ order'[o].original = order[o].original /\ order'[o].final = f
        /\ order'[o].status = order[o].status
    BY <2>1, <2>2 DEF OrderRow
  <2> QED
    BY <2>1, <2>3 DEF f
<1>6. ASSUME NEW q \in Requests, NEW x \in Orders, NEW s \in OrderStatus, NEW d, NEW l,
             WriteStatus(q, x, s, d, l)
      PROVE  Goal
  <2>1. order'[o] = order[o] \/ order'[o] = StatusRow(order[o], s, d)
    BY <1>6 DEF WriteStatus
  <2>2. s # "absent"
    BY DEF OrderStatus
  <2> QED
    BY <2>1, <2>2 DEF OrderRow, StatusRow
<1>7. ASSUME NEW q \in Requests, MarkPaid(q) PROVE Goal
  <2>1. "paid" \in OrderStatus
    BY DEF OrderStatus
  <2> QED
    BY <1>6, <1>7, <2>1 DEF MarkPaid, RequestInv, Suspended
<1>8. ASSUME NEW q \in Clients, NEW x \in Orders, NEW s \in Targets, PatchStatus(q, x, s)
      PROVE  Goal
  BY <1>6, <1>8, TargetAssumption DEF PatchStatus, Requests
<1>9. ASSUME order' = order PROVE Goal
  BY <1>9
<1>10. \/ order' = order
       \/ \E x \in Orders, p \in Prices, c \in Phones : Create(x, p, c) \/ UpdateItems(x, p, c)
       \/ \E x \in Orders : Remove(x)
       \/ \E q \in Requests : EditWrite(q) \/ SaveInvoiceUrl(q) \/ Reprice(q) \/ MarkPaid(q)
       \/ \E q \in Clients, x \in Orders, s \in Targets : PatchStatus(q, x, s)
  BY Writers
<1> HIDE DEF Goal
<1>11. Goal
  BY <1>1, <1>2, <1>3, <1>4, <1>5, <1>7, <1>8, <1>9, <1>10
<1> QED
  BY <1>11 DEF Goal

\* Only new items put an order on the list of the outdated, or take it off;
\* nothing takes a customer off the list of the overlapped.
LEMMA ListsStep ==
    ASSUME TypeOK, [Next]_vars
    PROVE  /\ \A o \in Orders : \/ \E p \in Prices, c \in Phones : UpdateItems(o, p, c)
                                \/ o \in outdated' <=> o \in outdated
           /\ overlapped \subseteq overlapped'
<1>1. ASSUME NEW x \in Orders, NEW p \in Prices, NEW c \in Phones, UpdateItems(x, p, c),
             NEW o \in Orders
      PROVE  \/ \E q \in Prices, d \in Phones : UpdateItems(o, q, d)
             \/ o \in outdated' <=> o \in outdated
  <2>1. CASE o = x
    BY <1>1, <2>1
  <2>2. CASE o # x
    BY <1>1, <2>2 DEF UpdateItems
  <2> QED
    BY <2>1, <2>2
<1>2. (\E x \in Orders, p \in Prices, c \in Phones : UpdateItems(x, p, c)) \/ outdated' = outdated
  BY Writers
<1>3. (\E r \in Requests : AwardPoints(r)) \/ overlapped' = overlapped
  BY Writers
<1>4. overlapped \subseteq overlapped'
  BY <1>3 DEF AwardPoints
<1> QED
  BY <1>1, <1>2, <1>4

\* What a call with a voucher has read of its order when it begins.
LEMMA PriceBegins ==
    ASSUME TypeOK, NEW r \in Requests, Begins(r)
    PROVE  PriceInv(r)'
<1> USE DEF TypeOK
<1>1. ASSUME NEW o \in Orders, NEW c \in Phones, EditRead(r, o, c) PROVE PriceInv(r)'
  <2>1. pc'[r] = "edit"
    BY <1>1 DEF EditRead, Goto
  <2> QED
    BY <2>1 DEF PriceInv
<1>3. ASSUME NEW o \in Orders, NEW a \in Tenders, NEW v \in MaybeVoucher, PayByCash(r, o, a, v)
      PROVE  PriceInv(r)'
  <2> DEFINE l == Snapshot(order[o], loc[r])
  <2>1. l \in Local /\ l.original = order[o].original
    BY SnapshotFields
  <2>2. /\ loc' = [loc EXCEPT ![r] = [l EXCEPT !.op = "cash", !.order = o, !.amount = a,
                                               !.voucher = v]]
        /\ order' = order /\ order[o].status # "absent"
    BY <1>3 DEF PayByCash
  <2> HIDE DEF l
  <2>3. loc'[r].original = order[o].original /\ loc'[r].order = o
    BY <2>1, <2>2 DEF Local
  <2> QED
    BY <2>2, <2>3 DEF PriceInv
<1>4. ASSUME NEW o \in Orders, NEW v \in MaybeVoucher, PayOnline(r, o, v)
      PROVE  PriceInv(r)'
  <2> DEFINE l == Snapshot(order[o], loc[r])
  <2>1. l \in Local /\ l.original = order[o].original
    BY SnapshotFields
  <2>2. /\ loc' = [loc EXCEPT ![r] = [l EXCEPT !.op = "online", !.order = o, !.voucher = v]]
        /\ order' = order /\ order[o].status # "absent"
    BY <1>4 DEF PayOnline, Exists, OrderStatus
  <2> HIDE DEF l
  <2>3. loc'[r].original = order[o].original /\ loc'[r].order = o
    BY <2>1, <2>2 DEF Local
  <2> QED
    BY <2>2, <2>3 DEF PriceInv
<1>5. ASSUME NEW o \in Orders, NEW s \in Targets, PatchStatus(r, o, s) PROVE PriceInv(r)'
  <2>1. pc'[r] \in {"upload", "done"}
    BY <1>5 DEF PatchStatus, WriteStatus, AfterStatus, Goto
  <2> QED
    BY <2>1 DEF PriceInv
<1>6. ASSUME NEW u \in Unanswered, IpnAccept(r, u) PROVE PriceInv(r)'
  <2>1. pc'[r] = "detail"
    BY <1>6 DEF IpnAccept, Goto
  <2> QED
    BY <2>1 DEF PriceInv
<1> QED
  BY <1>1, <1>3, <1>4, <1>5, <1>6 DEF Begins

\* A call that puts a voucher on the price has the original price of the
\* order, unless the items were replaced under it.
LEMMA PriceInvStep ==
    ASSUME TypeOK, \A q \in Requests : RequestInv(q), [Next]_vars, NEW r \in Requests, PriceInv(r)
    PROVE  PriceInv(r)'
<1> USE DEF TypeOK
<1>1. CASE Still(r)
  <2> SUFFICES ASSUME pc[r] \in {"voucher", "reprice"}
               PROVE  PriceInv(r)'
    BY <1>1 DEF Still, PriceInv
  <2>1. PICK o \in Orders : o = loc[r].order
    BY DEF RequestInv, Suspended
  <2>2. /\ order[o].status # "absent"
        /\ o \in outdated \/ loc[r].original = order[o].original
    BY <2>1 DEF PriceInv
  <2>3. order'[o].status # "absent"
    BY <2>2, PriceStep
  <2>4. CASE \E p \in Prices, c \in Phones : UpdateItems(o, p, c)
    <3>1. BeingDiscounted(o)
      BY <2>1 DEF BeingDiscounted
    <3>2. o \in outdated'
      BY <2>4, <3>1 DEF UpdateItems
    <3> QED
      BY <1>1, <2>1, <2>3, <3>2 DEF Still, PriceInv
  <2>5. CASE ~\E p \in Prices, c \in Phones : UpdateItems(o, p, c)
    <3>1. order'[o].original = order[o].original
      BY <2>2, <2>5, PriceStep
    <3>2. o \in outdated' <=> o \in outdated
      BY <2>5, ListsStep
    <3> QED
      BY <1>1, <2>1, <2>2, <2>3, <3>1, <3>2 DEF Still, PriceInv
  <2> QED
    BY <2>4, <2>5
<1>2. CASE Continue(r) \/ Abort(r)
  <2>1. CASE ReadVoucher(r)
    <3>1. pc[r] = "voucher" /\ UNCHANGED <<order, loc, outdated>>
      BY <2>1 DEF ReadVoucher, history
    <3> QED
      BY <3>1 DEF PriceInv
  <2>2. CASE ~ReadVoucher(r)
    <3>1. pc'[r] \notin {"voucher", "reprice"}
      BY <1>2, <2>2 DEF Continue, Abort, EditWrite, Reprice, ConsumeVoucher, CreatePaymentDetail,
         ChangeDue, MarkPaid, WriteStatus, AfterStatus, UploadInvoice, SaveInvoiceUrl, ReadPoints,
         AwardPoints, Goto
    <3> QED
      BY <3>1 DEF PriceInv
  <2> QED
    BY <2>1, <2>2
<1> QED
  BY <1>1, <1>2, Moves, PriceBegins

\* Discounts do not add up and do not outlive the items.
LEMMA FinalStep ==
    ASSUME TypeOK, \A q \in Requests : RequestInv(q) /\ PriceInv(q), FinalFollowsOriginal,
           [Next]_vars
    PROVE  FinalFollowsOriginal'
<1> SUFFICES ASSUME NEW o \in Orders, o \notin outdated'
             PROVE  order'[o].final \in {order'[o].original}
                                        \cup {Discounted(order'[o].original, v) : v \in Vouchers}
  BY DEF FinalFollowsOriginal
<1>1. CASE \E p \in Prices, c \in Phones : UpdateItems(o, p, c)
  <2>1. PICK p \in Prices, c \in Phones : UpdateItems(o, p, c)
    BY <1>1
  <2>2. order'[o] = RepricedRow(order[o], p, c)
    BY <2>1 DEF UpdateItems, TypeOK
  <2>3. order[o] \in OrderRow
    BY DEF TypeOK
  <2>4. order'[o].final = order'[o].original
    BY <2>2, <2>3 DEF RepricedRow, OrderRow
  <2> QED
    BY <2>4
<1>2. CASE ~\E p \in Prices, c \in Phones : UpdateItems(o, p, c)
  <2>1. o \notin outdated
    BY <1>2, ListsStep
  <2>2. order[o].final \in {order[o].original}
                            \cup {Discounted(order[o].original, v) : v \in Vouchers}
    BY <2>1 DEF FinalFollowsOriginal
  <2>3. ASSUME NEW q \in Requests, pc[q] = "reprice", loc[q].order = o
        PROVE  \E v \in Vouchers : DiscountedPrice(loc[q]) = Discounted(order[o].original, v)
    <3>1. loc[q].voucher \in Vouchers
      BY <2>3 DEF RequestInv
    <3>2. loc[q].original = order[o].original
      BY <2>1, <2>3 DEF PriceInv
    <3> QED
      BY <3>1, <3>2 DEF DiscountedPrice
  <2> QED
    BY <2>2, <2>3, PriceStep
<1> QED
  BY <1>1, <1>2

\* An award is dropped when the handler has found no row of points and there
\* is one by now.
LEMMA DropStep ==
    ASSUME TypeOK, [Next]_vars, NEW r \in Requests, "dropped" \in did'[r], "dropped" \notin did[r]
    PROVE  AwardPoints(r) /\ ~loc[r].row /\ points[loc[r].phone].row
<1> DEFINE Goal == AwardPoints(r) /\ ~loc[r].row /\ points[loc[r].phone].row
<1>1. ASSUME NEW q \in Requests, AwardPoints(q) PROVE Goal
  <2>1. CASE loc[q].row \/ ~points[loc[q].phone].row
    <3>1. did' = [did EXCEPT ![q] = @ \cup {"awarded"}]
      BY <1>1, <2>1 DEF AwardPoints, Wrote
    <3> QED
      BY <3>1 DEF TypeOK
  <2>2. CASE ~(loc[q].row \/ ~points[loc[q].phone].row)
    <3>1. did' = [did EXCEPT ![q] = @ \cup {"dropped"}]
      BY <1>1, <2>2 DEF AwardPoints, Wrote
    <3>2. q = r
      BY <3>1 DEF TypeOK
    <3> QED
      BY <1>1, <2>2, <3>2
  <2> QED
    BY <2>1, <2>2
<1>2. ASSUME NEW q \in Requests, Reprice(q) \/ ConsumeVoucher(q) \/ MarkPaid(q) PROVE FALSE
  BY <1>2 DEF TypeOK, Reprice, ConsumeVoucher, MarkPaid, WriteStatus, Wrote
<1>3. ASSUME NEW q \in Clients, NEW o \in Orders, NEW s \in Targets, PatchStatus(q, o, s)
      PROVE  FALSE
  BY <1>3 DEF TypeOK, PatchStatus, WriteStatus
<1>4. \/ \E q \in Requests : AwardPoints(q) \/ Reprice(q) \/ ConsumeVoucher(q) \/ MarkPaid(q)
      \/ \E q \in Clients, o \in Orders, s \in Targets : PatchStatus(q, o, s)
      \/ did' = did
  BY Writers
<1> HIDE DEF Goal
<1>5. Goal
  BY <1>1, <1>2, <1>3, <1>4
<1> QED
  BY <1>5 DEF Goal

\* A request that awards points has the customer's points as they are, unless
\* two awards of the customer overlapped.
LEMMA TotalInvStep ==
    ASSUME TypeOK, \A q \in Requests : RequestInv(q), [Next]_vars, NEW r \in Requests, TotalInv(r)
    PROVE  TotalInv(r)'
<1>1. ASSUME pc'[r] = "award", loc'[r].phone \notin overlapped'
      PROVE  /\ loc'[r].row = points'[loc'[r].phone].row
             /\ loc'[r].total = points'[loc'[r].phone].total
  <2>1. CASE pc[r] = "award" /\ loc'[r] = loc[r]
    <3>1. PICK c \in Customers : c = loc[r].phone
      BY <2>1 DEF RequestInv
    <3>2. c \notin overlapped'
      BY <1>1, <2>1, <3>1
    <3>3. c \notin overlapped
      BY <3>2, ListsStep
    <3>4. loc[r].row = points[c].row /\ loc[r].total = points[c].total
      BY <2>1, <3>1, <3>3 DEF TotalInv
    <3>5. ASSUME points'[c] # points[c] PROVE FALSE
      <4>1. PICK q \in Requests : AwardPoints(q) /\ loc[q].phone = c
        BY <3>5, PointsStep
      <4>2. pc'[q] = "done"
        BY <4>1 DEF AwardPoints, Goto, TypeOK
      <4>3. BeingAwarded(c, q)
        BY <1>1, <2>1, <3>1, <4>2 DEF BeingAwarded
      <4>4. c \in overlapped'
        BY <4>1, <4>3 DEF AwardPoints
      <4> QED
        BY <3>2, <4>4
    <3> QED
      BY <2>1, <3>1, <3>4, <3>5
  <2>2. CASE ReadPoints(r)
    <3>1. loc[r].phone \in Customers /\ points' = points
      BY <2>2 DEF ReadPoints, RequestInv
    <3> QED
      BY <2>2, <3>1, ReadPointsEffect
  <2> QED
    BY <1>1, <2>1, <2>2, AwardLabelStep
<1>2. ASSUME "dropped" \in did'[r] PROVE pc'[r] \in Finished /\ loc'[r].phone \in overlapped'
  <2>1. CASE "dropped" \in did[r]
    <3>1. pc[r] \in Finished /\ loc[r].phone \in overlapped
      BY <2>1 DEF TotalInv
    <3> QED
      BY <3>1, FinishedIsStill, ListsStep
  <2>2. CASE "dropped" \notin did[r]
    <3>1. AwardPoints(r) /\ ~loc[r].row /\ points[loc[r].phone].row
      BY <1>2, <2>2, DropStep
    <3>2. pc[r] = "award" /\ pc'[r] = "done" /\ loc' = loc
      BY <3>1 DEF AwardPoints, Goto, TypeOK
    <3>3. loc[r].phone \in overlapped
      BY <3>1, <3>2 DEF TotalInv
    <3> QED
      BY <3>2, <3>3, ListsStep DEF Finished
  <2> QED
    BY <2>1, <2>2
<1> QED
  BY <1>1, <1>2 DEF TotalInv

\* No award is lost: the total that it writes builds on the row as it is.
LEMMA CompleteStep ==
    ASSUME TypeOK, \A q \in Requests : RequestInv(q) /\ TotalInv(q), PointsInv,
           PointsAreComplete, [Next]_vars, NEW c \in Customers, c \notin overlapped',
           ~points[c].row => points[c].total = 0
    PROVE  points'[c].total = Awarded(c)'
<1>1. c \notin overlapped /\ points[c].total = Awarded(c)
  BY ListsStep DEF PointsAreComplete
<1>2. CASE \E r \in Requests : AwardPoints(r) /\ loc[r].phone = c
  <2>1. PICK r \in Requests : AwardPoints(r) /\ loc[r].phone = c
    BY <1>2
  <2>2. loc[r].row = points[c].row /\ loc[r].total = points[c].total
    BY <1>1, <2>1 DEF AwardPoints, TotalInv
  <2> DEFINE t == NewTotal(loc[r])
             row == [row |-> TRUE, total |-> t, level |-> Reached(t)]
  <2>3. points' = [points EXCEPT ![c] = row] /\ Wrote(r, "awarded")
    BY <2>1, <2>2 DEF AwardPoints
  <2>4. "awarded" \in did'[r]
    BY <2>3 DEF Wrote, TypeOK
  <2> HIDE DEF row
  <2>5. points'[c] = row
    BY <2>3 DEF TypeOK
  <2>6. points'[c].total = t
    BY <2>5 DEF row
  <2>7. Awarded(c)' = Awarded(c) + PointsFor(loc[r].final)
    BY <2>1, <2>4, AwardedGrows DEF PointsInv
  <2>8. t = points[c].total + PointsFor(loc[r].final)
    <3>1. points[c].total \in Nat /\ PointsFor(loc[r].final) \in Nat
      BY PointsForIsNat DEF TypeOK, PointRow, Local
    <3>2. t = (IF points[c].row THEN points[c].total ELSE 0) + PointsFor(loc[r].final)
      BY <2>2 DEF NewTotal
    <3> QED
      BY <3>1, <3>2
  <2> HIDE DEF t
  <2> QED
    BY <1>1, <2>6, <2>7, <2>8
<1>3. CASE ~\E r \in Requests : AwardPoints(r) /\ loc[r].phone = c
  <2>1. Awarded(c)' = Awarded(c)
    BY <1>3, AwardedGrows DEF PointsInv
  <2>2. points'[c] = points[c]
    BY <1>3, PointsStep
  <2> QED
    BY <1>1, <2>1, <2>2
<1> QED
  BY <1>2, <1>3

\* Every step preserves the third invariant.
LEMMA OverlapInvStep ==
    ASSUME IInv, PointsInv, OverlapInv, [Next]_vars
    PROVE  OverlapInv'
<1>1. TypeOK /\ \A q \in Requests : RequestInv(q)
  BY DEF IInv
<1>2. \A r \in Requests : CallInv(r) /\ PriceInv(r) /\ TotalInv(r)
  BY DEF OverlapInv
<1>3. \A r \in Requests : CallInv(r)' /\ PriceInv(r)' /\ TotalInv(r)'
  BY <1>1, <1>2, CallStep, PriceInvStep, TotalInvStep
<1>4. ChangeMatchesQuote'
  BY <1>1, <1>2, ChangeStep DEF OverlapInv
<1>5. FinalFollowsOriginal'
  BY <1>1, <1>2, FinalStep DEF OverlapInv
<1>6. ASSUME NEW c \in Customers PROVE (~points[c].row => points[c].total = 0)'
  <2>1. ~points[c].row => points[c].total = 0
    BY DEF OverlapInv
  <2>2. ASSUME points'[c] # points[c] PROVE points'[c].row
    <3>1. PICK r \in Requests :
            points'[c] = [row |-> TRUE, total |-> NewTotal(loc[r]),
                          level |-> Reached(NewTotal(loc[r]))]
      BY <1>1, <2>2, PointsStep
    <3> QED
      BY <3>1
  <2> QED
    BY <2>1, <2>2
<1>7. PointsAreComplete'
  <2> SUFFICES ASSUME NEW c \in Customers, c \notin overlapped'
               PROVE  /\ points'[c].total = Awarded(c)'
                      /\ \A r \in Requests : loc'[r].phone = c => "dropped" \notin did'[r]
    BY DEF PointsAreComplete
  <2>1. points'[c].total = Awarded(c)'
    BY <1>1, <1>2, CompleteStep DEF OverlapInv
  <2>2. \A r \in Requests : loc'[r].phone = c => "dropped" \notin did'[r]
    BY <1>3 DEF TotalInv
  <2> QED
    BY <2>1, <2>2
<1> QED
  BY <1>3, <1>4, <1>5, <1>6, <1>7 DEF OverlapInv

\* It holds before the first request.
LEMMA OverlapInvInit == Init => OverlapInv
<1> SUFFICES ASSUME Init PROVE OverlapInv
  OBVIOUS
<1>1. \A r \in Requests : CallInv(r) /\ PriceInv(r) /\ TotalInv(r)
  BY DEF Init, CallInv, PriceInv, TotalInv
<1>2. ChangeMatchesQuote /\ FinalFollowsOriginal
  BY DEF Init, ChangeMatchesQuote, FinalFollowsOriginal
<1>3. ASSUME NEW c \in Customers PROVE Awarded(c) = 0
  <2>1. Awards(c) = {}
    BY DEF Init, Awards
  <2> QED
    BY <2>1, TotalOfNone DEF Awarded
<1>4. PointsAreComplete /\ \A c \in Customers : ~points[c].row => points[c].total = 0
  BY <1>3 DEF Init, PointsAreComplete
<1> QED
  BY <1>1, <1>2, <1>4 DEF OverlapInv

\* All three invariants hold throughout.
LEMMA OverlapInvariant == Spec => [](IInv /\ PointsInv /\ OverlapInv)
<1>1. Init => IInv /\ PointsInv /\ OverlapInv
  BY InitInvariant, PointsInvInit, OverlapInvInit
<1>2. IInv /\ PointsInv /\ OverlapInv /\ [Next]_vars => (IInv /\ PointsInv /\ OverlapInv)'
  BY InvariantStep, PointsInvStep, OverlapInvStep
<1> QED
  BY <1>1, <1>2, PTL DEF Spec

\* The change on record is what was tendered above the price that the cash
\* payment set out with, and only a voucher makes it short (payByCash,
\* createPaymentDetail).
THEOREM ChangesMatchQuotes == Spec => []ChangeMatchesQuote
<1>1. OverlapInv => ChangeMatchesQuote
  BY DEF OverlapInv
<1> QED
  BY <1>1, OverlapInvariant, PTL

\* However calls overlap, discounts never add up, and no discount survives a
\* change of the items that was not made while a call was putting a voucher
\* on the old ones (payByCash, payOnline, updateItems).
THEOREM FinalsFollowOriginals == Spec => []FinalFollowsOriginal
<1>1. OverlapInv => FinalFollowsOriginal
  BY DEF OverlapInv
<1> QED
  BY <1>1, OverlapInvariant, PTL

\* However calls overlap, a customer loses no award unless two of his own
\* overlapped (updateStatus).
THEOREM PointsStayComplete == Spec => []PointsAreComplete
<1>1. OverlapInv => PointsAreComplete
  BY DEF OverlapInv
<1> QED
  BY <1>1, OverlapInvariant, PTL

-----------------------------------------------------------------------------
(* The handlers implement the ledger.                                      *)

\* The variables of the ledger, as LedgerIsKept defines them.
States == [o \in Orders |-> LedgerState(o)]
Admitted == [r \in Requests |-> IF loc[r].op \in {"cash", "ipn"} THEN loc[r].order ELSE NoOrder]
Receipts == [r \in Requests |-> IF details[r].made THEN loc[r].order ELSE NoOrder]
Checked == [r \in Requests |-> IF pc[r] = "reprice" THEN loc[r].voucher ELSE NoVoucher]
Quotes == [r \in Requests |-> IF "repriced" \in did[r] THEN loc[r].voucher ELSE NoVoucher]
Spent == {v \in Vouchers : ~active[v]}
Settlers == [r \in Requests |-> IF "marked" \in did[r] THEN loc[r].order ELSE NoOrder]
Credited == {r \in Requests : "awarded" \in did[r]}

ledgerVars == <<States, Admitted, Receipts, Checked, Quotes, Spent, Settlers, Credited>>

\* The ledger's view of an order depends on its status only.
LEMMA LedgerStateIs ==
    ASSUME TypeOK, NEW o \in Orders
    PROVE  /\ LedgerState(o) = "absent" <=> order[o].status = "absent"
           /\ LedgerState(o) = "gone" <=> order[o].status = "deleted"
           /\ LedgerState(o) = "pending" <=> order[o].status = "pending"
           /\ LedgerState(o) = "settled" <=> order[o].status \in {"paid", "completed"}
           /\ LedgerState(o) = "closed" <=>
                order[o].status \in OrderStatus \ {"pending", "paid", "completed"}
           /\ LedgerState(o) \in {"absent", "gone", "pending", "settled", "closed"}
<1>1. order[o].status \in RowStatus
  BY DEF TypeOK, OrderRow
<1>2. CASE order[o].status \in {"absent", "deleted"}
  BY <1>2 DEF LedgerState, OrderStatus
<1>3. CASE order[o].status = "pending"
  BY <1>3 DEF LedgerState, OrderStatus
<1>4. CASE order[o].status \in {"paid", "completed"}
  BY <1>4 DEF LedgerState, OrderStatus
<1>5. CASE order[o].status \in OrderStatus \ {"pending", "paid", "completed"}
  BY <1>5 DEF LedgerState, OrderStatus
<1> QED
  BY <1>1, <1>2, <1>3, <1>4, <1>5 DEF RowStatus, OrderStatus

\* The orders that exist are the living ones of the ledger.
LEMMA ExistsIsLiving ==
    ASSUME TypeOK, NEW o \in Orders, Exists(o)
    PROVE  States[o] \in Ledger!Living
<1>1. order[o].status \notin {"absent", "deleted"}
  BY DEF Exists, OrderStatus
<1>2. LedgerState(o) \in {"pending", "settled", "closed"}
  BY <1>1, LedgerStateIs
<1> QED
  BY <1>2 DEF States, Ledger!Living

\* An order whose status a step leaves alone looks the same to the ledger.
LEMMA LedgerStateKept ==
    ASSUME NEW o \in Orders, order'[o].status = order[o].status
    PROVE  LedgerState(o)' = LedgerState(o)
  BY DEF LedgerState

\* What is on record about a request stays what it is.
LEMMA RecordsStay ==
    ASSUME TypeOK, \A q \in Requests : RequestInv(q), [Next]_vars, NEW r \in Requests
    PROVE  details[r].made \/ did[r] # {} \/ loc[r].op # "none" =>
             loc'[r].order = loc[r].order /\ loc'[r].voucher = loc[r].voucher
<1>1. details[r].made \/ did[r] # {} \/ loc[r].op # "none" => pc[r] # "idle"
  BY DEF RequestInv
<1> QED
  BY <1>1, StartedIsStable

\* A step that records nothing new about requests changes none of their
\* variables in the ledger.
LEMMA LedgerFrame ==
    ASSUME TypeOK, \A q \in Requests : RequestInv(q), [Next]_vars
    PROVE  /\ (\A o \in Orders : order'[o].status = order[o].status) => States' = States
           /\ (\A r \in Requests : details'[r].made = details[r].made) => Receipts' = Receipts
           /\ (\A r \in Requests : "repriced" \in did'[r] <=> "repriced" \in did[r]) =>
                Quotes' = Quotes
           /\ active' = active => Spent' = Spent
           /\ (\A r \in Requests : "marked" \in did'[r] <=> "marked" \in did[r]) =>
                Settlers' = Settlers
           /\ (\A r \in Requests : "awarded" \in did'[r] <=> "awarded" \in did[r]) =>
                Credited' = Credited
           /\ pc' = pc /\ loc' = loc => Admitted' = Admitted /\ Checked' = Checked
<1>1. (\A o \in Orders : order'[o].status = order[o].status) => States' = States
  BY LedgerStateKept DEF States
<1>2. (\A r \in Requests : details'[r].made = details[r].made) => Receipts' = Receipts
  BY RecordsStay DEF Receipts
<1>3. (\A r \in Requests : "repriced" \in did'[r] <=> "repriced" \in did[r]) => Quotes' = Quotes
  BY RecordsStay DEF Quotes
<1>4. (\A r \in Requests : "marked" \in did'[r] <=> "marked" \in did[r]) => Settlers' = Settlers
  BY RecordsStay DEF Settlers
<1>5. /\ active' = active => Spent' = Spent
      /\ (\A r \in Requests : "awarded" \in did'[r] <=> "awarded" \in did[r]) => Credited' = Credited
  BY DEF Spent, Credited
<1>6. pc' = pc /\ loc' = loc => Admitted' = Admitted /\ Checked' = Checked
  BY DEF Admitted, Checked
<1> QED
  BY <1>1, <1>2, <1>3, <1>4, <1>5, <1>6

\* A step of one request leaves the others where they are.
LEMMA OthersStay ==
    ASSUME TypeOK, NEW r \in Requests, Continue(r) \/ Abort(r) \/ Begins(r),
           NEW q \in Requests, q # r
    PROVE  pc'[q] = pc[q] /\ loc'[q] = loc[q]
<1> USE DEF TypeOK
<1>1. ASSUME Begins(r) PROVE pc'[q] = pc[q] /\ loc'[q] = loc[q]
  BY <1>1 DEF Begins, EditRead, PayByCash, PayOnline, PatchStatus, WriteStatus, IpnAccept, Goto
<1>2. ASSUME EditWrite(r) \/ ReadVoucher(r) \/ Reprice(r) \/ ConsumeVoucher(r) \/ Abort(r)
      PROVE  pc'[q] = pc[q] /\ loc'[q] = loc[q]
  BY <1>2 DEF EditWrite, ReadVoucher, Reprice, ConsumeVoucher, Abort, Goto
<1>3. ASSUME \/ CreatePaymentDetail(r) \/ MarkPaid(r) \/ UploadInvoice(r) \/ SaveInvoiceUrl(r)
             \/ ReadPoints(r) \/ AwardPoints(r)
      PROVE  pc'[q] = pc[q] /\ loc'[q] = loc[q]
  BY <1>3 DEF CreatePaymentDetail, ChangeDue, MarkPaid, WriteStatus, UploadInvoice, SaveInvoiceUrl,
     ReadPoints, AwardPoints, Goto
<1> QED
  BY <1>1, <1>2, <1>3 DEF Continue

\* A request that is being served takes up nothing, and is at the await that
\* the ledger sees or not.
LEMMA ContinueFrame ==
    ASSUME TypeOK, \A q \in Requests : RequestInv(q), [Next]_vars, NEW r \in Requests,
           Continue(r) \/ Abort(r)
    PROVE  /\ Admitted' = Admitted
           /\ pc[r] # "reprice" /\ pc'[r] # "reprice" => Checked' = Checked
           /\ pc'[r] # "reprice" => Checked' = [Checked EXCEPT ![r] = NoVoucher]
           /\ pc'[r] = "reprice" => Checked' = [Checked EXCEPT ![r] = loc[r].voucher]
<1>1. pc[r] # "idle"
  BY DEF Continue, Abort, EditWrite, ReadVoucher, Reprice, ConsumeVoucher, CreatePaymentDetail,
     ChangeDue, MarkPaid, UploadInvoice, SaveInvoiceUrl, ReadPoints, AwardPoints, Suspended
<1>2. loc'[r].op = loc[r].op /\ loc'[r].order = loc[r].order /\ loc'[r].voucher = loc[r].voucher
  BY <1>1, StartedIsStable
<1>3. \A q \in Requests : q # r => pc'[q] = pc[q] /\ loc'[q] = loc[q]
  BY OthersStay
<1>4. Admitted' = Admitted
  BY <1>2, <1>3 DEF Admitted
<1>5. pc[r] # "reprice" /\ pc'[r] # "reprice" => Checked' = Checked
  BY <1>3 DEF Checked
<1>6. pc'[r] # "reprice" => Checked' = [Checked EXCEPT ![r] = NoVoucher]
  BY <1>3 DEF Checked
<1>7. pc'[r] = "reprice" => Checked' = [Checked EXCEPT ![r] = loc[r].voucher]
  BY <1>2, <1>3 DEF Checked
<1> QED
  BY <1>4, <1>5, <1>6, <1>7

\* A request that begins takes up a payment if it is one.
LEMMA BeginFrame ==
    ASSUME TypeOK, \A q \in Requests : RequestInv(q), [Next]_vars, NEW r \in Requests, Begins(r)
    PROVE  /\ Checked' = Checked
           /\ Admitted[r] = NoOrder
           /\ loc'[r].op \notin {"cash", "ipn"} => Admitted' = Admitted
           /\ loc'[r].op \in {"cash", "ipn"} => Admitted' = [Admitted EXCEPT ![r] = loc'[r].order]
<1>1. pc[r] = "idle" /\ loc[r].op = "none"
  BY DEF Begins, EditRead, PayByCash, PayOnline, PatchStatus, IpnAccept, Starts, RequestInv
<1>2. pc'[r] # "reprice"
  BY DEF TypeOK, Begins, EditRead, PayByCash, PayOnline, PatchStatus, WriteStatus, AfterStatus,
     IpnAccept, Goto
<1>3. \A q \in Requests : q # r => pc'[q] = pc[q] /\ loc'[q] = loc[q]
  BY OthersStay
<1>4. Checked' = Checked
  BY <1>1, <1>2, <1>3 DEF Checked
<1>5. Admitted[r] = NoOrder
  BY <1>1 DEF Admitted
<1>6. loc'[r].op \notin {"cash", "ipn"} => Admitted' = Admitted
  BY <1>1, <1>3 DEF Admitted
<1>7. loc'[r].op \in {"cash", "ipn"} => Admitted' = [Admitted EXCEPT ![r] = loc'[r].order]
  BY <1>3 DEF Admitted
<1> QED
  BY <1>4, <1>5, <1>6, <1>7

\* The order's state moves and nothing else does.
LEMMA StateMoves ==
    ASSUME TypeOK, NEW o \in Orders, NEW row, row.status \in RowStatus,
           order' = [order EXCEPT ![o] = row]
    PROVE  /\ States' = [States EXCEPT ![o] = LedgerState(o)']
           /\ row.status = "pending" => LedgerState(o)' = "pending"
           /\ row.status \in {"paid", "completed"} => LedgerState(o)' = "settled"
           /\ row.status \in OrderStatus \ {"pending", "paid", "completed"} =>
                LedgerState(o)' = "closed"
           /\ row.status = "deleted" => LedgerState(o)' = "gone"
<1>1. order'[o] = row /\ \A x \in Orders : x # o => order'[x] = order[x]
  BY DEF TypeOK
<1>2. \A x \in Orders : x # o => LedgerState(x)' = LedgerState(x)
  BY <1>1 DEF LedgerState
<1>3. States' = [States EXCEPT ![o] = LedgerState(o)']
  BY <1>2 DEF States
<1>4. /\ row.status = "pending" => LedgerState(o)' = "pending"
      /\ row.status \in {"paid", "completed"} => LedgerState(o)' = "settled"
      /\ row.status = "deleted" => LedgerState(o)' = "gone"
  BY <1>1 DEF LedgerState, OrderStatus
<1>5. row.status \in OrderStatus \ {"pending", "paid", "completed"} => LedgerState(o)' = "closed"
  BY <1>1 DEF LedgerState, OrderStatus
<1> QED
  BY <1>3, <1>4, <1>5

\* The ledger's own definitions of what a step leaves alone.
LEMMA LedgerStutters == UNCHANGED ledgerVars => UNCHANGED Ledger!vars
  BY DEF ledgerVars, Ledger!vars, States, Admitted, Receipts, Checked, Quotes, Spent, Settlers, Credited

\* Calls that are not suspended: orders are opened, deleted or get new items.
LEMMA LedgerCalls ==
    ASSUME IInv, [Next]_vars, NEW o \in Orders,
           \/ \E p \in Prices, c \in Phones : Create(o, p, c) \/ UpdateItems(o, p, c)
           \/ Remove(o)
    PROVE  [Ledger!Next]_(Ledger!vars)
<1> USE DEF IInv
<1>1. order[o] \in OrderRow
  BY DEF TypeOK
<1>2. UNCHANGED <<Admitted, Receipts, Checked, Quotes, Spent, Settlers, Credited>>
  <2>1. UNCHANGED <<details, did, active, pc, loc>>
    BY DEF Create, UpdateItems, Remove, requestVars
  <2> QED
    BY <2>1, LedgerFrame
<1>3. ASSUME NEW p \in Prices, NEW c \in Phones, Create(o, p, c)
      PROVE  Ledger!Open(o)
  <2> DEFINE row == [order[o] EXCEPT !.status = "pending", !.original = p, !.final = p, !.phone = c]
  <2>1. order' = [order EXCEPT ![o] = row] /\ order[o].status = "absent"
    BY <1>3 DEF Create
  <2>2. row.status = "pending"
    BY <1>1 DEF OrderRow
  <2> HIDE DEF row
  <2>3. States' = [States EXCEPT ![o] = "pending"]
    BY <2>1, <2>2, StateMoves DEF RowStatus, OrderStatus
  <2>4. States[o] = "absent"
    BY <2>1, LedgerStateIs DEF States
  <2> QED
    BY <1>2, <2>3, <2>4
    DEF Ledger!Open, Ledger!Move, States, Admitted, Receipts, Checked, Quotes, Spent, Settlers, Credited
<1>4. ASSUME NEW p \in Prices, NEW c \in Phones, UpdateItems(o, p, c)
      PROVE  UNCHANGED ledgerVars
  <2>1. order' = [order EXCEPT ![o] = RepricedRow(order[o], p, c)]
    BY <1>4 DEF UpdateItems
  <2>2. RepricedRow(order[o], p, c).status = order[o].status
    BY <1>1 DEF RepricedRow, OrderRow
  <2>3. \A x \in Orders : order'[x].status = order[x].status
    BY <2>1, <2>2 DEF TypeOK
  <2> QED
    BY <1>2, <2>3, LedgerFrame DEF ledgerVars
<1>5. ASSUME Remove(o) PROVE Ledger!Delete(o)
  <2> DEFINE row == [order[o] EXCEPT !.status = "deleted"]
  <2>1. order' = [order EXCEPT ![o] = row] /\ Exists(o)
    BY <1>5 DEF Remove
  <2>2. row.status = "deleted"
    BY <1>1 DEF OrderRow
  <2> HIDE DEF row
  <2>3. States' = [States EXCEPT ![o] = "gone"]
    BY <2>1, <2>2, StateMoves DEF RowStatus
  <2>4. States[o] \in Ledger!Living
    BY <2>1, ExistsIsLiving
  <2> QED
    BY <1>2, <2>3, <2>4
    DEF Ledger!Delete, Ledger!Move, States, Admitted, Receipts, Checked, Quotes, Spent, Settlers,
        Credited
<1> QED
  BY <1>3, <1>4, <1>5, LedgerStutters DEF Ledger!Next

\* Steps of a request that the ledger does not see.
LEMMA LedgerQuiet ==
    ASSUME IInv, [Next]_vars, NEW r \in Requests,
           \/ EditWrite(r) \/ UploadInvoice(r) \/ SaveInvoiceUrl(r) \/ ReadPoints(r)
           \/ Abort(r) /\ pc[r] # "reprice"
    PROVE  UNCHANGED ledgerVars
<1> USE DEF IInv
<1>1. UNCHANGED <<details, did, active>>
  BY DEF EditWrite, UploadInvoice, SaveInvoiceUrl, ReadPoints, Abort
<1>2. ASSUME NEW o \in Orders PROVE order'[o].status = order[o].status
  <2>1. EditWrite(r) \/ SaveInvoiceUrl(r) => order'[o].status = order[o].status
    <3>1. order \in [Orders -> OrderRow]
      BY DEF TypeOK
    <3>2. EditWrite(r) => \/ order' = order
                          \/ order' = [order EXCEPT ![loc[r].order].phone = loc[r].phone]
      BY DEF EditWrite
    <3>3. SaveInvoiceUrl(r) => \/ order' = order
                               \/ order' = [order EXCEPT ![loc[r].order].invoice = TRUE]
      BY DEF SaveInvoiceUrl
    <3> QED
      BY <3>1, <3>2, <3>3 DEF OrderRow
  <2>2. EditWrite(r) \/ SaveInvoiceUrl(r) \/ order' = order
    BY DEF UploadInvoice, ReadPoints, Abort
  <2> QED
    BY <2>1, <2>2
<1>3. pc[r] # "reprice" /\ pc'[r] # "reprice"
  BY DEF EditWrite, UploadInvoice, SaveInvoiceUrl, ReadPoints, Abort, Goto, TypeOK
<1>4. Continue(r) \/ Abort(r)
  BY DEF Continue
<1>5. UNCHANGED <<Admitted, Checked>>
  BY <1>3, <1>4, ContinueFrame
<1>6. UNCHANGED <<States, Receipts, Quotes, Spent, Settlers, Credited>>
  BY <1>1, <1>2, LedgerFrame
<1> QED
  BY <1>5, <1>6 DEF ledgerVars

\* Calls that the ledger does not see: an edit and a payment link take up no
\* money.
LEMMA LedgerQuietCalls ==
    ASSUME IInv, [Next]_vars, NEW r \in Requests, NEW o \in Orders,
           \/ \E c \in Phones : EditRead(r, o, c)
           \/ \E v \in MaybeVoucher : PayOnline(r, o, v)
    PROVE  UNCHANGED ledgerVars
<1> USE DEF IInv
<1>1. UNCHANGED <<order, details, did, active>> /\ Begins(r)
  BY DEF EditRead, PayOnline, Begins
<1>2. UNCHANGED <<States, Receipts, Quotes, Spent, Settlers, Credited>>
  BY <1>1, LedgerFrame
<1> DEFINE l == Snapshot(order[o], loc[r])
<1>3. l \in Local
  BY SnapshotFields DEF TypeOK
<1>4. ASSUME NEW c \in Phones, EditRead(r, o, c) PROVE loc'[r].op = "update"
  <2>1. loc' = [loc EXCEPT ![r] = [l EXCEPT !.op = "update", !.order = o,
                  !.phone = IF c = NoCustomer THEN order[o].phone ELSE c]]
    BY <1>4 DEF EditRead
  <2> HIDE DEF l
  <2> QED
    BY <1>3, <2>1 DEF TypeOK, Local
<1>5. ASSUME NEW v \in MaybeVoucher, PayOnline(r, o, v) PROVE loc'[r].op = "online"
  <2>1. loc' = [loc EXCEPT ![r] = [l EXCEPT !.op = "online", !.order = o, !.voucher = v]]
    BY <1>5 DEF PayOnline
  <2> HIDE DEF l
  <2> QED
    BY <1>3, <2>1 DEF TypeOK, Local
<1>6. loc'[r].op \notin {"cash", "ipn"}
  BY <1>4, <1>5
<1>7. UNCHANGED <<Admitted, Checked>>
  BY <1>1, <1>6, BeginFrame
<1> QED
  BY <1>2, <1>7 DEF ledgerVars

\* A payment is taken up for a pending order at the counter; by the gateway
\* also for one that is closed.
LEMMA LedgerAdmits ==
    ASSUME IInv, [Next]_vars, NEW r \in Requests, NEW o \in Orders,
           \/ r \in Clients /\ \E a \in Tenders, v \in MaybeVoucher : PayByCash(r, o, a, v)
           \/ r \in Deliveries /\ \E u \in Unanswered : IpnAccept(r, u) /\ u.order = o
    PROVE  Ledger!Admit(r, o)
<1> USE DEF IInv
<1>1. UNCHANGED <<order, details, did, active>> /\ Begins(r)
  BY DEF PayByCash, IpnAccept, Begins
<1>2. UNCHANGED <<States, Receipts, Quotes, Spent, Settlers, Credited>>
  BY <1>1, LedgerFrame
<1> DEFINE l == Snapshot(order[o], loc[r])
<1>3. l \in Local
  BY SnapshotFields DEF TypeOK
<1>4. ASSUME NEW a \in Tenders, NEW v \in MaybeVoucher, PayByCash(r, o, a, v)
      PROVE  loc'[r].op = "cash" /\ loc'[r].order = o /\ States[o] = "pending"
  <2>1. loc' = [loc EXCEPT ![r] = [l EXCEPT !.op = "cash", !.order = o, !.amount = a, !.voucher = v]]
    BY <1>4 DEF PayByCash
  <2>2. LedgerState(o) = "pending"
    BY <1>4, LedgerStateIs DEF PayByCash
  <2> HIDE DEF l
  <2>3. loc'[r].op = "cash" /\ loc'[r].order = o
    BY <1>3, <2>1 DEF TypeOK, Local
  <2> QED
    BY <2>2, <2>3 DEF States
<1>5. ASSUME NEW u \in Unanswered, IpnAccept(r, u), u.order = o
      PROVE  loc'[r].op = "ipn" /\ loc'[r].order = o /\ States[o] \in {"pending", "closed"}
  <2>1. loc' = [loc EXCEPT ![r] = [l EXCEPT !.op = "ipn", !.order = o, !.amount = u.amount]]
    BY <1>5 DEF IpnAccept
  <2>2. order[o].status \in OrderStatus \ {"paid", "completed"}
    BY <1>5 DEF IpnAccept, Exists, AlreadyConfirmed
  <2>3. LedgerState(o) \in {"pending", "closed"}
    BY <2>2, LedgerStateIs
  <2> HIDE DEF l
  <2>4. loc'[r].op = "ipn" /\ loc'[r].order = o
    BY <1>3, <2>1 DEF TypeOK, Local
  <2> QED
    BY <2>3, <2>4 DEF States
<1>6. Admitted' = [Admitted EXCEPT ![r] = o] /\ Admitted[r] = NoOrder /\ Checked' = Checked
  BY <1>1, <1>4, <1>5, BeginFrame
<1>7. \/ r \in Clients /\ States[o] = "pending"
      \/ r \in Deliveries /\ States[o] \in {"pending", "closed"}
  BY <1>4, <1>5
<1> QED
  BY <1>2, <1>6, <1>7
  DEF Ledger!Admit, States, Admitted, Receipts, Checked, Quotes, Spent, Settlers, Credited

\* A call that fails with a voucher in hand forgets it.
LEMMA LedgerForgets ==
    ASSUME IInv, [Next]_vars, NEW r \in Requests, Abort(r), pc[r] = "reprice"
    PROVE  Ledger!Forget(r)
<1> USE DEF IInv
<1>1. UNCHANGED <<order, details, did, active>> /\ pc'[r] # "reprice"
  BY DEF Abort, Goto, TypeOK
<1>2. UNCHANGED <<States, Receipts, Quotes, Spent, Settlers, Credited>>
  BY <1>1, LedgerFrame
<1>3. Admitted' = Admitted /\ Checked' = [Checked EXCEPT ![r] = NoVoucher]
  BY <1>1, ContinueFrame
<1> QED
  BY <1>2, <1>3
  DEF Ledger!Forget, States, Admitted, Receipts, Checked, Quotes, Spent, Settlers, Credited

\* Looking the voucher up finds it unused, or ends the call.
LEMMA LedgerChecks ==
    ASSUME IInv, [Next]_vars, NEW r \in Requests, ReadVoucher(r)
    PROVE  (\E v \in Vouchers : Ledger!Check(r, v)) \/ UNCHANGED ledgerVars
<1> USE DEF IInv
<1>1. UNCHANGED <<order, details, did, active>> /\ pc[r] = "voucher" /\ Continue(r)
  BY DEF ReadVoucher, Continue
<1>2. UNCHANGED <<States, Receipts, Quotes, Spent, Settlers, Credited>>
  BY <1>1, LedgerFrame
<1>3. PICK v \in Vouchers : v = loc[r].voucher
  BY <1>1 DEF RequestInv
<1>4. CASE active[v]
  <2>1. pc'[r] = "reprice"
    BY <1>3, <1>4 DEF ReadVoucher, Goto, TypeOK
  <2>2. Admitted' = Admitted /\ Checked' = [Checked EXCEPT ![r] = v]
    BY <1>1, <1>3, <2>1, ContinueFrame
  <2>3. v \notin Spent /\ Checked[r] = NoVoucher
    BY <1>1, <1>4 DEF Spent, Checked
  <2>4. Ledger!Check(r, v)
    BY <1>2, <2>2, <2>3
    DEF Ledger!Check, States, Admitted, Receipts, Checked, Quotes, Spent, Settlers, Credited
  <2> QED
    BY <2>4
<1>5. CASE ~active[v]
  <2>1. pc'[r] = "rejected"
    BY <1>3, <1>5 DEF ReadVoucher, Goto, TypeOK
  <2>2. UNCHANGED <<Admitted, Checked>>
    BY <1>1, <2>1, ContinueFrame
  <2> QED
    BY <1>2, <2>2 DEF ledgerVars
<1> QED
  BY <1>4, <1>5

\* Lowering the price by the voucher in hand is a quote.
LEMMA LedgerQuotes ==
    ASSUME IInv, OverlapInv, [Next]_vars, NEW r \in Requests, Reprice(r)
    PROVE  Ledger!Quote(r) \/ Ledger!Forget(r)
<1> USE DEF IInv
<1> DEFINE o == loc[r].order
           w == loc[r].voucher
           f == DiscountedPrice(loc[r])
           row == [order[o] EXCEPT !.final = f]
<1>1. /\ pc[r] = "reprice" /\ o \in Orders /\ w \in Vouchers
      /\ "repriced" \notin did[r] /\ Continue(r)
  BY DEF Reprice, RequestInv, Suspended, OverlapInv, CallInv, Continue
<1>2. pc'[r] # "reprice"
  BY DEF Reprice, Goto, TypeOK
<1>3. Admitted' = Admitted /\ Checked' = [Checked EXCEPT ![r] = NoVoucher]
  BY <1>1, <1>2, ContinueFrame
<1>4. CASE ~Exists(o)
  <2>1. UNCHANGED <<order, details, did, active>>
    BY <1>4 DEF Reprice
  <2>2. UNCHANGED <<States, Receipts, Quotes, Spent, Settlers, Credited>>
    BY <2>1, LedgerFrame
  <2> QED
    BY <1>3, <2>2
    DEF Ledger!Forget, States, Admitted, Receipts, Checked, Quotes, Spent, Settlers, Credited
<1>5. CASE Exists(o)
  <2>1. /\ order' = [order EXCEPT ![o].final = f] /\ loc' = [loc EXCEPT ![r] = Snapshot(row, loc[r])]
        /\ did' = [did EXCEPT ![r] = @ \cup {"repriced"}] /\ UNCHANGED <<details, active>>
    BY <1>5 DEF Reprice, Wrote
  <2>2. f \in Nat
    BY <1>1, DiscountedIsNat DEF DiscountedPrice, TypeOK, Local
  <2> HIDE DEF f
  <2>3. row \in OrderRow
    <3>1. PICK old \in OrderRow : old = order[o]
      BY <1>1 DEF TypeOK
    <3>2. [old EXCEPT !.final = f] \in OrderRow
      BY <2>2 DEF OrderRow
    <3> QED
      BY <3>1, <3>2
  <2>4. loc'[r].voucher = w
    BY <2>1, <2>3, SnapshotFields DEF TypeOK
  <2>5. \A x \in Orders : order'[x].status = order[x].status
    BY <1>1, <2>1 DEF TypeOK, OrderRow
  <2>6. \A q \in Requests : /\ "repriced" \in did'[q] <=> "repriced" \in did[q] \/ q = r
                            /\ "marked" \in did'[q] <=> "marked" \in did[q]
                            /\ "awarded" \in did'[q] <=> "awarded" \in did[q]
    BY <2>1 DEF TypeOK
  <2>7. UNCHANGED <<States, Receipts, Spent, Settlers, Credited>>
    BY <2>1, <2>5, <2>6, LedgerFrame
  <2>8. Quotes' = [Quotes EXCEPT ![r] = w]
    <3>1. \A q \in Requests : q # r => loc'[q] = loc[q]
      BY <2>1 DEF TypeOK
    <3> HIDE DEF w, o
    <3> QED
      BY <2>4, <2>6, <3>1 DEF Quotes
  <2>9. Quotes[r] = NoVoucher /\ Checked[r] = w
    BY <1>1 DEF Quotes, Checked
  <2>10. Quotes' = [Quotes EXCEPT ![r] = Checked[r]] /\ Checked[r] \in Vouchers
    BY <1>1, <2>8, <2>9
  <2> QED
    BY <1>3, <2>7, <2>9, <2>10
    DEF Ledger!Quote, States, Admitted, Receipts, Checked, Quotes, Spent, Settlers, Credited
<1> QED
  BY <1>4, <1>5

\* Using up the voucher spends it.
LEMMA LedgerSpends ==
    ASSUME IInv, [Next]_vars, NEW r \in Requests, ConsumeVoucher(r)
    PROVE  Ledger!Spend(r)
<1> USE DEF IInv
<1>1. /\ pc[r] = "consume" /\ loc[r].voucher \in Vouchers /\ "repriced" \in did[r]
      /\ pc'[r] # "reprice" /\ Continue(r)
  BY DEF ConsumeVoucher, RequestInv, Goto, TypeOK, Continue
<1>2. /\ UNCHANGED <<order, details, loc>> /\ active' = [active EXCEPT ![loc[r].voucher] = FALSE]
      /\ did' = [did EXCEPT ![r] = @ \cup {"consumed"}]
  BY DEF ConsumeVoucher, Wrote
<1>3. \A q \in Requests : /\ "repriced" \in did'[q] <=> "repriced" \in did[q]
                          /\ "marked" \in did'[q] <=> "marked" \in did[q]
                          /\ "awarded" \in did'[q] <=> "awarded" \in did[q]
  BY <1>2 DEF TypeOK
<1>4. UNCHANGED <<States, Receipts, Quotes, Settlers, Credited>>
  BY <1>2, <1>3, LedgerFrame
<1>5. UNCHANGED <<Admitted, Checked>>
  BY <1>1, ContinueFrame
<1>6. Quotes[r] = loc[r].voucher /\ Quotes[r] \in Vouchers
  BY <1>1 DEF Quotes
<1>7. Spent' = Spent \cup {Quotes[r]}
  BY <1>1, <1>2, <1>6 DEF Spent, TypeOK
<1> QED
  BY <1>4, <1>5, <1>6, <1>7
  DEF Ledger!Spend, States, Admitted, Receipts, Checked, Quotes, Spent, Settlers, Credited

\* A payment detail is a receipt for the order that the payment was taken up
\* for.
LEMMA LedgerReceives ==
    ASSUME IInv, [Next]_vars, NEW r \in Requests, CreatePaymentDetail(r)
    PROVE  (\E o \in Orders : Ledger!Receive(r, o)) \/ UNCHANGED ledgerVars
<1> USE DEF IInv
<1>1. /\ pc[r] = "detail" /\ loc[r].order \in Orders /\ ~details[r].made
      /\ loc[r].op \in {"cash", "ipn"} /\ pc'[r] # "reprice" /\ Continue(r)
  BY DEF CreatePaymentDetail, ChangeDue, RequestInv, Suspended, Goto, TypeOK, Continue
<1>2. UNCHANGED <<order, loc, did, active>>
  BY DEF CreatePaymentDetail, ChangeDue
<1>3. UNCHANGED <<States, Quotes, Spent, Settlers, Credited>>
  BY <1>2, LedgerFrame
<1>4. UNCHANGED <<Admitted, Checked>>
  BY <1>1, ContinueFrame
<1>5. \/ details' = details
      \/ \A q \in Requests : details'[q].made <=> details[q].made \/ q = r
  BY DEF CreatePaymentDetail, ChangeDue, TypeOK
<1>6. CASE details' = details
  BY <1>3, <1>4, <1>6, LedgerFrame DEF ledgerVars
<1>7. CASE \A q \in Requests : details'[q].made <=> details[q].made \/ q = r
  <2>1. PICK o \in Orders : o = loc[r].order
    BY <1>1
  <2>2. Receipts' = [Receipts EXCEPT ![r] = o]
    BY <1>2, <1>7, <2>1 DEF Receipts
  <2>3. Receipts[r] = NoOrder /\ Admitted[r] = o
    BY <1>1, <2>1 DEF Receipts, Admitted
  <2>4. Ledger!Receive(r, o)
    BY <1>3, <1>4, <2>2, <2>3
    DEF Ledger!Receive, States, Admitted, Receipts, Checked, Quotes, Spent, Settlers, Credited
  <2> QED
    BY <2>4
<1> QED
  BY <1>5, <1>6, <1>7

\* Marking an order paid or completed settles it.
LEMMA LedgerSettles ==
    ASSUME IInv, [Next]_vars, NEW r \in Requests, NEW o \in Orders, NEW d \in MaybeRequest,
           NEW s \in {"paid", "completed"}, NEW l \in Local, l.order = o,
           Exists(o), WriteStatus(r, o, s, d, l), UNCHANGED <<details, active>>,
           UNCHANGED <<Admitted, Checked>>, "marked" \notin did[r],
           Admitted[r] = Receipts[r], Receipts[r] \in {o, NoOrder}
    PROVE  Ledger!Settle(r, o)
<1> USE DEF IInv
<1>1. order' = [order EXCEPT ![o] = StatusRow(order[o], s, d)]
      /\ loc' = [loc EXCEPT ![r] = Snapshot(order[o], l)]
      /\ did' = [did EXCEPT ![r] = @ \cup {"marked"}]
  BY DEF WriteStatus
<1>2. \A q \in Requests : /\ "repriced" \in did'[q] <=> "repriced" \in did[q]
                          /\ "marked" \in did'[q] <=> "marked" \in did[q] \/ q = r
                          /\ "awarded" \in did'[q] <=> "awarded" \in did[q]
  BY <1>1 DEF TypeOK
<1>3. UNCHANGED <<Receipts, Quotes, Spent, Credited>>
  BY <1>2, LedgerFrame
<1>4. StatusRow(order[o], s, d).status = s /\ s \in RowStatus
  BY DEF StatusRow, TypeOK, OrderRow, RowStatus, OrderStatus
<1>5. States' = [States EXCEPT ![o] = "settled"]
  <2> DEFINE row == StatusRow(order[o], s, d)
  <2>1. order' = [order EXCEPT ![o] = row] /\ row.status \in RowStatus
    BY <1>1, <1>4
  <2>2. row.status \in {"paid", "completed"}
    BY <1>4
  <2> HIDE DEF row
  <2> QED
    BY <2>1, <2>2, StateMoves
<1>6. States[o] \in Ledger!Living
  BY ExistsIsLiving
<1>7. loc'[r].order = o
  BY <1>1, SnapshotFields DEF TypeOK
<1>8. Settlers' = [Settlers EXCEPT ![r] = o]
  <2>1. \A q \in Requests : q # r => loc'[q] = loc[q]
    BY <1>1 DEF TypeOK
  <2> QED
    BY <1>2, <1>7, <2>1 DEF Settlers
<1>9. Settlers[r] = NoOrder
  BY DEF Settlers
<1>10. Ledger!Move(o, Ledger!Living, "settled")
  BY <1>5, <1>6 DEF Ledger!Move, States
<1> QED
  BY <1>3, <1>8, <1>9, <1>10
  DEF Ledger!Settle, States, Admitted, Receipts, Checked, Quotes, Spent, Settlers, Credited

\* The status that a payment handler writes.
LEMMA LedgerMarks ==
    ASSUME IInv, OverlapInv, [Next]_vars, NEW r \in Requests, MarkPaid(r)
    PROVE  (\E o \in Orders : Ledger!Settle(r, o)) \/ UNCHANGED ledgerVars
<1> USE DEF IInv
<1>1. /\ pc[r] = "status" /\ "marked" \notin did[r] /\ details[r].made
      /\ loc[r].op \in {"cash", "ipn"} /\ loc[r].order \in Orders
      /\ r \in MaybeRequest /\ UNCHANGED <<details, active>> /\ Continue(r)
  BY DEF MarkPaid, RequestInv, Suspended, OverlapInv, CallInv, MaybeRequest, Continue
<1>2. loc[r] \in Local
  BY DEF TypeOK
<1>3. pc'[r] # "reprice"
  BY DEF MarkPaid, WriteStatus, AfterStatus, Goto, TypeOK
<1>4. UNCHANGED <<Admitted, Checked>>
  BY <1>1, <1>3, ContinueFrame
<1>5. Admitted[r] = Receipts[r] /\ Receipts[r] = loc[r].order
  BY <1>1 DEF Admitted, Receipts
<1>6. CASE Exists(loc[r].order)
  <2>1. WriteStatus(r, loc[r].order, "paid", r, loc[r])
    BY <1>6 DEF MarkPaid
  <2> QED
    BY <1>1, <1>2, <1>4, <1>5, <1>6, <2>1, LedgerSettles
<1>7. CASE ~Exists(loc[r].order)
  <2>1. UNCHANGED <<order, did, details, active>>
    BY <1>7 DEF MarkPaid
  <2> QED
    BY <1>4, <2>1, LedgerFrame DEF ledgerVars
<1> QED
  BY <1>6, <1>7

\* The status that the staff write: any order may be settled, reopened or
\* closed.
LEMMA LedgerPatches ==
    ASSUME IInv, [Next]_vars, NEW r \in Requests, NEW o \in Orders, NEW s \in Targets,
           PatchStatus(r, o, s)
    PROVE  Ledger!Settle(r, o) \/ \E to \in {"pending", "closed"} : Ledger!Unsettle(o, to)
<1> USE DEF IInv
<1> DEFINE l == [loc[r] EXCEPT !.op = "status", !.order = o]
<1>1. l \in Local /\ l.order = o /\ l.op = "status"
  <2>1. "status" \in MaybeOp /\ o \in MaybeOrder
    BY DEF MaybeOp, OpNames, MaybeOrder
  <2> QED
    BY <2>1 DEF TypeOK, Local
<1>2. /\ did[r] = {} /\ ~details[r].made /\ loc[r].op = "none" /\ Exists(o)
      /\ WriteStatus(r, o, s, NoRequest, l) /\ UNCHANGED <<details, active>> /\ Begins(r)
  BY DEF PatchStatus, Starts, RequestInv, Begins
<1> HIDE DEF l
<1>3. NoRequest \in MaybeRequest /\ s \in OrderStatus
  BY TargetAssumption DEF MaybeRequest
<1>4. UNCHANGED <<Admitted, Checked>>
  <2>1. loc'[r] = Snapshot(order[o], l)
    BY <1>2 DEF WriteStatus, TypeOK
  <2>2. loc'[r].op = "status"
    BY <1>1, <2>1, SnapshotFields DEF TypeOK
  <2> QED
    BY <1>2, <2>2, BeginFrame
<1>5. CASE s \in {"paid", "completed"}
  <2>1. Admitted[r] = NoOrder /\ Receipts[r] = NoOrder
    BY <1>2 DEF Admitted, Receipts
  <2>2. Ledger!Settle(r, o)
    BY <1>1, <1>2, <1>3, <1>4, <1>5, <2>1, LedgerSettles
  <2> QED
    BY <2>2
<1>6. CASE s \notin {"paid", "completed"}
  <2> DEFINE to == IF s = "pending" THEN "pending" ELSE "closed"
             row == StatusRow(order[o], s, NoRequest)
  <2>1. order' = [order EXCEPT ![o] = row] /\ did' = did
    BY <1>2, <1>6 DEF WriteStatus, TypeOK
  <2>2. row.status = s /\ s \in RowStatus
    BY <1>3 DEF StatusRow, TypeOK, OrderRow, RowStatus
  <2> HIDE DEF row
  <2>3. States' = [States EXCEPT ![o] = to]
    BY <1>3, <1>6, <2>1, <2>2, StateMoves
  <2>4. UNCHANGED <<Receipts, Quotes, Spent, Settlers, Credited>>
    BY <1>2, <2>1, LedgerFrame
  <2>5. States[o] \in Ledger!Living
    BY <1>2, ExistsIsLiving
  <2>6. to \in {"pending", "closed"}
    OBVIOUS
  <2> HIDE DEF to
  <2>7. Ledger!Move(o, Ledger!Living, to)
    BY <2>3, <2>5 DEF Ledger!Move, States
  <2>8. Ledger!Unsettle(o, to)
    BY <1>4, <2>4, <2>6, <2>7
    DEF Ledger!Unsettle, States, Admitted, Receipts, Checked, Quotes, Spent, Settlers, Credited
  <2> QED
    BY <2>6, <2>8
<1> QED
  BY <1>5, <1>6

\* An award credits the ticket that settled the order.
LEMMA LedgerCredits ==
    ASSUME IInv, PointsInv, OverlapInv, [Next]_vars, NEW r \in Requests, AwardPoints(r)
    PROVE  Ledger!Credit(r) \/ UNCHANGED ledgerVars
<1> USE DEF IInv
<1>1. /\ pc[r] = "award" /\ loc[r].order \in Orders /\ "marked" \in did[r]
      /\ "awarded" \notin did[r] /\ UNCHANGED <<order, details, active>> /\ Continue(r)
  BY DEF AwardPoints, RequestInv, Suspended, OverlapInv, CallInv, PointsInv, AwardInv, Finished,
         Continue
<1>2. pc'[r] # "reprice"
  BY DEF AwardPoints, Goto, TypeOK
<1>3. UNCHANGED <<Admitted, Checked>>
  BY <1>1, <1>2, ContinueFrame
<1>4. PICK what \in {"awarded", "dropped"} : did' = [did EXCEPT ![r] = @ \cup {what}]
  BY DEF AwardPoints, Wrote
<1>5. \A q \in Requests : /\ "repriced" \in did'[q] <=> "repriced" \in did[q]
                          /\ "marked" \in did'[q] <=> "marked" \in did[q]
                          /\ "awarded" \in did'[q] <=> "awarded" \in did[q] \/ (q = r /\ what = "awarded")
  BY <1>4 DEF TypeOK
<1>6. UNCHANGED <<States, Receipts, Quotes, Spent, Settlers>>
  BY <1>1, <1>5, LedgerFrame
<1>7. CASE what = "dropped"
  <2>1. Credited' = Credited
    BY <1>5, <1>7 DEF Credited
  <2> QED
    BY <1>3, <1>6, <2>1 DEF ledgerVars
<1>8. CASE what = "awarded"
  <2>1. Credited' = Credited \cup {r} /\ r \notin Credited
    BY <1>1, <1>5, <1>8 DEF Credited
  <2>2. Settlers[r] # NoOrder
    BY <1>1, NullAssumption DEF Settlers
  <2>3. Ledger!Credit(r)
    BY <1>3, <1>6, <2>1, <2>2
    DEF Ledger!Credit, States, Admitted, Receipts, Checked, Quotes, Spent, Settlers, Credited
  <2> QED
    BY <2>3
<1> QED
  BY <1>7, <1>8

\* Every step of the handlers is a step of the ledger, or none.
LEMMA LedgerStep ==
    ASSUME IInv, PointsInv, OverlapInv, [Next]_vars
    PROVE  [Ledger!Next]_(Ledger!vars)
<1>1. ASSUME NEW r \in Requests PROVE r \in Ledger!Tickets
  BY DEF Ledger!Tickets, Requests
<1>2. CASE ClientCall
  <2>1. CASE \E o \in Orders : \/ \E p \in Prices, c \in Phones : Create(o, p, c) \/ UpdateItems(o, p, c)
                              \/ Remove(o)
    BY <2>1, LedgerCalls
  <2>2. CASE \E r \in Clients, o \in Orders, s \in Targets : PatchStatus(r, o, s)
    BY <1>1, <2>2, LedgerPatches DEF Ledger!Next, Requests
  <2>3. CASE \E r \in Clients, o \in Orders : \E a \in Tenders, v \in MaybeVoucher :
               PayByCash(r, o, a, v)
    BY <1>1, <2>3, LedgerAdmits DEF Ledger!Next, Requests
  <2>4. CASE \E r \in Clients, o \in Orders :
               \/ \E c \in Phones : EditRead(r, o, c)
               \/ \E v \in MaybeVoucher : PayOnline(r, o, v)
    BY <2>4, LedgerQuietCalls, LedgerStutters DEF Requests
  <2> QED
    BY <1>2, <2>1, <2>2, <2>3, <2>4 DEF ClientCall
<1>3. CASE \E r \in Deliveries, u \in Unanswered : IpnAccept(r, u)
  <2>1. PICK r \in Deliveries, u \in Unanswered : IpnAccept(r, u)
    BY <1>3
  <2>2. r \in Requests /\ u.order \in Orders
    BY DEF Requests, Unanswered, IInv, TypeOK, Link
  <2>3. Ledger!Admit(r, u.order)
    BY <2>1, <2>2, LedgerAdmits
  <2> QED
    BY <1>1, <2>2, <2>3 DEF Ledger!Next
<1>4. CASE (\E u \in urls : Charge(u)) \/ (\E u \in Unanswered : IpnAlreadyConfirmed(u)) \/ UNCHANGED vars
  <2>1. UNCHANGED <<order, details, did, active, pc, loc>>
    BY <1>4 DEF Charge, IpnAlreadyConfirmed, requestVars, vars
  <2>2. UNCHANGED ledgerVars
    BY <2>1, LedgerFrame DEF ledgerVars, IInv
  <2> QED
    BY <2>2, LedgerStutters
<1>5. ASSUME NEW r \in Requests, ReadVoucher(r) \/ Reprice(r) \/ ConsumeVoucher(r)
      PROVE  [Ledger!Next]_(Ledger!vars)
  BY <1>1, <1>5, LedgerChecks, LedgerQuotes, LedgerSpends, LedgerStutters DEF Ledger!Next
<1>6. ASSUME NEW r \in Requests, CreatePaymentDetail(r) \/ MarkPaid(r) \/ AwardPoints(r)
      PROVE  [Ledger!Next]_(Ledger!vars)
  BY <1>1, <1>6, LedgerReceives, LedgerMarks, LedgerCredits, LedgerStutters DEF Ledger!Next
<1>7. ASSUME NEW r \in Requests,
             EditWrite(r) \/ UploadInvoice(r) \/ SaveInvoiceUrl(r) \/ ReadPoints(r) \/ Abort(r)
      PROVE  [Ledger!Next]_(Ledger!vars)
  <2>1. CASE Abort(r) /\ pc[r] = "reprice"
    BY <1>1, <2>1, LedgerForgets DEF Ledger!Next
  <2>2. CASE ~(Abort(r) /\ pc[r] = "reprice")
    BY <1>7, <2>2, LedgerQuiet, LedgerStutters
  <2> QED
    BY <2>1, <2>2
<1> QED
  BY <1>2, <1>3, <1>4, <1>5, <1>6, <1>7 DEF Next, Continue, GatewayCall

\* The ledger starts empty.
LEMMA LedgerInit == Init => Ledger!Init
  BY DEF Init, Ledger!Init, Ledger!Tickets, Requests, LedgerState

\* The handlers keep the ledger, whatever overlaps and whatever fails half
\* way: the counter takes up payments of pending orders only, the gateway none
\* of a settled or deleted order; each receipt is of the order that was taken
\* up and settles that order, each settlement is credited at most once, and no
\* voucher is used up that has not lowered a price (payByCash, payOnline,
\* vnpayIpn, updateStatus).
THEOREM HandlersKeepLedger == Spec => LedgerIsKept
<1>1. Init => Ledger!Init
  BY LedgerInit
<1>2. IInv /\ PointsInv /\ OverlapInv /\ [Next]_vars => [Ledger!Next]_(Ledger!vars)
  BY LedgerStep
<1> QED
  BY <1>1, <1>2, OverlapInvariant, PTL DEF Spec, LedgerIsKept, Ledger!Spec

=============================================================================
