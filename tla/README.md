# CoffeeTek: specifications

TLA+ models of the CoffeeTek backend (`Backend/src`) and of those parts of its web
frontend (`fe-coffetek-new/src`) that keep state, the TLC configurations that
check them and TLAPS proofs of what matters most. All paths below are relative to
the repository; `order.service.ts` and the like are under `Backend/src/<component>/`.

Check a module with `tlc -config MCOrderPaymentRace.cfg MCOrderPayment.tla`, prove
one with `tlapm OrderPaymentProofs.tla`. `PROJECT.json` lists the components, the
runs, the lines behind each definition, the findings, the hazards and the theorems.

## 1. Inventory

The backend is one NestJS process on PostgreSQL (Prisma, isolation level read
committed), Redis, RabbitMQ, Socket.IO, the VNPAY gateway, a mail service and a
storage bucket. The repository's own tests only check that each class can be
constructed. Next.js frontends call the REST API.

What is hard everywhere is the same: **every `await` is a point where other
requests run**, almost no handler opens a transaction, and nothing is retried or
rolled back when a later `await` of a handler fails.

| component | state | operations | what makes it correct | models |
|---|---|---|---|---|
| orders and payments (`order`) | `orders`, `payment_details` | create, updateItems, update, remove, payByCash, payOnline, vnpayIpn, updateStatus | payments match orders and money; a price follows the items and at most one voucher; a collected charge is settled | `OrderPayment`, implementing `OrderLedger` |
| vouchers (`voucher`) | `vouchers` | issue, exchange by number or by group, remove, use | a voucher is spent once and for something; who got one keeps it | `Customers`, use in `OrderPayment` |
| loyalty levels (`loyal-level`) | `customer_points`, levels | award points; change levels | points are what the bills were worth | award in `OrderPayment` |
| invoices, storage | bucket, `invoiceUrl` | upload, save the key | no key without a PDF | `OrderPayment` |
| background work of completed orders (`order.controller`, `contracting.controller`, `main`) | two durable queues, prefetch 1, `material_consumptions` | emit, deliver, handle, ack, nack with requeue, crash | no accepted event is lost; the stock is charged once per completion, unless something failed or no recipe applies | `OrderEvents`, implementing `AtLeastOnce` |
| material stock (`contracting`, `material`, `material-remain`, `material-loss`) | `materialRemain` (one row a day), `contractings`, importations | import, contracting create/update/remove, reset, record | the remain agrees with the books; taking out never makes it negative | `Inventory` |
| promotions and prices (`promotion`, `order`, `product`) | `promotions`, `product_promotions` | create, update, remove, activate; three computations of a price | promotions do not overlap; what is shown is what is charged | `Catalog` |
| products (`product`) and `redis` | products, their sizes, cached lists | create, update, remove; list; invalidate | no stale list survives a change | `Catalog` |
| accounts (`auth`, `user`, `face-recognition`) | users, one-time passwords in Redis, face rows, faces at the provider | reset a password, change the number, register a face, log in by face | a code is good once; a face finds its owner | `Customers` |
| order board (`events.gateway`, `pos/orders-processing`) | what each screen shows | broadcasts, fetches, clicks | screens end up showing the open orders, a kitchen list the oldest hundred | `OrderBoard` |
| kiosk (`app/kiosk`, payment result) | browser storage, pages, timers | pick, check out, identify, pay, poll, go on in the tab of the result | visits do not mix; the cart is charged; a payment is shown | `Kiosk` |
| reports, promotion mails, other screens, seeds, stress tests | - | queries, layout, tools | - | not modelled, see section 8 |

Interactions. `payByCash` and `vnpayIpn` of *orders* use up *vouchers*, and end in
`updateStatus`, which makes the *invoice*, awards *points* and, when the order is
completed, emits an e-mail and a consumption event through RabbitMQ. The
consumption handler belongs to *contracting* and writes `material_consumptions`
from the recipe of the order's items. `calculateRemaining` compares contractings
with orders; *material* imports share the remain rows with *contracting*.
*Promotions* refer to rows of *products* and change the prices that *orders*
compute. *Vouchers*, points and faces hang on the telephone number of *accounts*.
*Orders* announce their changes to the *order board*; the *kiosk* creates orders,
asks for payment links and polls their status.

Hard behaviours, each with its line and its properties in `PROJECT.json`
("hazards"): two payments of one order, an IPN call during a cash payment, during an
earlier IPN call or after a cancellation, items that change under a payment, a
voucher that is spent and then the payment fails, awards that interleave, an event
whose handler fails after it has written, a crash between commit and emission, an
event that can never be handled, contractings that read the same remain, a reset
that counts imports twice, prices with half VND, a list that is cached after the
prices in it changed, a recipe that is replaced under an event, imports below zero,
two promotions activated at once, a code or a voucher that two requests read before
either writes, a number that changes while something is registered under it, notices
that are lost or overtaken, timers and answers of a kiosk customer who has left, in
the same tab or in one left behind.

## 2. Plan

Done: `OrderPayment` and the ledger it implements, `OrderEvents` and its refinement
of `AtLeastOnce`, `Inventory`, `Catalog`, `Customers`, `OrderBoard`, `Kiosk`, and
proofs of every safety property that a passing run checks, for each of them. Left:

1. An abstract `Stock` (imported, taken) that regular calls of `Inventory`
   implement; the mails about promotions as a third event of `OrderEvents`; recipes,
   as far as `ReadOrderLines` finds something to store or not.
2. Two kiosk tabs that customers use in turn, instead of one that is left for good.

New modules follow the conventions of the existing ones: one action per step, pc
and loc per request, no recursive operators, assumptions named.

## 3. How the models correspond to the code

### OrderPayment

A request is a process; `pc[r]` names the `await` that it is suspended on and
`loc[r]` holds the local variables that it uses afterwards. Each action is the code
from one `await` that matters to the next. Consecutive `await`s that only read rows
no other handler changes (the payment method, the voucher's discount) are part of
the step beside them. `Abort` makes the pending `await` reject; a crash of the
process is several `Abort`s, so every loss that it can cause is covered. A call
that is refused before it has written anything is a stuttering step.

| definitions | code (`order.service.ts`) |
|---|---|
| `order`, `details`, `points`, `active` | tables `orders`, `payment_details`, `customer_points`, `vouchers.is_active` |
| `urls`, `charged`, `confirmed`, `Charge`, `Unanswered`, `GatewayCall` | VNPAY: links handed out, money collected, IPN calls answered; repeated until answered (external) |
| `Create`, `UpdateItems`, `Remove` | `create`, `updateItems`, `remove`; the first two run in a transaction or write once |
| `EditRead`, `EditWrite` | `update` |
| `PayByCash`, `ReadVoucher`, `Reprice`, `ConsumeVoucher`, `CreatePaymentDetail`, `MarkPaid` | `payByCash`; the voucher steps also `payOnline` |
| `PayOnline` | `payOnline` |
| `IpnAccept`, `IpnAlreadyConfirmed` | `vnpayIpn`; `updateStatus` is started and not awaited |
| `PatchStatus`, `WriteStatus`, `UploadInvoice`, `SaveInvoiceUrl`, `ReadPoints`, `AwardPoints` | `updateStatus` |

Abstractions: the total of the items is any member of `Prices`; the PDF is a member
of `bucket`; loyalty levels are a constant; money counts hundredths of a VND so
that halves are exact. The events of a completed order are in `OrderEvents`, the
broadcasts in `OrderBoard`. `did`, `quote`, `outdated` and `overlapped` are history
variables that no guard reads: the writes of each request, the price that a cash
payment set out with (`Quote`), the orders whose items were replaced while a call was
putting a voucher on the old ones (`BeingDiscounted`; until they are replaced again),
and the customers one of whose awards was written while another had read his points
(`BeingAwarded`).
`Awarded(c)` is what the bills paid in the name of `c` were worth. It is a sum, and
`Sums` defines sums for this module and for `Inventory`: the sum of `f` over `S` is
the number of units that the values consist of, a cardinality instead of a
recursion, so that the theorems on finite sets apply to it.

`OrderLedger` is what the component promises whatever overlaps: the counter takes up
a payment for a pending order only, the gateway's money is also taken for an order
that staff have closed, never for one that is settled or gone; a ticket takes money
once, for the order it was taken up for, settles that order and no other and earns
points for it at most once; a price is lowered once per ticket, by a voucher that the
ticket has found unused, and only such a voucher is used up. `LedgerIsKept` maps
`state` to the status (`canceled`, `refund` and `shipping_status` are closed, `paid`
and `completed` settled, as `vnpayIpn` and `payByCash` tell them apart), `admitted` to
the locals of payments, `receipt` to the payment details, `checked` to the voucher of a
request at `reprice`, `quoted`, `settler` and `credited` to `did`, `spent` to the
vouchers that are no longer active. What the ledger leaves open is what the code does
not keep: that the order is still as it was when the payment was taken up, and that a
voucher lowers one price only (section 6).

### OrderEvents and AtLeastOnce

`outbox` holds what `emit` was called with and the broker has not accepted, `queue`
what the broker holds, `job` the unacknowledged event of each consumer (prefetch 1).
`order` is reduced to status, whether there is a phone number and an `edition` of
the items. `PatchStatus` is `updateStatus` as far as it emits; `ReadOrderLines` and
`StoreConsumption` are the two steps of `calculateAndStoreConsumption`: the first
finds lines, or no order, or nothing that a recipe applies to; the second stores the
rows, or has nothing to store or no table to store it in (the error P2021 is
swallowed), and then returns all the same. `batches` counts the former, the history
`passes` the latter; `PrepareMail` and `SendMail` are the two steps of
`sendOrderCompletionEmail`; `Ack` and `Reject` are the handlers' ends. `Reject` may
strike after a step has committed, and puts the event back at the head. `Crash`
loses the outbox and puts back the unacknowledged events.

`AtLeastOnce` is the abstract queue: a job is retired only against work that no
earlier retirement accounts for. `ConsumptionAtLeastOnce` maps `submitted` to
`published["consumption"]`, `performed` to `batches` and `passes` together, `retired` to
`acked["consumption"]`.

### Inventory

One material. Contractings are integers, as the column is; imports are any numbers,
also fractions and below zero, since `ImportMaterialDto` has no minimum (`Imports`).
The unit is small enough for all quantities to be whole. `remain` has a row or `NoRow`
for each day, `contracting` and `imported` one row per request that created it. Steps
as in `OrderPayment`: `CreateContracting` to `StoreRemain` is `create`,
`ImportMaterial` and `ReadLastRow` are `importMaterial`, `UpdateContracting`,
`RemoveContracting`, `ReadCurrent`, `SaveContracting` are `update` and `remove`,
`Reset` to `ReadContracted` is `resetRemainForDate`, `Record` a turn of the loop of
`calculateRemaining` with `autoRecord`; what the orders have used is any quantity up
to the contracted one. `Imported` and `Taken` are the books: the sums of what was
imported and of what the live contractings take. `regular` is a history flag: it is
true as long as each call was about the current day, began when no other was being
served, completed, and was neither a reset nor a recording (both replace the remain).

### Catalog

Two products, one without sizes and one with rows in `product_sizes`, which an
update deletes and writes anew (`rows`); promotions refer to these rows by a foreign
key that is then set to null (`UnlinkRows`). `reader` is a client that does not find
its list in Redis, queries the tables and stores the result: `Miss`, `Query`,
`Store`, of `findAll` and `findAllPos`. Everything that changes a product ends in
`FindKeys` and `DeleteKeys` (`invalidateProductCache`, `delPattern`); promotions do
not, so that only `Expire` brings their prices into a stored list. `Promote`,
`CheckOverlap`, `InsertPromotion` are `create` of a promotion, `Toggle`,
`CheckOthers`, `Activate` are `toggleActive`. `ShownPrices`, `ChargedPrices` and
`RepricedPrices` translate the three price computations, as sets where `findFirst`
may take any row. The history of a list (`outrun`), of a promotion (`apart`: the
others that it was compared with) and of activations (`contested`) marks the cases
in which the code makes no promise.

### Customers

`otp` is the code under `otp:<email>`, known by the number of the request that made
it; `ForgetPassword` to `StorePassword` are `forgetPassword` and `resetPassword`
with the two calls of Redis in `validateOTP` as two steps. `face` is the row,
`collection` the faces that the provider has of a user, each under the number that
it was registered with; `RegisterFace` to `SaveFace` are `registerFaceID`, which
takes whatever number the request has. The page sends the one that it has cached.
`UpdateSecurity` to `WriteAccount` and `ChangeSensitiveInfo` change the number,
which is unique; the vouchers follow it by `ON UPDATE CASCADE`, the face row does
not. `ExchangeVoucher` to `AssignVoucher` and `ExchangeByGroup` to `GrantVoucher`
are the two exchanges. `astray` is a history variable: whose registration failed
half way or overlapped another, who registered with a number that was not his or
changed his own afterwards, which voucher two requests found free.

### OrderBoard

`notices` and `inbox` are the messages on their way to a kitchen list or a badge, in
the order of their connection; `fetches` are the requests a list waits for, whose
answers may come in any order. An answer is the first page of the open orders,
oldest first (`IsOnPage`, `OpenOrders`; `PageSize` is 100 in the code). `Create`,
`UpdateStatus`, `RemoveOrder` and `WriteOrder` change the order, `AfterWrite`,
`FinishStatus`, `CountOrders` and `SendCount` announce it. `TakeNotice`, `Ask`,
`AnswerFetch`, `ShowOrders` and `FailFetch` are `fetchOrders` of the page,
`ClickStatus` and `FinishClick` its buttons, `OpenBadge` to `TakeNumber` the badge.
`Disconnect` loses what is under way. `lost` and `late` are histories: screens that
missed something and have heard nothing since, or got a number or an answer last
that was computed before another one.

### Kiosk

One browser and its customers, one after the other. `stored` and `phone` are the two
entries of `localStorage`; the rest is state of the page that is open. Calls and
timers outlive their page (`lookups`, the polls of an order) unless the browser loads
a document anew: only the way from the cart to the payment does (`Unload`).
`OpenMenu` also erases the stored cart; items taken out of the stored cart come back
from the menu's own copy. `/kiosk/cart` is linked from nowhere and left out, and
pages are built anew when the browser goes back to them.

A payment opens a tab of its own, whose result (`ShowResult`) has a link back to the
kiosk if there is a cart or a number in the storage (`BackToKiosk`). Whoever follows it
goes on in that tab; `Unload` does not reach the one left behind, whose searches
(`aside`, `LookupApart`) and attempts (`apart`) live on and share the storage. Nobody
goes back to a tab that was left, and it shows no menu at that time (a menu writes the
stored cart all the time).

Three histories mark what the code does not prevent: `jumped` (a late identification
opened the payment page by itself, from the menu or the start page; until the next
checkout), `crossed` (an identification of a tab left behind was the last to store the
number) and `strayed` (a late result of an earlier order, in its tab or poll, removed
the cart of the present one). An order made while one of the first two is set is
`strange`.

## 4. Runs

All instances are small because each hazard needs two or three actors on one
object; a second order, customer or material only adds independent copies, except
behind a shared queue, where `OrderEvents` has two orders. Every run is exhaustive.
`CHECK_DEADLOCK FALSE` is given everywhere: when all requests are served and all
bounds used up, the system rightly stops.

| run | instance | shows |
|---|---|---|
| race | 1 order, 1 customer, 1 voucher, 2 clients and 1 IPN call all in flight, every handler, failures; 995 thousand states | what survives every interleaving and failure: payments belong to their order, online payments are collected money, no voucher spent for nothing, no key without a PDF, the gateway is stopped for a reason, points never exceed the bills, match the level and are complete unless awards overlap, payments stay attached, the ledger is implemented |
| vouchers | 1 order, 2 vouchers, 2 clients and 1 IPN call all in flight, no customer, failures; 627 thousand states | change follows the price that the payment set out with, also where it is short; discounts do not add up |
| settled | 3 clients, 2 IPN calls, no failures; 64 thousand states | liveness: collected money is acknowledged and settled, a paid order gets its invoice |
| events | 2 orders, 2 completions, 1 change of items each, 1 failure or crash; 2.9 million states | no accepted event lost or doubled, work is due, rows follow the completion, refinement of `AtLeastOnce` |
| handled | 2 orders, 2 completions, 1 failure or crash; 242 thousand states | liveness of both queues |
| poison | 2 orders, no failures | counterexample, section 6 |
| stock | 4 calls, 2 at a time, 2 days, contractings of 1 and 2, imports of -1 and 2, failures; 812 thousand states | only imports below zero lead to a remain below zero; regular calls keep the books |
| board | 2 orders, a page of 1, 2 requests, 1 list, 1 badge, 1 broken connection, failures; 599 thousand states | a screen that missed nothing and got nothing out of order is right; an order that has or gets a place on the page is shown |
| kiosk | 2 visits, 2 openings of the menu with 1 item each, 2 attempts to pay, 1 identification and 1 poll under way; 996 thousand states | visits do not mix, the cart reaches the payment, a payment is shown |
| catalog | 1 reader, 2 requests at the same time, 2 promotions there, 3 moments, 2 prices, failures; 524 thousand states | lists follow the products, catch up with promotions, shown is charged for products without sizes |
| pricing | as catalog | counterexample, section 6 |
| customers | 2 users, 3 numbers, 2 vouchers, 3 requests, 2 at a time, failures; 1.6 million states | a code is good once, a face finds its owner, a voucher keeps its owner |

Bounds. In `OrderPayment` all three requests may overlap. In *race* the prices are 101
and 202 VND, worth one and two points, half of the second a whole number worth one
point, half of the first none: both the rounding and the refusal by the integer column
`change` happen. Levels 1 and 3 are reached by one and by two awards. In *vouchers*
the prices are 100 and 202 VND, the discounts 50 and 10 percent, the tenders 50 and
202 VND: 50 VND cover the lower price while the first voucher is on it and not after
the second one has replaced it, which gives a negative change. Three requests are
enough for an award that drops its row while another creates it; an award that
overwrites another's needs a third one and is covered by the proof only. `MaxEdits`,
`MaxCompletions`, `MaxFaults` bound counters of `OrderEvents`; the second completion
is there because staff can complete an order twice. In `Inventory` two days are enough
for the "last remain" and the "remain of the day" to differ, an import of -1 makes a
remain negative, four calls for an import, a contracting and two changes of it. In
`OrderBoard` a page of one order has an order behind it that moves up when the first
is closed. In `Kiosk` one item at an opening of the menu is enough to tell two carts
apart, and two attempts for a result of the first to come in the second visit or tab.
In `Catalog` two requests are enough for a change to overtake a reader or another
change, and two standing promotions of any period for two activations to meet; a third
moment lets one period lie inside another. In `Customers` three requests make a code,
read it twice, or read it, replace it and use it; the third number is free, so that
numbers can be left and taken over. `SYMMETRY` is used where properties are safety
only and the permuted values are all alike. Each passing property has a mutant: a
plausible bug in one definition that makes TLC refute it within the same bounds.

## 5. Fairness

`OrderPayment`: Node resumes a handler whose `await` has settled (`WF` on
`Continue(r)` for each request), and VNPAY repeats an IPN call until it is answered
(`WF` on `GatewayCall`). Clients, customers and staff owe nothing. Liveness is
checked without failing `await`s, since no handler retries, and without vouchers,
new prices and deletions, which can make the amount of a link obsolete.

`OrderBoard`: requests that are being served go on, messages of a connection that
is up arrive, and fetches are answered, if not in order. `Kiosk`: the IPN call
arrives, and of the polls, one every three seconds, some get through; the customer
owes nothing. `Catalog`: begun requests and readers go on, and Redis drops a list
after its hour (`WF` on `Expire`); nobody has to load one.

`OrderEvents`: the broker accepts and delivers (`WF` on `Publish` of each event and
on `Deliver` or `Ack` of each queue), Node resumes the handlers (`WF` on the two
steps of each), and a crashed process is started again (`WF` on `Restart`). The last
is an assumption about the deployment, which the repository does not describe; it
matters only after a crash. Failures are never fair: `Reject` and `Crash` happen at
most `MaxFaults` times.

## 6. Findings

Two are runs that TLC refutes, with a quotation in `PROJECT.json`.

- **poison**: the consumption event of a deleted order is put back at the head of
  the queue for ever and blocks all others.
- **pricing**: `create` compares the row that a promotion is about with the number
  of the size, `updateItems` with nothing: a line with a size is created at its full
  price and gets a promotion's price, maybe that of another size, when the items of
  the order are edited, although a comment calls the two searches identical.

Others showed while the properties were written. The models contain them and the
properties allow or excuse exactly them, so that everything beside them is caught; for
those that a history variable marks, its name is given.

- A payment is checked when it is taken up and recorded later, whatever has happened to
  the order by then: two IPN calls for one charge are both recorded, because the first
  one's `updateStatus` is not awaited; an IPN call makes a canceled order paid, also
  when nothing overlaps (`vnpayIpn` looks for paid and completed only).
- Two overlapping payments lower their prices by the same voucher. Items replaced while
  a voucher is being put on the old ones keep a price of the old ones (`outdated`). Of
  two overlapping awards one is lost (`overlapped`).
- `payByCash` checks the amount before it applies its own voucher, which starts again
  from the original price: with a voucher, and only then (`ChangeMatchesQuote`),
  a negative change is recorded. A change with half a VND is refused by the column
  after the voucher was used up.
- A crash between the status and the broker loses the events of a completed order
  (`lost`). An event that finds no recipe, or no table, is acknowledged (`passes`); so
  is one that is handled while the recipe is being replaced (`recipe.service.ts:127`).
- Two contractings that overlap validate against the same remain and take out more
  than was imported, an overlapping import undoes a contracting, and calls about other
  days drift from the books (`regular`). An import below zero is accepted and can take
  the remain below zero.
- The kitchen list fetches one page of 100 orders: what is behind them is not shown.
  Numbers and answers overtake each other (`late`), and what is sent while a connection
  is down is missed until the next notice (`lost`). Every notice makes the kitchen list
  jump back to the oldest order (`Selection` in `OrderBoard`).
- The late answer of a face search sends the next customer to the payment page
  (`jumped`); one in a tab left behind stores its number under the next customer's
  order (`crossed`); a late result empties the next customer's cart (`strayed`).
- A promotion that lies inside a new one is not seen by the overlap check
  (`PeriodsApart` says that this is the only case). Two activations that overlap both
  succeed (`contested`). An offer of zero is shown as free and charged in full. Updating
  a product with sizes cuts the promotions off its sizes, silently. A list that was read
  before a change is stored after it, or its deletion fails (`outrun`); changes of
  promotions reach cached lists only by expiry.
- Two requests with the same code both reset the password, if both read it before
  either deletes it (`raced`), and the deletion may hit a newer code. A face is
  registered with any number that the request has, and logs in with it: after a change,
  or from a page that has not heard of one, it may be another customer's (`moved`). A
  registration that fails half way leaves provider and table apart (`torn`). Exchanging
  a voucher by its number takes it from whoever has it, and two customers may find the
  same one free (`contested`).

## 7. Proofs

Every safety property that a passing run checks is a theorem, for all values of the
constants; `PROJECT.json` ("theorems") pairs each with its property. `OrderPayment`
and `OrderEvents` were first; in each module the theorem `Invariant` is the
inductive invariant, and the lemmas above it take one action at a time. None of the
properties is inductive alone: each speaks of tables or screens, while the steps
depend on what suspended requests, messages on their way and unanswered fetches
hold. TLC checked each inductive invariant on the instances of section 4 before it
was proved.

Assumptions are those of the modules, and TLC evaluates them in every run. `Unit` is
positive, prices, tenders, levels and contractings are natural numbers, imports
integers in a unit small enough, discounts are percentages
from 0 to 100, clients and deliveries are different requests, targets are statuses,
bounds are natural numbers, null values are not in the sets they stand beside. Where
a property adds up over requests these are finitely many (`OrderPayment`,
`Inventory`), users and numbers are finite in `Customers`, which wants a number for
each user to begin with. Orders, vouchers, screens, readers and the amounts,
prices and tenders may be any sets. No theorem bounds the number of requests
that overlap.

`SumProofs` has the lemmas about sums (an element added, removed or changed, equal
terms) and about the least and greatest of a finite set of numbers.

`OrderPaymentProofs`
- `IInv` adds to the first properties what a request at a given `await` is known to
  have read and written (`RequestInv`: an IPN call that is about to make a payment
  detail still has the amount of a charged link, a request at `consume` has
  repriced, one at `invoice` has uploaded), that requests which have written
  something have left `idle`, so that their locals never change owner, and that an
  order which is paid or completed was marked so by a request (`SettledWasMarked`).
  Hence `TypeCorrect`, `DetailsBelong`, `OnlineDetailsCollected`,
  `VouchersBoughtDiscounts`, `InvoicesStored`, `GatewayStopsForReason`,
  `PaymentsStayAttached`.
- `PointsInv`, on top: a cash payment without a voucher still covers the price that
  it has read, and the points that an award has read were earned before it wrote
  anything (`AwardInv`). The second is what makes a lost award harmless to
  `PointsAreAlwaysBacked`: the later write is the sum of points that were earned and
  of the award's own bill.
- `OverlapInv`, on top, for `ChangesMatchQuotes`, `FinalsFollowOriginals` and
  `PointsStayComplete`: what a request has done when it comes to each `await`, and that
  the price of a cash payment is the one that it set out with, or will be when its
  voucher is on it (`CallInv`); that the original price which a request has read is still
  that of the order unless this is `outdated` (`PriceInv`); that the points which an
  award has read are still those of the customer unless he is `overlapped`
  (`TotalInv`).
- `HandlersKeepLedger`: `Init` maps to the ledger's, and each step of a handler, also a
  failing one, to a step of the ledger or a stutter, in every interleaving. It rests on
  all three: a request that is about to make a payment detail, to mark an order or to
  award points has not done so yet.

`OrderEventsProofs`
- `IInv` says that a consumer holds an order exactly if it is not idle (`JobInv`),
  that an order with acknowledged or finished events has as many batches and passes as those
  (`BatchPrecedesAck`, the gist of the refinement), that every event anywhere
  belongs to an order that was completed, and that lines which were read are not
  older than the completion (`EventsFollowCompletion`). Lemmas about occurrences in
  a sequence carry the counting for queues of any length. `TypeCorrect`,
  `EventsAreKept`, `RowsAreFollowing`, `ConsumptionIsAtLeastOnce`.
- `DueInv`, on top, for `WorkIsAlwaysDue`: the work done for an order and what its
  events in the outbox, the queue and the consumer may still cause are together at
  most the completions and failures so far. The property alone counts only what is
  done, so that no step could show it.

`InventoryProofs`. `RegularInv` gives the distance between the last remain and the
books at each `await` of the one regular call (`ServingInv`): a contracting that is
inserted and not yet stored, an importation whose row is still to be read, an
update whose remain is stored and whose quantity is not. Besides, no row is later
than today, and every contracting is about a day that has a row (`HasRow`), so that
a change of it writes the last one. `TypeCorrect`, `BalanceAlwaysAgrees`, and
`RemainsAreBacked`, for any interleaving, regular or not: as long as no import was below
zero, neither is a remain or a value that a request is about to write.

`CustomersProofs`. For `CodesAreGoodOnce`: no two requests that have found a code good
are on their way to set a password unless the code is marked as raced
(`ResetOnce`), and each password set is one request less to come. For
`FacesFindTheirOwners`: what the provider and the row have at each `await` of the one
registration under way (`RegistrationInv`), that a row keeps the number that came with
the registration, the user's own unless he is marked (`NumberInv`), and that a face is
in one row only. For
`VouchersKeepTheirOwners`: what `exchangeByGroup` found free is still free unless it
is marked as late (`VoucherInv`).

`CatalogProofs`. `ListsAreCurrent` rests on `StaleIsDeleted`, that whoever made a
stored list stale is still going to delete it, key by key, and on `QueriedIsCurrent`,
that a reader which was not overtaken holds the present prices. `PeriodsStayApart`
rests on `ComparedKeepOut`: none of the promotions that one was compared with gets in
its way, before it is inserted and after, however the other is changed.
`ShownPricesAreCharged` rests on `OneIsActive`: as long as activations do not overlap
one promotion is active at most, and a request that has found no other active is
about to activate the only one.

`KioskProofs`. Carts are of the menu that was opened last (`CartsAreOfThisMenu`), a
customer whom the present tab still looks for after checkout is the one of this visit
unless `jumped` (`LookupsAreOfThisVisit`), a number in the storage is of this visit or
marked as `crossed`, and the cart that the payment gets is the one
that the dialog showed, in three stages: stored, left at checkout, taken over
(`CartIsKept`). `VisitsStaySeparate`, `CartsReachPayment`.

`OrderBoardProofs`. A screen that will be right is not right yet, so the invariants
speak of the newest answer and the newest number: of the fetches of a list the last
is answered with the first page, or the list shows it (`ListFollows`), overtaken
fetches come first (`OvertakenFirst`); the last request to count has the right number
once no other is to count (`LastCountIsRight`), and the last number in the inbox of a
badge that no other overtook is that one, or the badge shows it (`BadgeFollows`).
`FreshLast` is the order that requests count and send in: whoever counted after a
request whose count is fresh is fresh. Hence `ListsAreRight`, `BadgesAreRight` for any
number of screens, requests and fetches.

Only model-checked: liveness and everything under fairness (`ChargeIsSettled`,
`PaidOrderIsInvoiced`, `EventsAreHandled`, `HealthyCompletionIsConsumed`,
`NewOrderIsShown`, `ChargedIsShown`, `PricesCatchUp`), because the prover has neither
`ENABLED` nor a way from weak fairness to a leads-to; and the two counterexamples,
which are facts about one instance.

## 8. Not modelled

- Queries, reports, layout of PDFs and mails, screens: they change no state.
- Catalogue tables without logic (categories, sizes, options, units): single-row
  create, read, update, delete.
- Tokens and password hashing: library code.
- Seeds and stress tests: tools.
- Stock-taking by hand (`material-remain`): the one screen that calls it
  (`inventoryService.ts`) sends a body that the validation of the DTO refuses. It may
  write any remain, so what `Inventory` shows is about the other handlers. Losses,
  which only write a log, and `getAvailableQuantity`, which nothing calls.
- Accounts: sign-up, log-in, roles, locks, profile data, each a single write; e-mail
  addresses, which `changeSensitiveInfo` may change as well, stand for their users.
- Products: pictures, options, toppings, recipes and the flag `isActive`, whose change
  deletes the lists like any other; search and paging, which only multiply the keys.
- The mails about a new promotion: one event whose handler mails customer after
  customer and is put back if one fails, so that the earlier ones are mailed again.
- The pages of the point of sale and of the administration: forms over the API.
- In `OrderEvents`: recipes, so that a handler may find nothing to store at any time;
  a restart of the broker itself; and mails that the mail service reports as failed in
  its result, which the handler ignores. A mail counts
  as sent when the call returns.
- In `Kiosk`: a customer who goes back to a tab that was left behind.
- In `OrderPayment`: changes of the loyalty levels while an award runs, and that a
  rejected `updateStatus` of an IPN call ends the process; each request in flight
  may fail by itself, which covers what is lost.
