----------------------------- MODULE OrderEvents -----------------------------
(***************************************************************************)
(* What happens in the background when an order is completed.              *)
(* updateStatus (Backend/src/order/order.service.ts) emits an e-mail event *)
(* and a material consumption event; RabbitMQ keeps each kind in a durable *)
(* queue and hands the process one event of a queue at a time              *)
(* (prefetchCount 1); the handlers in order.controller.ts and              *)
(* contracting.controller.ts acknowledge it, or put it back when they      *)
(* fail.  The process may crash at any time; the broker then puts back     *)
(* what was not acknowledged.                                              *)
(*                                                                         *)
(* The payment side of updateStatus is the subject of OrderPayment.        *)
(***************************************************************************)
EXTENDS Integers, Sequences, FiniteSets, FiniteSetsExt

CONSTANTS
    Orders,       \* order ids
    Targets,      \* statuses that PATCH /order/status is called with
    MaxEdits,     \* bound: changes of the items of one order
    MaxCompletions, \* bound: completions of all orders together
    MaxFaults,    \* bound: failed awaits and crashes
    NoOrder

OrderStatus == {"pending", "paid", "completed", "canceled", "refund", "shipping"}

ASSUME TargetAssumption == Targets \subseteq OrderStatus

ASSUME BoundAssumption == MaxEdits \in Nat /\ MaxCompletions \in Nat /\ MaxFaults \in Nat

ASSUME NullAssumption == NoOrder \notin Orders

Queues == {"consumption", "emails"}

VARIABLES
    order,        \* table orders: status, edition of the items, customerPhone
    outbox,       \* events emitted and not yet accepted by the broker
    queue,        \* the broker's queues
    job,          \* the event that the process works on, of each queue
    up,           \* the process runs
    batches,      \* table material_consumptions: batches of rows of each order
    rows,         \* ... and the editions of the items that they are about
    passes,       \* history: times that a handler found nothing to store, or no table
    mails,        \* e-mails handed to the mail service
    completions,  \* history: calls that moved an order to completed
    since,        \* history: the edition of the items at the first of them
    published,    \* history: events that the broker has accepted
    acked,        \* history: events that were acknowledged
    lost,         \* history: events that a crash has wiped out
    faults        \* failures so far

vars == <<order, outbox, queue, job, up, batches, rows, passes, mails,
          completions, since, published, acked, lost, faults>>

history == <<completions, since, published, acked, lost>>

-----------------------------------------------------------------------------
(* Types.                                                                  *)

Editions == 0..MaxEdits

OrderRow == [status : OrderStatus \cup {"absent", "deleted"}, edition : Editions,
             phone : BOOLEAN]

Stages == {"idle", "delivered", "prepared", "finished"}

Job == [stage : Stages, order : Orders \cup {NoOrder}, edition : Editions]

NoJob == [stage |-> "idle", order |-> NoOrder, edition |-> 0]

Counter == [Queues -> [Orders -> Nat]]

TypeOK ==
    /\ order \in [Orders -> OrderRow]
    /\ outbox \in Counter
    /\ queue \in [Queues -> Seq(Orders)]
    /\ job \in [Queues -> Job]
    /\ up \in BOOLEAN
    /\ batches \in [Orders -> Nat]
    /\ rows \subseteq Orders \X Editions
    /\ passes \in [Orders -> Nat]
    /\ mails \in [Orders -> Nat]
    /\ completions \in [Orders -> Nat]
    /\ since \in [Orders -> Editions]
    /\ published \in Counter
    /\ acked \in Counter
    /\ lost \subseteq Queues \X Orders
    /\ faults \in 0..MaxFaults

NoEvents == [q \in Queues |-> [o \in Orders |-> 0]]

Init ==
    /\ order = [o \in Orders |-> [status |-> "absent", edition |-> 0, phone |-> FALSE]]
    /\ outbox = NoEvents
    /\ queue = [q \in Queues |-> <<>>]
    /\ job = [q \in Queues |-> NoJob]
    /\ up = TRUE
    /\ batches = [o \in Orders |-> 0]
    /\ rows = {}
    /\ passes = [o \in Orders |-> 0]
    /\ mails = [o \in Orders |-> 0]
    /\ completions = [o \in Orders |-> 0]
    /\ since = [o \in Orders |-> 0]
    /\ published = NoEvents
    /\ acked = NoEvents
    /\ lost = {}
    /\ faults = 0

-----------------------------------------------------------------------------
(* The orders.                                                             *)

Exists(o) == order[o].status \in OrderStatus

events == <<outbox, queue, job, batches, rows, passes, mails, faults, up>>

Create(o, phone) ==
    /\ up
    /\ order[o].status = "absent"
    /\ order' = [order EXCEPT ![o] = [@ EXCEPT !.status = "pending", !.phone = phone]]
    /\ UNCHANGED <<events, history>>

\* updateItems replaces the rows of order_details.
UpdateItems(o) ==
    /\ up
    /\ Exists(o)
    /\ order[o].edition < MaxEdits
    /\ order' = [order EXCEPT ![o].edition = @ + 1]
    /\ UNCHANGED <<events, history>>

\* remove: events and consumption rows of the order stay behind.
Remove(o) ==
    /\ up
    /\ Exists(o)
    /\ order' = [order EXCEPT ![o].status = "deleted"]
    /\ UNCHANGED <<events, history>>

\* Mutant: every change of the status is announced.
NotifiedAlways(o, s) == {"consumption"} \cup (IF order[o].phone THEN {"emails"} ELSE {})

\* Mutant: one event or the other.
NotifiedOnce(o, s) ==
    IF s # "completed" THEN {} ELSE IF order[o].phone THEN {"emails"} ELSE {"consumption"}

\* The queues that hear of order o when it gets status s.
Notified(o, s) ==
    IF s = "completed"
    THEN {"consumption"} \cup (IF order[o].phone THEN {"emails"} ELSE {})
    ELSE {}

\* Every call that asks for "completed" emits, whatever the status was.  From
\* the commit of the status until the broker has the event, only the process
\* knows of it.
PatchStatus(o, s) ==
    /\ up
    /\ Exists(o)
    /\ s = "completed" =>
         MapThenSumSet(LAMBDA x : completions[x], Orders) < MaxCompletions
    /\ order' = [order EXCEPT ![o].status = s]
    /\ outbox' = [q \in Queues |->
                    [outbox[q] EXCEPT ![o] = IF q \in Notified(o, s) THEN @ + 1 ELSE @]]
    /\ completions' = [completions EXCEPT ![o] = IF s = "completed" THEN @ + 1 ELSE @]
    /\ since' = [since EXCEPT ![o] = IF s = "completed" /\ completions[o] = 0
                                     THEN order[o].edition ELSE @]
    /\ UNCHANGED <<queue, job, batches, rows, passes, mails, faults, up, published,
                   acked, lost>>

-----------------------------------------------------------------------------
(* RabbitMQ (external).                                                    *)

\* Mutant: an event is accepted again.
PublishAgain(q, o) ==
    /\ up
    /\ outbox' = [outbox EXCEPT ![q][o] = @ - 1]
    /\ queue' = [queue EXCEPT ![q] = Append(@, o)]
    /\ published' = [published EXCEPT ![q][o] = @ + 1]
    /\ UNCHANGED <<order, job, up, batches, rows, passes, mails, completions,
                   since, acked, lost, faults>>

\* The broker accepts an event.
Publish(q, o) ==
    /\ up
    /\ outbox[q][o] > 0
    /\ outbox' = [outbox EXCEPT ![q][o] = @ - 1]
    /\ queue' = [queue EXCEPT ![q] = Append(@, o)]
    /\ published' = [published EXCEPT ![q][o] = @ + 1]
    /\ UNCHANGED <<order, job, up, batches, rows, passes, mails, completions,
                   since, acked, lost, faults>>

\* Prefetch 1: the next event is delivered once the last is out of the way.
Deliver(q) ==
    /\ up
    /\ job[q].stage = "idle"
    /\ queue[q] # <<>>
    /\ job' = [job EXCEPT ![q] =
                 [stage |-> "delivered", order |-> Head(queue[q]), edition |-> 0]]
    /\ queue' = [queue EXCEPT ![q] = Tail(@)]
    /\ UNCHANGED <<order, outbox, up, batches, rows, passes, mails, history, faults>>

\* Mutant: nack without requeue.
Discarded(q) == queue' = queue

\* Where an event goes that is put back: to the place that it came from.
PutBack(q) == queue' = [queue EXCEPT ![q] = <<job[q].order>> \o @]

-----------------------------------------------------------------------------
(* The handlers.                                                           *)

Busy(q, stage) == up /\ job[q].stage = stage

Enter(q, stage) == job' = [job EXCEPT ![q].stage = stage]

unmoved == <<order, outbox, up, history, faults>>

\* Mutant: an order that is gone is skipped.
SkipMissingOrder ==
    LET o == job["consumption"].order IN
    /\ Busy("consumption", "delivered")
    /\ job' = [job EXCEPT !["consumption"] =
                 IF Exists(o) THEN [@ EXCEPT !.stage = "prepared", !.edition = order[o].edition]
                              ELSE [@ EXCEPT !.stage = "finished"]]
    /\ UNCHANGED <<unmoved, queue, batches, rows, passes, mails>>

\* Mutant: the items are the ones that the order was created with.
ReadFirstLines ==
    LET o == job["consumption"].order IN
    /\ Busy("consumption", "delivered")
    /\ Exists(o)
    /\ Enter("consumption", "prepared")
    /\ UNCHANGED <<unmoved, queue, batches, rows, passes, mails>>

\* handleMaterialConsumption reads the order with its items and recipes.  If
\* there is none it throws: nack with requeue.  If no recipe applies to an item
\* at that moment it returns without a row; recipes are kept elsewhere and may
\* change at any time.
ReadOrderLines ==
    LET o == job["consumption"].order IN
    /\ Busy("consumption", "delivered")
    /\ \/ /\ ~Exists(o)
          /\ PutBack("consumption")
          /\ job' = [job EXCEPT !["consumption"] = NoJob]
          /\ UNCHANGED passes
       \/ /\ Exists(o)
          /\ job' = [job EXCEPT !["consumption"] =
                       [@ EXCEPT !.stage = "prepared", !.edition = order[o].edition]]
          /\ UNCHANGED <<queue, passes>>
       \/ /\ Exists(o)
          /\ Enter("consumption", "finished")
          /\ passes' = [passes EXCEPT ![o] = @ + 1]
          /\ UNCHANGED queue
    /\ UNCHANGED <<unmoved, batches, rows, mails>>

\* All consumption rows are written by one createMany, which does not look for
\* rows that an earlier delivery has written.  Where the migration that creates
\* the table has not been applied (P2021) nothing is written, and the handler
\* returns as if it were.
StoreConsumption ==
    LET j == job["consumption"] IN
    /\ Busy("consumption", "prepared")
    /\ \/ /\ batches' = [batches EXCEPT ![j.order] = @ + 1]
          /\ rows' = rows \cup {<<j.order, j.edition>>}
          /\ UNCHANGED passes
       \/ /\ passes' = [passes EXCEPT ![j.order] = @ + 1]
          /\ UNCHANGED <<batches, rows>>
    /\ Enter("consumption", "finished")
    /\ UNCHANGED <<unmoved, queue, mails>>

\* Mutant: an order that is gone is an error.
FailOnMissingOrder ==
    /\ Busy("emails", "delivered")
    /\ IF Exists(job["emails"].order)
       THEN Enter("emails", "prepared") /\ queue' = queue
       ELSE PutBack("emails") /\ job' = [job EXCEPT !["emails"] = NoJob]
    /\ UNCHANGED <<unmoved, batches, rows, passes, mails>>

\* sendOrderCompletionEmail: a customer without an e-mail address, or an order
\* that is gone, is skipped without failing.
PrepareMail ==
    /\ Busy("emails", "delivered")
    /\ \/ Enter("emails", "finished")
       \/ Exists(job["emails"].order) /\ Enter("emails", "prepared")
    /\ UNCHANGED <<unmoved, queue, batches, rows, passes, mails>>

SendMail ==
    /\ Busy("emails", "prepared")
    /\ mails' = [mails EXCEPT ![job["emails"].order] = @ + 1]
    /\ Enter("emails", "finished")
    /\ UNCHANGED <<unmoved, queue, batches, rows, passes>>

\* The handler has returned: the event is acknowledged.
Ack(q) ==
    /\ Busy(q, "finished")
    /\ job' = [job EXCEPT ![q] = NoJob]
    /\ acked' = [acked EXCEPT ![q][job[q].order] = @ + 1]
    /\ UNCHANGED <<order, outbox, queue, up, batches, rows, passes, mails,
                   completions, since, published, lost, faults>>

\* An await of the handler rejects, possibly after its write was committed:
\* the event is put back.
Reject(q) ==
    /\ up
    /\ job[q].stage # "idle"
    /\ faults < MaxFaults
    /\ faults' = faults + 1
    /\ PutBack(q)
    /\ job' = [job EXCEPT ![q] = NoJob]
    /\ UNCHANGED <<order, outbox, up, batches, rows, passes, mails, history>>

\* The process dies: the broker puts back what was not acknowledged, and the
\* events that it has not accepted are gone.
Crash ==
    /\ up
    /\ faults < MaxFaults
    /\ faults' = faults + 1
    /\ up' = FALSE
    /\ outbox' = NoEvents
    /\ lost' = lost \cup {e \in Queues \X Orders : outbox[e[1]][e[2]] > 0}
    /\ queue' = [q \in Queues |-> IF job[q].stage = "idle" THEN queue[q]
                                  ELSE <<job[q].order>> \o queue[q]]
    /\ job' = [q \in Queues |-> NoJob]
    /\ UNCHANGED <<order, batches, rows, passes, mails, completions, since, published,
                   acked>>

Restart ==
    /\ ~up
    /\ up' = TRUE
    /\ UNCHANGED <<order, outbox, queue, job, batches, rows, passes, mails, history,
                   faults>>

-----------------------------------------------------------------------------

\* What Node and the broker do by themselves on queue q.
Background(q) ==
    \/ \E o \in Orders : Publish(q, o)
    \/ Deliver(q)
    \/ Ack(q)
    \/ q = "consumption" /\ (ReadOrderLines \/ StoreConsumption)
    \/ q = "emails" /\ (PrepareMail \/ SendMail)

Staff ==
    \E o \in Orders :
        \/ \E phone \in BOOLEAN : Create(o, phone)
        \/ UpdateItems(o)
        \/ Remove(o)
        \/ \E s \in Targets : PatchStatus(o, s)

Next ==
    \/ Staff
    \/ \E q \in Queues : Background(q) \/ Reject(q)
    \/ Crash
    \/ Restart

Spec == Init /\ [][Next]_vars

\* The broker accepts and delivers events, Node resumes the handlers, and the
\* process is restarted.  Staff owe nothing.
Fairness ==
    /\ \A q \in Queues :
         /\ \A o \in Orders : WF_vars(Publish(q, o))
         /\ WF_vars(Deliver(q) \/ Ack(q))
    /\ WF_vars(ReadOrderLines \/ StoreConsumption)
    /\ WF_vars(PrepareMail \/ SendMail)
    /\ WF_vars(Restart)

FairSpec == Spec /\ Fairness

-----------------------------------------------------------------------------
(* Properties.                                                             *)

\* The times that the work of queue q was done for order o.
Done(q, o) == IF q = "consumption" THEN batches[o] ELSE mails[o]

\* An order is charged to the material stock, and its customer is mailed, at
\* most once per completion; only a failure can add one repetition, and an
\* order that was never completed causes neither (updateStatus,
\* calculateAndStoreConsumption, sendOrderCompletionEmail).
WorkIsDue ==
    \A q \in Queues, o \in Orders :
        Done(q, o) <= IF completions[o] = 0 THEN 0 ELSE completions[o] + faults

\* The items that are charged to the stock are items that the order had when
\* it was completed or later, never older ones (updateStatus, updateItems,
\* calculateAndStoreConsumption).
RowsFollowCompletion ==
    \A row \in rows : completions[row[1]] > 0 /\ row[2] >= since[row[1]]

Places(s, o) == {i \in 1..Len(s) : s[i] = o}

Waiting(q, o) == Cardinality(Places(queue[q], o))

InHand(q, o) == IF job[q].order = o THEN 1 ELSE 0

\* An event that the broker has accepted is acknowledged, in a queue or in the
\* process, whatever fails: none is lost and none is there twice
\* (handleOrderCompletedEmail, handleMaterialConsumption, main.ts).
NoEventIsLost ==
    \A q \in Queues, o \in Orders :
        published[q][o] = acked[q][o] + Waiting(q, o) + InHand(q, o)

Consumption == INSTANCE AtLeastOnce WITH
    Jobs <- Orders,
    submitted <- published["consumption"],
    performed <- [o \in Orders |-> batches[o] + passes[o]],
    retired <- acked["consumption"]

\* The consumption queue, its handler and its acknowledgements are an
\* at-least-once work queue: no event is acknowledged before its rows are in
\* the table, or its handler has found that no recipe applies or that there is
\* no table (calculateAndStoreConsumption, handleMaterialConsumption).
ConsumptionAtLeastOnce == Consumption!Spec

SomeOrderDeleted == \E o \in Orders : order[o].status = "deleted"

\* Every accepted event is acknowledged in the end, through failed awaits and
\* crashes; consumption events unless an order has been deleted, e-mail events
\* even then (handleOrderCompletedEmail, handleMaterialConsumption).
EventsAreHandled ==
    \A q \in Queues, o \in Orders :
        published[q][o] > acked[q][o] ~>
            \/ published[q][o] = acked[q][o]
            \/ q = "consumption" /\ SomeOrderDeleted

\* A completed order is charged to the stock unless its handler finds that no
\* recipe applies to its items or that there is no table, a crash has wiped out
\* its event, or an order is deleted (updateStatus, calculateAndStoreConsumption).
HealthyCompletionIsConsumed ==
    \A o \in Orders :
        order[o].status = "completed" ~>
            \/ batches[o] > 0
            \/ passes[o] > 0
            \/ <<"consumption", o>> \in lost
            \/ SomeOrderDeleted

\* "Calculate material consumption when order is COMPLETED" (updateStatus): a
\* completed order is charged to the stock, or its handler finds nothing to
\* store or no table, if no crash wipes out its event.
CompletedIsConsumed ==
    \A o \in Orders :
        order[o].status = "completed" ~>
            \/ batches[o] > 0
            \/ passes[o] > 0
            \/ <<"consumption", o>> \in lost
            \/ order[o].status = "deleted"
=============================================================================
