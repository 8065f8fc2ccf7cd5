----------------------------- MODULE OrderBoard -----------------------------
(***************************************************************************)
(* What the staff see of the open orders.  The backend announces changes   *)
(* over Socket.IO (Backend/src/order/order.service.ts, create,             *)
(* updateStatus and remove; events/events.gateway.ts).  Two kinds of       *)
(* screens listen:                                                         *)
(*   - the kitchen list (fe-coffetek-new/src/app/pos/orders-processing/    *)
(*     page.tsx) fetches the first page of open orders anew on every       *)
(*     notice,                                                             *)
(*   - a badge (BadgeProcessOrderCountDisplay, ProcessOrderCountDisplay)   *)
(*     shows the number that the notice carries.                           *)
(* Socket.IO keeps the order of the messages of a connection and drops     *)
(* what is sent while it is down; answers of the HTTP API may arrive in    *)
(* any order.                                                              *)
(*                                                                         *)
(* Payments are the subject of OrderPayment: here a status just changes.   *)
(***************************************************************************)
EXTENDS Integers, Sequences, FiniteSets, SequencesExt

CONSTANTS
    MaxOrders,     \* bound: orders, numbered as they are created
    MaxRequests,   \* bound: HTTP requests that change an order, numbered as they begin
    Lists,         \* kitchen lists
    Badges,        \* badges
    PageSize,      \* orders on the page that a list fetches (100 in the code)
    Targets,       \* statuses that PATCH /order/status is called with
    Ops,           \* handlers that are called
    MaxInFlight,   \* bound: such requests being served at the same time
    MaxFetches,    \* bound: fetches that one list waits for
    MaxOpen,       \* bound: screens that are opened
    MaxDrops,      \* bound: connections that break
    MayFail,       \* TRUE if an await may reject
    NoOrder, NoList, NoCount

OrderStatus == {"pending", "paid", "completed", "canceled"}

ASSUME BoundAssumption ==
    /\ MaxOrders \in Nat /\ MaxRequests \in Nat /\ MaxFetches \in Nat /\ MaxOpen \in Nat
    /\ MaxDrops \in Nat /\ PageSize \in Nat

ASSUME TargetAssumption == Targets \subseteq OrderStatus

ASSUME NullAssumption ==
    /\ NoOrder \notin Nat /\ NoCount \notin Nat
    /\ NoList \notin Lists
    /\ Lists \cap Badges = {}

VARIABLES
    status,        \* table orders
    pc,            \* the await that each request is suspended on
    loc,           \* local variables of each request
    open,          \* screens whose component is mounted
    online,        \* screens whose socket is connected
    notices,       \* messages on their way to each list
    fetches,       \* fetches that each list waits for, as they were asked
    shown,         \* the orders that each list shows
    selected,      \* the order that each list shows in full
    inbox,         \* numbers on their way to each badge
    initial,       \* the first fetch of each badge
    badge,         \* the number that each badge shows
    counted,       \* history: requests that counted and have not sent, in order
    silent,        \* history: a change is not announced by any later notice
    lost,          \* history: screens that missed a message or an answer and got none since
    late,          \* history: screens that an older answer or number came last to
    drops          \* connections broken so far

server == <<status, pc, loc, counted, silent>>

listVars == <<notices, fetches, shown, selected>>

badgeVars == <<inbox, initial, badge>>

vars == <<server, listVars, badgeVars, open, online, lost, late, drops>>

-----------------------------------------------------------------------------
(* Types.                                                                  *)

Orders == 1..MaxOrders

Requests == 1..MaxRequests

NoRequest == 0

Screens == Lists \cup Badges

\* The orders that a query returns, with their statuses; the others are
\* "closed".
Views == [Orders -> {"pending", "paid", "closed"}]

Suspended == {"write", "rest", "count", "send"}

Labels == {"idle", "done", "failed"} \cup Suspended

Local == [order : Orders \cup {NoOrder}, to : OrderStatus \cup {"new", "deleted"},
          list : Lists \cup {NoList},           \* the screen that calls
          others : SUBSET Orders,               \* what else it showed then
          count : 0..MaxOrders,
          fresh : BOOLEAN]       \* nothing went unannounced since it was counted

Fetch == [answered : BOOLEAN, view : Views,
          auto : BOOLEAN,                       \* nothing is selected, as far as it knows
          by : Requests \cup {NoRequest},       \* the click that waits for it
          overtaken : BOOLEAN]

Number == [count : 0..MaxOrders, overtaken : BOOLEAN]

FirstFetch == [state : {"none", "asked", "answered"}, count : 0..MaxOrders, overtaken : BOOLEAN]

TypeOK ==
    /\ status \in [Orders -> OrderStatus \cup {"absent", "deleted"}]
    /\ pc \in [Requests -> Labels]
    /\ loc \in [Requests -> Local]
    /\ open \subseteq Screens
    /\ online \subseteq Screens
    /\ notices \in [Lists -> Nat]
    /\ fetches \in [Lists -> Seq(Fetch)]
    /\ shown \in [Lists -> Views]
    /\ selected \in [Lists -> Orders \cup {NoOrder}]
    /\ inbox \in [Badges -> Seq(Number)]
    /\ initial \in [Badges -> FirstFetch]
    /\ badge \in [Badges -> 0..MaxOrders \cup {NoCount}]
    /\ counted \in Seq(Requests)
    /\ silent \in BOOLEAN
    /\ lost \subseteq Screens
    /\ late \subseteq Screens
    /\ drops \in 0..MaxDrops

Init ==
    /\ \E n \in 0..MaxOrders :
         status = [o \in Orders |-> IF o <= n THEN "pending" ELSE "absent"]
    /\ pc = [r \in Requests |-> "idle"]
    /\ loc = [r \in Requests |-> [order |-> NoOrder, to |-> "new", list |-> NoList,
                                  others |-> {}, count |-> 0, fresh |-> FALSE]]
    /\ open = {}
    /\ online = Screens
    /\ notices = [s \in Lists |-> 0]
    /\ fetches = [s \in Lists |-> <<>>]
    /\ shown = [s \in Lists |-> [o \in Orders |-> "closed"]]
    /\ selected = [s \in Lists |-> NoOrder]
    /\ inbox = [b \in Badges |-> <<>>]
    /\ initial = [b \in Badges |-> [state |-> "none", count |-> 0, overtaken |-> FALSE]]
    /\ badge = [b \in Badges |-> NoCount]
    /\ counted = <<>>
    /\ silent = FALSE
    /\ lost = {}
    /\ late = {}
    /\ drops = 0

-----------------------------------------------------------------------------
(* The backend.                                                            *)

InFlight == {r \in Requests : pc[r] \in Suspended}

Goto(r, label) == pc' = [pc EXCEPT ![r] = label]

Starts(r, op) ==
    /\ pc[r] = "idle" /\ \A x \in Requests : x < r => pc[x] # "idle"
    /\ op \in Ops
    /\ Cardinality(InFlight) < MaxInFlight

Exists(o) == status[o] \in OrderStatus

IsOpen(o) == status[o] \in {"pending", "paid"}

\* order.count of the open orders (broadcastProcessOrderCount,
\* getProcessOrderCount).
OpenCount == Cardinality({o \in Orders : IsOpen(o)})

\* The first page in the order of creation.
IsOnPage(o) == IsOpen(o) /\ Cardinality({x \in Orders : x < o /\ IsOpen(x)}) < PageSize

\* Mutants of OpenOrders: no filter, the newest first.
AllOrders == status

NewestOrders ==
    [o \in Orders |-> IF IsOpen(o) /\ Cardinality({x \in Orders : x > o /\ IsOpen(x)}) < PageSize
                      THEN status[o] ELSE "closed"]

\* getAll with page 1, orderBy created_at, ascending, and searchStatuses
\* "paid,pending".
OpenOrders == [o \in Orders |-> IF IsOnPage(o) THEN status[o] ELSE "closed"]

\* The event reaches every connection that is up; a list hears both events, a
\* badge the number only.
NoticeToLists ==
    notices' = [s \in Lists |-> IF s \in open \cap online THEN notices[s] + 1 ELSE notices[s]]

NumberToBadges(n) ==
    inbox' = [b \in Badges |-> IF b \in open \cap online THEN Append(inbox[b], n) ELSE inbox[b]]

Missing == open \ online

\* create: the transaction commits; the next order is the youngest.
Create(r, o) ==
    /\ Starts(r, "create")
    /\ status[o] = "absent"
    /\ \A x \in Orders : x < o => status[x] # "absent"
    /\ status' = [status EXCEPT ![o] = "pending"]
    /\ loc' = [loc EXCEPT ![r].order = o]
    /\ Goto(r, "rest")
    /\ UNCHANGED <<listVars, badgeVars, open, online, counted, silent, lost, late, drops>>

\* broadcastNewOrder, before the orders are counted.
BroadcastNewOrder(r) ==
    /\ pc[r] = "rest"
    /\ loc[r].to = "new"
    /\ NoticeToLists
    /\ lost' = lost \cup (Missing \cap Lists)
    /\ Goto(r, "count")
    /\ UNCHANGED <<status, loc, fetches, shown, selected, badgeVars, open, online,
                   counted, silent, late, drops>>

\* A call of updateStatus that no list makes: another screen, or an IPN.
UpdateStatus(r, o, s) ==
    /\ Starts(r, "status")
    /\ Exists(o)
    /\ loc' = [loc EXCEPT ![r] = [@ EXCEPT !.order = o, !.to = s]]
    /\ Goto(r, "write")
    /\ UNCHANGED <<status, listVars, badgeVars, open, online, counted, silent, lost, late, drops>>

RemoveOrder(r, o) ==
    /\ Starts(r, "remove")
    /\ Exists(o)
    /\ loc' = [loc EXCEPT ![r] = [@ EXCEPT !.order = o, !.to = "deleted"]]
    /\ Goto(r, "write")
    /\ UNCHANGED <<status, listVars, badgeVars, open, online, counted, silent, lost, late, drops>>

\* Mutant: removing an order is not announced.
AfterWriteOfStatus(s) == IF s = "deleted" THEN "done" ELSE "rest"

\* What follows the write: remove counts at once, updateStatus has the invoice,
\* the points and the events to see to first.
AfterWrite(s) == IF s = "deleted" THEN "count" ELSE "rest"

\* updateStatus and remove write the row, which must be there.
WriteOrder(r) ==
    LET o == loc[r].order IN
    /\ pc[r] = "write"
    /\ IF Exists(o)
       THEN /\ status' = [status EXCEPT ![o] = loc[r].to]
            /\ Goto(r, AfterWrite(loc[r].to))
       ELSE status' = status /\ Goto(r, "failed")
    /\ UNCHANGED <<loc, listVars, badgeVars, open, online, counted, silent, lost, late, drops>>

FinishStatus(r) ==
    /\ pc[r] = "rest"
    /\ loc[r].to # "new"
    /\ Goto(r, "count")
    /\ UNCHANGED <<status, loc, listVars, badgeVars, open, online, counted, silent, lost, late,
                   drops>>

\* broadcastProcessOrderCount counts ...
CountOrders(r) ==
    /\ pc[r] = "count"
    /\ loc' = [loc EXCEPT ![r] = [@ EXCEPT !.count = OpenCount, !.fresh = TRUE]]
    /\ counted' = Append(counted, r)
    /\ Goto(r, "send")
    /\ UNCHANGED <<status, listVars, badgeVars, open, online, silent, lost, late, drops>>

\* ... and sends the number to all.  By then another request may have counted
\* later and sent before.
SendCount(r) ==
    /\ pc[r] = "send"
    /\ NoticeToLists
    /\ NumberToBadges([count |-> loc[r].count, overtaken |-> r \notin Range(counted)])
    /\ counted' = IF r \in Range(counted)
                  THEN SubSeq(counted, 1 + SelectInSeq(counted, LAMBDA x : x = r), Len(counted))
                  ELSE counted
    /\ silent' = (silent /\ ~loc[r].fresh)
    /\ lost' = lost \cup Missing
    /\ loc' = [loc EXCEPT ![r] = [@ EXCEPT !.count = 0, !.fresh = FALSE]]
    /\ Goto(r, "done")
    /\ UNCHANGED <<status, fetches, shown, selected, initial, badge, open, online, late, drops>>

\* The await that r is suspended on rejects.  What updateStatus had written
\* stays; an error of the count is swallowed.
Abort(r) ==
    /\ MayFail
    /\ \/ pc[r] \in {"write", "count"}
       \/ pc[r] = "rest" /\ loc[r].to # "new"
    /\ Goto(r, IF pc[r] = "count" THEN "done" ELSE "failed")
    /\ IF pc[r] = "write"
       THEN UNCHANGED <<silent, loc>>
       ELSE /\ silent' = TRUE
            /\ loc' = [x \in Requests |-> [loc[x] EXCEPT !.fresh = FALSE]]
    /\ UNCHANGED <<status, listVars, badgeVars, open, online, counted, lost, late, drops>>

-----------------------------------------------------------------------------
(* Kitchen lists.                                                          *)

Ask(s, auto, r) ==
    /\ Len(fetches[s]) < MaxFetches
    /\ fetches' = [fetches EXCEPT ![s] = Append(@,
                     [answered |-> FALSE, view |-> [o \in Orders |-> "closed"], auto |-> auto,
                      by |-> r, overtaken |-> FALSE])]

\* The page is opened: it fetches the orders and listens.
OpenList(s) ==
    /\ s \notin open /\ Cardinality(open) < MaxOpen
    /\ open' = open \cup {s}
    /\ Ask(s, TRUE, NoRequest)
    /\ UNCHANGED <<server, badgeVars, notices, shown, selected, online, lost, late,
                   drops>>

\* Mutant: a notice is skipped while an answer is awaited.
TakeNoticeUnlessLoading(s) ==
    /\ notices[s] > 0
    /\ notices' = [notices EXCEPT ![s] = @ - 1]
    /\ IF fetches[s] = <<>> THEN Ask(s, TRUE, NoRequest) ELSE fetches' = fetches
    /\ lost' = lost \ {s}
    /\ UNCHANGED <<server, badgeVars, shown, selected, open, online, late, drops>>

\* handleNewOrder and handleProcessOrderCount fetch.  They belong to the first
\* rendering of the page, in which nothing was selected.
TakeNotice(s) ==
    /\ notices[s] > 0
    /\ notices' = [notices EXCEPT ![s] = @ - 1]
    /\ Ask(s, TRUE, NoRequest)
    /\ lost' = lost \ {s}
    /\ UNCHANGED <<server, badgeVars, shown, selected, open, online, late, drops>>

\* The backend reads the orders for fetch i.
AnswerFetch(s, i) ==
    /\ ~fetches[s][i].answered
    /\ fetches' = [fetches EXCEPT ![s][i] = [@ EXCEPT !.answered = TRUE, !.view = OpenOrders]]
    /\ UNCHANGED <<server, badgeVars, notices, shown, selected, open, online, lost, late,
                   drops>>

Listed(view) == {o \in Orders : view[o] # "closed"}

\* Oldest first.
FirstOf(orders) == CHOOSE o \in orders : \A x \in orders : o <= x

\* What is selected after list s has got answer f.  setSelectedOrderId of
\* fetchOrders comes first; the click then looks at what the list showed when
\* it was made.
Selection(s, f) ==
    IF f.by # NoRequest /\ loc[f.by].to \in {"completed", "canceled"}
    THEN IF loc[f.by].others # {} THEN FirstOf(loc[f.by].others) ELSE NoOrder
    ELSE IF f.auto /\ Listed(f.view) # {} THEN FirstOf(Listed(f.view))
    ELSE selected[s]

\* The answers that were asked for before answer i, and are still to come.
WithoutAnswer(q, i) ==
    RemoveAt([j \in DOMAIN q |-> [q[j] EXCEPT !.overtaken = @ \/ j < i]], i)

\* setOrders: the list shows the answer that came last, not the one that was
\* asked for last.
ShowOrders(s, i) ==
    LET f == fetches[s][i] IN
    /\ f.answered
    /\ shown' = [shown EXCEPT ![s] = f.view]
    /\ selected' = [selected EXCEPT ![s] = Selection(s, f)]
    /\ fetches' = [fetches EXCEPT ![s] = WithoutAnswer(@, i)]
    /\ late' = IF f.overtaken THEN late \cup {s} ELSE late \ {s}
    /\ UNCHANGED <<server, badgeVars, notices, open, online, lost, drops>>

\* A failed fetch is only logged: the list stays as it is.  A click goes on.
FailFetch(s, i) ==
    LET f == fetches[s][i] IN
    /\ MayFail
    /\ fetches' = [fetches EXCEPT ![s] = RemoveAt(@, i)]
    /\ selected' = [selected EXCEPT ![s] =
                      IF f.by = NoRequest THEN @ ELSE Selection(s, [f EXCEPT !.auto = FALSE])]
    /\ lost' = lost \cup {s}
    /\ UNCHANGED <<server, badgeVars, notices, shown, open, online, late, drops>>

\* The user picks another order (OrderQueue).
Select(s, o) ==
    /\ o \in Listed(shown[s]) \ {selected[s]}
    /\ selected' = [selected EXCEPT ![s] = o]
    /\ UNCHANGED <<server, badgeVars, notices, fetches, shown, open, online, lost, late,
                   drops>>

NextStatus(status_) == IF status_ = "pending" THEN {"paid", "canceled"} ELSE {"completed", "canceled"}

\* A button of KitchenOrderDisplay, which goes by the status that it shows.  The
\* buttons are locked while a call lasts, but come back with the next order.
ClickStatus(s, r, to) ==
    LET o == selected[s] IN
    /\ Starts(r, "click")
    /\ o \in Listed(shown[s])
    /\ to \in NextStatus(shown[s][o])
    /\ loc' = [loc EXCEPT ![r] = [@ EXCEPT !.order = o, !.to = to, !.list = s,
                                           !.others = Listed(shown[s]) \ {o}]]
    /\ Goto(r, "write")
    /\ UNCHANGED <<status, listVars, badgeVars, open, online, counted, silent, lost, late, drops>>

\* handleStatusChange goes on when updateStatus has answered: it fetches, unless
\* the call failed.
FinishClick(s, r) ==
    /\ loc[r].list = s
    /\ pc[r] \in {"done", "failed"}
    /\ loc' = [loc EXCEPT ![r].list = NoList]
    /\ IF pc[r] = "done"
       THEN Ask(s, FALSE, r) /\ lost' = lost \ {s}
       ELSE UNCHANGED <<fetches, lost>>
    /\ UNCHANGED <<status, pc, counted, silent, badgeVars, notices, shown, selected, open,
                   online, late, drops>>

-----------------------------------------------------------------------------
(* Badges.                                                                 *)

\* The badge is mounted: it asks for the number once and listens.
OpenBadge(b) ==
    /\ b \notin open /\ Cardinality(open) < MaxOpen
    /\ open' = open \cup {b}
    /\ initial' = [initial EXCEPT ![b].state = "asked"]
    /\ UNCHANGED <<server, listVars, inbox, badge, online, lost, late, drops>>

\* getProcessOrderCount.
AnswerCount(b) ==
    /\ initial[b].state = "asked"
    /\ initial' = [initial EXCEPT ![b] = [@ EXCEPT !.state = "answered", !.count = OpenCount]]
    /\ UNCHANGED <<server, listVars, inbox, badge, open, online, lost, late, drops>>

Shows(b, n, overtaken) ==
    /\ badge' = [badge EXCEPT ![b] = n]
    /\ late' = IF overtaken THEN late \cup {b} ELSE late \ {b}

\* The first answer is shown whatever has been shown before.
ShowFirstCount(b) ==
    /\ initial[b].state = "answered"
    /\ initial' = [initial EXCEPT ![b].state = "none"]
    /\ Shows(b, initial[b].count, initial[b].overtaken)
    /\ UNCHANGED <<server, listVars, inbox, open, online, lost, drops>>

\* An error shows as zero.
FailFirstCount(b) ==
    /\ MayFail
    /\ initial[b].state # "none"
    /\ initial' = [initial EXCEPT ![b].state = "none"]
    /\ badge' = [badge EXCEPT ![b] = 0]
    /\ lost' = lost \cup {b}
    /\ UNCHANGED <<server, listVars, inbox, open, online, late, drops>>

\* onOrderCountUpdateSocket.  Nobody fetches the number again.
TakeNumber(b) ==
    /\ inbox[b] # <<>>
    /\ inbox' = [inbox EXCEPT ![b] = Tail(@)]
    /\ initial' = [initial EXCEPT ![b].overtaken = TRUE]
    /\ Shows(b, Head(inbox[b]).count, Head(inbox[b]).overtaken)
    /\ lost' = lost \ {b}
    /\ UNCHANGED <<server, listVars, open, online, drops>>

-----------------------------------------------------------------------------
(* Connections (external).                                                 *)

\* What is on its way is lost.
Disconnect(s) ==
    /\ s \in open \cap online
    /\ drops < MaxDrops
    /\ drops' = drops + 1
    /\ online' = online \ {s}
    /\ notices' = [x \in Lists |-> IF x = s THEN 0 ELSE notices[x]]
    /\ inbox' = [x \in Badges |-> IF x = s THEN <<>> ELSE inbox[x]]
    /\ lost' = IF notices' = notices /\ inbox' = inbox THEN lost ELSE lost \cup {s}
    /\ UNCHANGED <<server, fetches, shown, selected, initial, badge, open, late>>

\* Socket.IO connects again by itself; no screen fetches on that occasion.
Reconnect(s) ==
    /\ s \in Screens \ online
    /\ online' = online \cup {s}
    /\ UNCHANGED <<server, listVars, badgeVars, open, lost, late, drops>>

-----------------------------------------------------------------------------

Serve(r) ==
    \/ BroadcastNewOrder(r) \/ WriteOrder(r) \/ FinishStatus(r)
    \/ CountOrders(r) \/ SendCount(r)

Call(r) ==
    \E o \in Orders : Create(r, o) \/ RemoveOrder(r, o) \/ \E t \in Targets : UpdateStatus(r, o, t)

ListStep(s) ==
    \/ TakeNotice(s)
    \/ \E i \in DOMAIN fetches[s] : AnswerFetch(s, i) \/ ShowOrders(s, i)
    \/ \E r \in Requests : FinishClick(s, r)

BadgeStep(b) == AnswerCount(b) \/ ShowFirstCount(b) \/ TakeNumber(b)

User(s) ==
    \/ OpenList(s)
    \/ \E o \in Orders : Select(s, o)
    \/ \E r \in Requests, to \in OrderStatus : ClickStatus(s, r, to)

Network ==
    \/ \E s \in Screens : Disconnect(s) \/ Reconnect(s)
    \/ \E s \in Lists : \E i \in DOMAIN fetches[s] : FailFetch(s, i)
    \/ \E b \in Badges : FailFirstCount(b)

Next ==
    \/ \E r \in Requests : Call(r) \/ Serve(r) \/ Abort(r)
    \/ \E s \in Lists : ListStep(s) \/ User(s)
    \/ \E b \in Badges : BadgeStep(b) \/ OpenBadge(b)
    \/ Network

Spec == Init /\ [][Next]_vars

\* Awaits of the backend end, messages and answers arrive, screens react to them.
FairSpec ==
    /\ Spec
    /\ \A r \in Requests : WF_vars(Serve(r))
    /\ \A s \in Lists : WF_vars(ListStep(s))
    /\ \A b \in Badges : WF_vars(BadgeStep(b))

-----------------------------------------------------------------------------
(* Properties.                                                             *)

\* No change of an order is being served.
Settled == InFlight = {} /\ ~silent

\* A kitchen list that missed nothing since the last notice that it heard, and
\* whose last answer was not overtaken, shows exactly the oldest open orders, a
\* page of them, with their statuses (the notices of create, updateStatus and
\* remove; fetchOrders).
ListIsRight ==
    \A s \in (Lists \cap open) \ (lost \cup late) :
        Settled /\ notices[s] = 0 /\ fetches[s] = <<>> => shown[s] = OpenOrders

\* A badge that missed nothing since the last number that it took, and to which
\* no number came after one that was counted later, shows how many orders are
\* open, also when its first fetch fell among the notices: one number makes good
\* what was lost before (broadcastProcessOrderCount, fetchInitialCount).
BadgeIsRight ==
    \A b \in (Badges \cap open) \ (lost \cup late) :
        Settled /\ inbox[b] = <<>> /\ initial[b].state = "none" => badge[b] = OpenCount

\* A pending order with a place on the first page, from its creation or since
\* an older one was closed, gets on every open kitchen list sooner or later, as
\* long as it keeps the place, unless the change that gave it the place goes
\* unannounced, a connection or a fetch fails, or an answer from before comes
\* last (broadcastNewOrder, broadcastProcessOrderCount, handleNewOrder).
NewOrderIsShown ==
    \A s \in Lists, o \in Orders :
        status[o] = "pending" /\ IsOnPage(o) /\ s \in open
            ~> \/ shown[s][o] # "closed"
               \/ status[o] # "pending" \/ ~IsOnPage(o)
               \/ silent \/ s \in lost \cup late

=============================================================================
