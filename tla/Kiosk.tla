------------------------------- MODULE Kiosk --------------------------------
(***************************************************************************)
(* One kiosk: the pages that customers order at by themselves, one after   *)
(* the other (fe-coffetek-new/src/app/kiosk).  The pages share two entries *)
(* of localStorage, kiosk_cart and kiosk_phone; everything else is state   *)
(* of a page and ends with it.  What a page has set going does not end     *)
(* with it: a search, a call or a timer goes on when the customer gets to  *)
(* another page by the router, and ends only when the browser loads a      *)
(* document anew.                                                          *)
(*                                                                         *)
(* VNPAY opens in a tab of its own and may end on the payment result page, *)
(* which shares localStorage with the kiosk and has a link to it: whoever  *)
(* follows it goes on in that tab.  The tab left behind is not touched any *)
(* more, but what it has set going lives on.                               *)
(*                                                                         *)
(* An item is told from another by the opening of the menu that it was     *)
(* picked in, a phone number by the visit that it was given in.  Pages are *)
(* built anew when the browser goes back to them.                          *)
(***************************************************************************)
EXTENDS Integers, FiniteSets

CONSTANTS
    MaxVisits,     \* bound: customers
    MaxMenus,      \* bound: times that the menu is opened
    MaxItems,      \* bound: items picked at one opening of the menu
    MaxAttempts,   \* bound: times that somebody presses the pay button
    MaxLookups,    \* bound: identifications waited for at the same time
    MaxAnswers     \* bound: answers of one order's polls under way

ASSUME BoundAssumption ==
    /\ MaxVisits \in Nat /\ MaxMenus \in Nat /\ MaxItems \in Nat
    /\ MaxAttempts \in Nat /\ MaxLookups \in Nat /\ MaxAnswers \in Nat

Visits == 1..MaxVisits

Attempts == 1..MaxAttempts

Items == (1..MaxMenus) \X (1..MaxItems)

\* localStorage has no entry: a value that is no cart.
NoCart == {<<0, 0>>}

NoPhone == 0

VARIABLES
    page,          \* the page that the kiosk shows
    stored,        \* localStorage: kiosk_cart
    phone,         \* localStorage: kiosk_phone
    cart,          \* menu page: its own cart
    dialog,        \* menu page: the cart of CartDialog
    method,        \* login page: loginMethod
    step,          \* payment page: step
    payCart,       \* payment page: its cart
    lookups,       \* identifications that the document waits for, by visit
    work,          \* handleCreateOrder and its interval, of each attempt to pay
    here,          \* the attempts of the payment page that is shown
    answers,       \* polls that found the order paid and are on their way
    order,         \* table orders: the order of each attempt
    charged,       \* VNPAY: orders whose link was paid
    returns,       \* orders whose VNPAY tab is still to show the result page
    links,         \* orders whose result page offers the way back to the kiosk
    aside,         \* identifications that tabs left behind wait for, by visit
    apart,         \* the attempts of tabs left behind
    visit, menus,  \* customers and openings of the menu so far
    checkedOut,    \* history: what CartDialog showed at the last checkout
    strayed,       \* history: a result that came late emptied the cart
    jumped,        \* history: an identification that came late opened the payment page
    crossed        \* history: a tab left behind was the last to store the number

number == <<phone, crossed>>

storage == <<stored, number>>

menuPage == <<cart, dialog>>

paymentPage == <<step, payCart, here>>

backend == <<order, charged, returns>>

history == <<visit, menus, checkedOut, strayed, jumped>>

\* The tabs that the kiosk does not run in.
tabs == <<links, aside, apart>>

vars == <<page, storage, menuPage, method, paymentPage, lookups, work, answers, backend, tabs,
          history>>

-----------------------------------------------------------------------------
(* Types.                                                                  *)

Work == [stage : {"none", "creating", "linking", "polling", "off"},
         items : SUBSET Items, phone : Visits \cup {NoPhone},
         visit : 0..MaxVisits, menu : 0..MaxMenus,
         strange : BOOLEAN]     \* history: the number came with a jump or from another tab

TypeOK ==
    /\ page \in {"home", "menu", "login", "payment"}
    /\ stored \in {NoCart} \cup SUBSET Items
    /\ phone \in Visits \cup {NoPhone}
    /\ cart \subseteq Items
    /\ dialog \subseteq Items
    /\ method \in {"SELECT", "ASKING", "CUSTOMER_INFO"}
    /\ step \in {"METHOD", "PROCESSING", "QR_SHOW", "SUCCESS"}
    /\ payCart \in SUBSET Items
    /\ lookups \in [Visits -> 0..MaxLookups]
    /\ work \in [Attempts -> Work]
    /\ here \subseteq Attempts
    /\ answers \in [Attempts -> 0..MaxAnswers]
    /\ order \in [Attempts -> {"none", "pending", "paid", "completed"}]
    /\ charged \subseteq Attempts
    /\ returns \subseteq Attempts
    /\ links \subseteq Attempts
    /\ aside \in [Visits -> Nat]
    /\ apart \subseteq Attempts
    /\ visit \in 0..MaxVisits
    /\ menus \in 0..MaxMenus
    /\ checkedOut \subseteq Items
    /\ strayed \in BOOLEAN
    /\ jumped \in BOOLEAN
    /\ crossed \in BOOLEAN

NoLookups == [v \in Visits |-> 0]

NoAnswers == [a \in Attempts |-> 0]

Init ==
    /\ page = "home"
    /\ stored = NoCart
    /\ phone = NoPhone
    /\ cart = {}
    /\ dialog = {}
    /\ method = "SELECT"
    /\ step = "METHOD"
    /\ payCart = {}
    /\ lookups = NoLookups
    /\ work = [a \in Attempts |-> [stage |-> "none", items |-> {}, phone |-> NoPhone,
                                   visit |-> 0, menu |-> 0, strange |-> FALSE]]
    /\ here = {}
    /\ answers = NoAnswers
    /\ order = [a \in Attempts |-> "none"]
    /\ charged = {}
    /\ returns = {}
    /\ links = {}
    /\ aside = NoLookups
    /\ apart = {}
    /\ visit = 0
    /\ menus = 0
    /\ checkedOut = {}
    /\ strayed = FALSE
    /\ jumped = FALSE
    /\ crossed = FALSE

-----------------------------------------------------------------------------
(* Documents.                                                              *)

\* A mutant of Unload: the router shows the next page, as goToPayment of the
\* menu page and of the cart page would.
PushRoute == UNCHANGED <<lookups, work, answers>>

\* window.location.href and going back to an earlier document: whatever the old
\* document of this tab was waiting for is forgotten.
Unload ==
    /\ lookups' = NoLookups
    /\ work' = [a \in Attempts |->
                  [work[a] EXCEPT !.stage = IF @ = "none" \/ a \in apart THEN @ ELSE "off"]]
    /\ answers' = [a \in Attempts |-> IF a \in apart THEN answers[a] ELSE 0]

-----------------------------------------------------------------------------
(* The menu page with CartDialog.                                          *)

\* CartDialog is mounted with the menu, open or not.  The effect that saves its
\* cart runs before the cart has been loaded: it is empty, and so is what
\* everybody loads after that.
OpenMenu ==
    /\ menus < MaxMenus
    /\ menus' = menus + 1
    /\ page' = "menu"
    /\ stored' = {}
    /\ cart' = {}
    /\ dialog' = {}
    /\ checkedOut' = {}
    /\ strayed' = FALSE

\* A customer begins.
Start ==
    /\ page = "home"
    /\ visit < MaxVisits
    /\ visit' = visit + 1
    /\ OpenMenu
    /\ UNCHANGED <<number, method, paymentPage, lookups, work, answers, backend, jumped, tabs>>

\* handleAddToCartFromModal stores the cart of the menu page and tells the
\* dialog.  The dialog saves and loads its cart without end; a save that is due
\* by then undoes what was stored, not what the menu page has.
AddToCart(i) ==
    /\ page = "menu"
    /\ i = <<menus, Cardinality(cart) + 1>>
    /\ cart' = cart \cup {i}
    /\ \/ stored' = cart' /\ dialog' = cart'
       \/ stored' = dialog /\ dialog' = dialog
    /\ strayed' = FALSE
    /\ UNCHANGED <<page, number, method, paymentPage, lookups, work, answers, backend, visit, menus,
                   checkedOut, jumped, tabs>>

\* deleteItem and clearCart of the dialog, which the menu page does not hear of.
DeleteItems(items) ==
    /\ page = "menu"
    /\ items # {} /\ items \subseteq dialog
    /\ dialog' = dialog \ items
    /\ stored' = dialog'
    /\ strayed' = FALSE
    /\ UNCHANGED <<page, number, cart, method, paymentPage, lookups, work, answers, backend, visit,
                   menus, checkedOut, jumped, tabs>>

\* The dialog saves its cart once more.
SaveCart ==
    /\ page = "menu"
    /\ stored # dialog
    /\ stored' = dialog
    /\ strayed' = FALSE
    /\ UNCHANGED <<page, number, menuPage, method, paymentPage, lookups, work, answers, backend,
                   visit, menus, checkedOut, jumped, tabs>>

\* The menu page is unmounted.
CloseMenu == cart' = {} /\ dialog' = {}

\* goToPayment of the dialog loads the login page.
Checkout ==
    /\ page = "menu"
    /\ page' = "login"
    /\ method' = "SELECT"
    /\ checkedOut' = dialog
    /\ jumped' = FALSE
    /\ CloseMenu
    /\ Unload
    /\ UNCHANGED <<storage, paymentPage, backend, visit, menus, strayed, tabs>>

-----------------------------------------------------------------------------
(* The login page.                                                         *)

\* Mutant: what was not stored is not looked for.
CartAsStored == stored

\* The cart that the payment page finds when it is mounted.
CartFound == IF stored = NoCart THEN {} ELSE stored

\* The payment page is mounted.
OpenPayment ==
    /\ page' = "payment"
    /\ step' = "METHOD"
    /\ payCart' = CartFound
    /\ here' = {}
    /\ method' = "SELECT"

\* handleSkip.
Skip ==
    /\ page = "login" /\ method = "SELECT"
    /\ phone' = NoPhone
    /\ crossed' = FALSE
    /\ OpenPayment
    /\ UNCHANGED <<stored, menuPage, lookups, work, answers, backend, history, tabs>>

\* handleLogin looks for the user, startFaceId for the face.
Identify ==
    /\ page = "login" /\ method = "SELECT"
    /\ lookups[visit] < MaxLookups
    /\ lookups' = [lookups EXCEPT ![visit] = @ + 1]
    /\ method' = "ASKING"
    /\ UNCHANGED <<page, storage, menuPage, paymentPage, work, answers, backend, history, tabs>>

\* handleBackToSelect stops the camera, not the search.
BackToSelect ==
    /\ page = "login" /\ method # "SELECT"
    /\ method' = "SELECT"
    /\ UNCHANGED <<page, storage, menuPage, paymentPage, lookups, work, answers, backend,
                   history, tabs>>

Answered(v) == lookups[v] > 0 /\ lookups' = [lookups EXCEPT ![v] = @ - 1]

\* The customer is known: the number is stored wherever the kiosk is by now, and
\* the login page, if it is still there, shows who it is.
CustomerFound(v) ==
    /\ Answered(v)
    /\ phone' = v
    /\ crossed' = FALSE
    /\ method' = IF page = "login" THEN "CUSTOMER_INFO" ELSE method
    /\ UNCHANGED <<page, stored, menuPage, paymentPage, work, answers, backend, history, tabs>>

\* A number that no user has: handleLogin stores it and goes to the payment
\* page, wherever the kiosk is by now.
NumberUnknown(v) ==
    /\ Answered(v)
    /\ phone' = v
    /\ crossed' = FALSE
    /\ IF page = "payment" THEN UNCHANGED <<page, method, paymentPage>> ELSE OpenPayment
    /\ CloseMenu
    /\ jumped' = (jumped \/ page \in {"home", "menu"})
    /\ UNCHANGED <<stored, work, answers, backend, visit, menus, checkedOut, strayed, tabs>>

\* A face that nobody has, or an error.
FaceUnknown(v) ==
    /\ Answered(v)
    /\ UNCHANGED <<page, storage, menuPage, method, paymentPage, work, answers, backend,
                   history, tabs>>

\* handleContinueToPayment.
Continue ==
    /\ page = "login" /\ method = "CUSTOMER_INFO"
    /\ OpenPayment
    /\ UNCHANGED <<storage, menuPage, lookups, work, answers, backend, history, tabs>>

\* Back to the menu, whose document is loaded again.
BackToMenu ==
    /\ page = "login" /\ method = "SELECT"
    /\ OpenMenu
    /\ Unload
    /\ UNCHANGED <<number, method, paymentPage, backend, visit, jumped, tabs>>

-----------------------------------------------------------------------------
(* The payment page.                                                       *)

Stage(a, stage) == work' = [work EXCEPT ![a].stage = stage]

\* What happens on the page of attempt a, if it is still shown.
Shows(a, s) == step' = IF a \in here THEN s ELSE step

\* handleCreateOrder: the cart is the page's, the phone number is read again.
PressPay(a) ==
    /\ page = "payment" /\ step = "METHOD"
    /\ payCart # {}
    /\ work[a].stage = "none" /\ \A b \in Attempts : b < a => work[b].stage # "none"
    /\ work' = [work EXCEPT ![a] = [stage |-> "creating", items |-> payCart, phone |-> phone,
                                    visit |-> visit, menu |-> menus,
                                    strange |-> jumped \/ crossed]]
    /\ here' = here \cup {a}
    /\ step' = "PROCESSING"
    /\ UNCHANGED <<page, storage, menuPage, method, payCart, lookups, answers, backend,
                   history, tabs>>

elsewhere == <<page, storage, menuPage, method, payCart, here, lookups, answers, history>>

OrderCreated(a) ==
    /\ work[a].stage = "creating"
    /\ order' = [order EXCEPT ![a] = "pending"]
    /\ Stage(a, "linking")
    /\ UNCHANGED <<elsewhere, step, charged, returns, tabs>>

\* The customer can try again, with another order.  If the backend has made
\* this one after all, nobody has a link to pay it.
OrderFailed(a) ==
    /\ work[a].stage = "creating"
    /\ Stage(a, "off")
    /\ Shows(a, "METHOD")
    /\ UNCHANGED <<elsewhere, backend, tabs>>

\* handleVNPay opens the link in a new tab and startPolling begins, also when
\* the page is gone by now.
LinkOpened(a) ==
    /\ work[a].stage = "linking"
    /\ Stage(a, "polling")
    /\ returns' = returns \cup {a}
    /\ Shows(a, "QR_SHOW")
    /\ UNCHANGED <<elsewhere, order, charged, tabs>>

LinkFailed(a) ==
    /\ work[a].stage = "linking"
    /\ Stage(a, "off")
    /\ Shows(a, "METHOD")
    /\ UNCHANGED <<elsewhere, backend, tabs>>

\* Mutants of IsDone: any answer will do, only completed orders.
AnyStatus(s) == TRUE

OnlyCompleted(s) == s = "completed"

\* The statuses that startPolling waits for.
IsDone(s) == s \in {"paid", "completed"}

\* A poll reads the order.  Polls that fail, or find it unpaid, change nothing.
Poll(a) ==
    /\ work[a].stage = "polling"
    /\ IsDone(order[a])
    /\ answers[a] < MaxAnswers
    /\ answers' = [answers EXCEPT ![a] = @ + 1]
    /\ UNCHANGED <<page, storage, menuPage, method, paymentPage, lookups, work, backend,
                   history, tabs>>

\* The cart is no longer needed for attempt a.
RemoveCart(a) ==
    /\ stored' = NoCart
    /\ strayed' = (strayed \/ (stored # NoCart /\ work[a].menu # menus))

\* The poll that found the order paid ends the interval, shows success and
\* empties the cart, wherever the kiosk is by now.
PollAnswered(a) ==
    /\ answers[a] > 0
    /\ answers' = [answers EXCEPT ![a] = @ - 1]
    /\ Stage(a, "off")
    /\ Shows(a, "SUCCESS")
    /\ RemoveCart(a)
    /\ UNCHANGED <<page, number, menuPage, method, payCart, here, lookups, backend, visit, menus,
                   checkedOut, jumped, tabs>>

\* The page is unmounted: its interval, if it has begun, is cleared.
LeavePayment ==
    /\ work' = [a \in Attempts |->
                  [work[a] EXCEPT !.stage = IF a \in here /\ @ = "polling" THEN "off" ELSE @]]
    /\ here' = {}
    /\ step' = "METHOD"
    /\ payCart' = {}

BackToLogin ==
    /\ page = "payment"
    /\ page' = "login"
    /\ method' = "SELECT"
    /\ LeavePayment
    /\ UNCHANGED <<storage, menuPage, lookups, answers, backend, history, tabs>>

BackToHome ==
    /\ page = "payment" /\ step = "SUCCESS"
    /\ page' = "home"
    /\ LeavePayment
    /\ UNCHANGED <<storage, menuPage, method, lookups, answers, backend, history, tabs>>

-----------------------------------------------------------------------------
(* VNPAY and the backend (external).                                       *)

frontend == <<page, storage, menuPage, method, paymentPage, lookups, work, answers, history>>

PayLink(a) ==
    /\ a \in returns \ charged
    /\ charged' = charged \cup {a}
    /\ UNCHANGED <<frontend, order, returns, tabs>>

\* vnpayIpn.
Settle(a) ==
    /\ a \in charged /\ order[a] = "pending"
    /\ order' = [order EXCEPT ![a] = "paid"]
    /\ UNCHANGED <<frontend, charged, returns, tabs>>

Complete(a) ==
    /\ order[a] = "paid"
    /\ order' = [order EXCEPT ![a] = "completed"]
    /\ UNCHANGED <<frontend, charged, returns, tabs>>

\* The result page of a payment that went well takes any cart for its own.  If
\* there is a cart or a number it has the link "Back to Kiosk Menu".
ShowResult(a) ==
    /\ a \in returns \cap charged
    /\ returns' = returns \ {a}
    /\ links' = IF stored # NoCart \/ phone # NoPhone THEN links \cup {a} ELSE links
    /\ RemoveCart(a)
    /\ UNCHANGED <<page, number, menuPage, method, paymentPage, lookups, work, answers, order, charged,
                   visit, menus, checkedOut, jumped, aside, apart>>

\* The link: the next customer goes on in the tab of the result.  The one that
\* is left keeps its page, so that nothing is unmounted; it shows no menu.
BackToKiosk(a) ==
    /\ a \in links
    /\ page # "menu"
    /\ links' = links \ {a}
    /\ page' = "home"
    /\ aside' = [v \in Visits |-> aside[v] + lookups[v]]
    /\ lookups' = NoLookups
    /\ apart' = {b \in Attempts : work[b].stage # "none"}
    /\ here' = {}
    /\ step' = "METHOD"
    /\ payCart' = {}
    /\ UNCHANGED <<storage, menuPage, method, work, answers, backend, history>>

\* An identification of a tab left behind: it stores the number, and may show
\* the payment page in that tab only, or finds nobody.
LookupApart(v) ==
    /\ aside[v] > 0
    /\ aside' = [aside EXCEPT ![v] = @ - 1]
    /\ \/ phone' = v /\ crossed' = TRUE
       \/ UNCHANGED number
    /\ UNCHANGED <<page, stored, menuPage, method, paymentPage, lookups, work, answers, backend, links,
                   apart, history>>

-----------------------------------------------------------------------------

Customer ==
    \/ Start \/ (\E i \in Items : AddToCart(i)) \/ (\E s \in SUBSET Items : DeleteItems(s)) \/ Checkout
    \/ Skip \/ Identify \/ BackToSelect \/ Continue \/ BackToMenu
    \/ BackToLogin \/ BackToHome
    \/ \E a \in Attempts : PressPay(a) \/ PayLink(a) \/ BackToKiosk(a)

Lookup == \E v \in Visits : CustomerFound(v) \/ NumberUnknown(v) \/ FaceUnknown(v) \/ LookupApart(v)

Ordering(a) == OrderCreated(a) \/ OrderFailed(a) \/ LinkOpened(a) \/ LinkFailed(a)

Next ==
    \/ Customer
    \/ SaveCart
    \/ Lookup
    \/ \E a \in Attempts :
         \/ Ordering(a) \/ Poll(a) \/ PollAnswered(a)
         \/ Settle(a) \/ Complete(a) \/ ShowResult(a)

Spec == Init /\ [][Next]_vars

\* The IPN call arrives, and of the polls, one every three seconds, some get
\* through.
FairSpec ==
    /\ Spec
    /\ \A a \in Attempts : WF_vars(Settle(a)) /\ WF_vars(Poll(a)) /\ WF_vars(PollAnswered(a))

-----------------------------------------------------------------------------
(* Properties.                                                             *)

Made == {a \in Attempts : work[a].stage # "none"}

\* Nothing of an earlier customer gets into an order: its items were picked
\* since the menu was opened last, and its phone number, if it has one, is of
\* that visit.  localStorage outlives the visits, and so do searches that a
\* customer has given up; checkout must forget them.  The number is another's
\* only if a search opened the payment page by itself and nobody has checked out
\* since, or if one of a tab left behind was the last to store what it found
\* (CartDialog, handleLogin, startFaceId, handleCreateOrder).
VisitsAreSeparate ==
    \A a \in Made :
        /\ \A i \in work[a].items : i[1] = work[a].menu
        /\ work[a].phone \in {NoPhone, work[a].visit} \/ work[a].strange

\* The payment page has what the dialog showed at checkout, however often the
\* customer goes back and forth and tries to pay: the cart goes away only with
\* the payment of an order made from it, or with a result of another order that
\* came too late (CartDialog, startPolling, PaymentResultPageContent).
CartReachesPayment ==
    page = "payment" /\ payCart # checkedOut =>
        \/ strayed \/ jumped
        \/ \E a \in charged : work[a].menu = menus

\* A customer who has paid and stays on the page gets to see it, although polls
\* may fail (vnpayIpn, startPolling).
ChargedIsShown ==
    charged \cap here # {} ~> charged \cap here = {} \/ step = "SUCCESS"
=============================================================================
