----------------------------- MODULE KioskProofs -----------------------------
(***************************************************************************)
(* Proofs about Kiosk, for any number of customers, openings of the menu,  *)
(* items and attempts to pay: the visits are kept apart, and the cart gets *)
(* to the payment page.                                                    *)
(***************************************************************************)
EXTENDS Kiosk, TLAPS

-----------------------------------------------------------------------------
(* The inductive invariant.                                                *)

\* The items that the pages and localStorage have were picked since the menu
\* was opened last.
OfThisMenu(items) == \A i \in items : i[1] = menus

CartsAreOfThisMenu ==
    /\ OfThisMenu(CartFound) /\ OfThisMenu(cart) /\ OfThisMenu(dialog) /\ OfThisMenu(payCart)
    /\ page # "payment" => payCart = {}

\* After checkout whoever is still looked for in this tab, or has been found, is
\* the customer of this visit.
LookupsAreOfThisVisit ==
    jumped \/
        /\ page \in {"login", "payment"} => \A v \in Visits : lookups[v] > 0 => v = visit
        /\ page = "login" /\ method = "CUSTOMER_INFO" => phone = visit \/ crossed
        /\ page = "payment" => phone \in {NoPhone, visit} \/ crossed

\* Whatever has become of an attempt, what it was made from is of one visit.
WorkIsOfOneVisit ==
    \A a \in Attempts :
        /\ \A i \in work[a].items : i[1] = work[a].menu
        /\ work[a].phone \in {NoPhone, work[a].visit} \/ work[a].strange

\* Only links of attempts are paid, and only paid orders are found paid.
PaidForGood ==
    /\ charged \cup returns \subseteq Made
    /\ \A a \in Attempts : order[a] \in {"paid", "completed"} \/ answers[a] > 0 => a \in charged

\* What excuses a cart that is not what the customer has seen.
Excused == strayed \/ \E a \in charged : work[a].menu = menus

\* What is stored is what the dialog shows, then what it showed at checkout, and
\* the payment page has it.
CartIsKept ==
    /\ page = "menu" => CartFound = dialog \/ Excused
    /\ page \in {"login", "payment"} => CartFound = checkedOut \/ Excused \/ jumped
    /\ page = "payment" => payCart = checkedOut \/ Excused \/ jumped

IInv ==
    /\ TypeOK
    /\ CartsAreOfThisMenu
    /\ LookupsAreOfThisVisit
    /\ WorkIsOfOneVisit
    /\ PaidForGood
    /\ CartIsKept

-----------------------------------------------------------------------------
(* Attempts to pay.                                                        *)

\* What attempts were made from stays, and they stay made.
WorkKept ==
    \A x \in Attempts :
        /\ work'[x].items = work[x].items /\ work'[x].phone = work[x].phone
        /\ work'[x].visit = work[x].visit /\ work'[x].menu = work[x].menu
        /\ work'[x].strange = work[x].strange
        /\ work[x].stage # "none" => work'[x].stage # "none"

Stages == {"none", "creating", "linking", "polling", "off"}

\* A row of work whose stage changes.
LEMMA RowKept ==
    ASSUME NEW row \in Work, NEW stage \in Stages
    PROVE  LET new == [row EXCEPT !.stage = stage]
           IN  /\ new \in Work /\ new.stage = stage
               /\ new.items = row.items /\ new.phone = row.phone
               /\ new.visit = row.visit /\ new.menu = row.menu /\ new.strange = row.strange
BY DEF Work, Stages

LEMMA StageKept ==
    ASSUME TypeOK, NEW a \in Attempts, NEW stage \in Stages \ {"none"}, Stage(a, stage)
    PROVE  work' \in [Attempts -> Work] /\ WorkKept
<1> DEFINE row == [work[a] EXCEPT !.stage = stage]
<1>0. work \in [Attempts -> Work] /\ work[a] \in Work
  BY DEF TypeOK
<1>1. /\ row \in Work /\ row.stage = stage /\ row.items = work[a].items /\ row.phone = work[a].phone
      /\ row.visit = work[a].visit /\ row.menu = work[a].menu /\ row.strange = work[a].strange
  BY <1>0, RowKept
<1>2. work' = [work EXCEPT ![a] = row]
  BY DEF Stage
<1> HIDE DEF row
<1> QED
  BY <1>0, <1>1, <1>2 DEF WorkKept

LEMMA UnloadKept ==
    ASSUME TypeOK, Unload
    PROVE  work' \in [Attempts -> Work] /\ WorkKept
<1> DEFINE row(x) == [work[x] EXCEPT !.stage = IF @ = "none" \/ x \in apart THEN @ ELSE "off"]
<1>0. \A x \in Attempts : work[x] \in Work /\ work[x].stage \in Stages
  BY DEF TypeOK, Work, Stages
<1>1. \A x \in Attempts :
        /\ row(x) \in Work /\ row(x).items = work[x].items /\ row(x).phone = work[x].phone
        /\ row(x).visit = work[x].visit /\ row(x).menu = work[x].menu
        /\ row(x).strange = work[x].strange
        /\ work[x].stage # "none" => row(x).stage # "none"
  <2> TAKE x \in Attempts
  <2>1. PICK stage \in Stages :
            stage = IF work[x].stage = "none" \/ x \in apart THEN work[x].stage ELSE "off"
    BY <1>0 DEF Stages
  <2> QED
    BY <1>0, <2>1, RowKept
<1>2. work' = [x \in Attempts |-> row(x)]
  BY DEF Unload
<1> HIDE DEF row
<1> QED
  BY <1>1, <1>2 DEF WorkKept

LEMMA LeaveKept ==
    ASSUME TypeOK, LeavePayment
    PROVE  work' \in [Attempts -> Work] /\ WorkKept
<1> DEFINE row(x) == [work[x] EXCEPT !.stage = IF x \in here /\ @ = "polling" THEN "off" ELSE @]
<1>0. \A x \in Attempts : work[x] \in Work /\ work[x].stage \in Stages
  BY DEF TypeOK, Work, Stages
<1>1. \A x \in Attempts :
        /\ row(x) \in Work /\ row(x).items = work[x].items /\ row(x).phone = work[x].phone
        /\ row(x).visit = work[x].visit /\ row(x).menu = work[x].menu
        /\ row(x).strange = work[x].strange
        /\ work[x].stage # "none" => row(x).stage # "none"
  <2> TAKE x \in Attempts
  <2>1. PICK stage \in Stages :
            stage = IF x \in here /\ work[x].stage = "polling" THEN "off" ELSE work[x].stage
    BY <1>0 DEF Stages
  <2> QED
    BY <1>0, <2>1, RowKept
<1>2. work' = [x \in Attempts |-> row(x)]
  BY DEF LeavePayment
<1> HIDE DEF row
<1> QED
  BY <1>1, <1>2 DEF WorkKept

\* A new attempt is made from what the page has.
LEMMA PressMakes ==
    ASSUME TypeOK, NEW a \in Attempts, PressPay(a)
    PROVE  /\ work' \in [Attempts -> Work] /\ work[a].stage = "none" /\ work'[a].stage # "none"
           /\ work'[a].items = payCart /\ work'[a].phone = phone
           /\ work'[a].visit = visit /\ work'[a].menu = menus
           /\ work'[a].strange = (jumped \/ crossed)
           /\ \A x \in Attempts \ {a} : work'[x] = work[x]
<1>0. PICK odd \in BOOLEAN : odd = (jumped \/ crossed)
  BY DEF TypeOK
<1> DEFINE row == [stage |-> "creating", items |-> payCart, phone |-> phone,
                   visit |-> visit, menu |-> menus, strange |-> odd]
<1>1. row \in Work
  BY DEF TypeOK, Work
<1>2. work' = [work EXCEPT ![a] = row] /\ work[a].stage = "none"
  BY <1>0 DEF PressPay
<1>3. row.stage = "creating" /\ row.items = payCart /\ row.phone = phone /\ row.visit = visit
      /\ row.menu = menus /\ row.strange = odd
  OBVIOUS
<1> HIDE DEF row
<1> QED
  BY <1>0, <1>1, <1>2, <1>3 DEF TypeOK
-----------------------------------------------------------------------------
(* Types.                                                                  *)

\* What the payment page finds is a cart.
LEMMA CartFoundTyped ==
    ASSUME TypeOK
    PROVE  CartFound \in SUBSET Items
BY DEF TypeOK, CartFound, NoCart

LEMMA TypesKept ==
    ASSUME TypeOK, [Next]_vars
    PROVE  TypeOK'
<1> USE BoundAssumption DEF number, storage, tabs, menuPage, paymentPage, backend, history, frontend, elsewhere
<1>0. /\ CartFound \in SUBSET Items /\ work \in [Attempts -> Work]
      /\ lookups \in [Visits -> 0..MaxLookups] /\ answers \in [Attempts -> 0..MaxAnswers]
  BY CartFoundTyped DEF TypeOK
<1>1. ASSUME Unload
      PROVE  /\ work' \in [Attempts -> Work] /\ lookups' \in [Visits -> 0..MaxLookups]
             /\ answers' \in [Attempts -> 0..MaxAnswers]
  BY <1>0, <1>1, UnloadKept DEF Unload, NoLookups
<1>2. ASSUME LeavePayment
      PROVE  work' \in [Attempts -> Work]
  BY <1>2, LeaveKept
<1>3. ASSUME NEW v \in Visits, Answered(v) PROVE lookups' \in [Visits -> 0..MaxLookups]
  BY <1>0, <1>3 DEF Answered
<1>4. CASE Start
  <2>1. visit' \in 0..MaxVisits /\ menus' \in 0..MaxMenus
    BY <1>4 DEF Start, OpenMenu, TypeOK
  <2> QED
    BY <1>4, <2>1 DEF Start, OpenMenu, TypeOK
<1>5. ASSUME NEW i \in Items, AddToCart(i) PROVE TypeOK'
  BY <1>5 DEF AddToCart, TypeOK
<1>6. ASSUME NEW s \in SUBSET Items, DeleteItems(s) PROVE TypeOK'
  BY <1>6 DEF DeleteItems, TypeOK
<1>7. CASE SaveCart
  BY <1>7 DEF SaveCart, TypeOK
<1>8. CASE Checkout
  BY <1>1, <1>8 DEF Checkout, CloseMenu, TypeOK
<1>9. CASE Skip \/ Continue
  BY <1>0, <1>9 DEF Skip, Continue, OpenPayment, TypeOK
<1>10. CASE Identify
  <2>1. lookups' \in [Visits -> 0..MaxLookups]
    <3>1. CASE visit \in Visits
      BY <1>0, <1>10, <3>1 DEF Identify
    <3>2. CASE visit \notin Visits
      BY <1>0, <1>10, <3>2 DEF Identify
    <3> QED
      BY <3>1, <3>2
  <2> QED
    BY <1>10, <2>1 DEF Identify, TypeOK
<1>11. CASE BackToSelect
  BY <1>11 DEF BackToSelect, TypeOK
<1>12. CASE BackToMenu
  <2>1. menus' \in 0..MaxMenus
    BY <1>12 DEF BackToMenu, OpenMenu, TypeOK
  <2> QED
    BY <1>1, <1>12, <2>1 DEF BackToMenu, OpenMenu, TypeOK
<1>13. CASE BackToLogin
  BY <1>2, <1>13 DEF BackToLogin, LeavePayment, TypeOK
<1>14. CASE BackToHome
  BY <1>2, <1>14 DEF BackToHome, LeavePayment, TypeOK
<1>15. ASSUME NEW v \in Visits, CustomerFound(v) \/ NumberUnknown(v) \/ FaceUnknown(v)
       PROVE  TypeOK'
  <2>1. CASE CustomerFound(v)
    BY <1>0, <1>3, <2>1 DEF CustomerFound, OpenPayment, CloseMenu, TypeOK
  <2>2. CASE NumberUnknown(v)
    BY <1>0, <1>3, <2>2 DEF NumberUnknown, OpenPayment, CloseMenu, TypeOK
  <2>3. CASE FaceUnknown(v)
    BY <1>0, <1>3, <2>3 DEF FaceUnknown, TypeOK
  <2> QED
    BY <1>15, <2>1, <2>2, <2>3
<1>16. ASSUME NEW a \in Attempts, PressPay(a) PROVE TypeOK'
  <2>1. work' \in [Attempts -> Work]
    BY <1>16, PressMakes
  <2> QED
    BY <1>16, <2>1 DEF PressPay, TypeOK
<1>17. ASSUME NEW a \in Attempts, NEW stage \in Stages \ {"none"}, Stage(a, stage)
       PROVE  work' \in [Attempts -> Work]
  BY <1>17, StageKept
<1>18. ASSUME NEW a \in Attempts, Ordering(a) PROVE TypeOK'
  <2>1. work' \in [Attempts -> Work]
    BY <1>17, <1>18 DEF Ordering, OrderCreated, OrderFailed, LinkOpened, LinkFailed, Stages
  <2> QED
    BY <1>18, <2>1 DEF Ordering, OrderCreated, OrderFailed, LinkOpened, LinkFailed, Shows, TypeOK
<1>19. ASSUME NEW a \in Attempts, Poll(a) PROVE TypeOK'
  BY <1>0, <1>19 DEF Poll, TypeOK
<1>20. ASSUME NEW a \in Attempts, PollAnswered(a) PROVE TypeOK'
  <2>1. work' \in [Attempts -> Work]
    BY <1>17, <1>20 DEF PollAnswered, Stages
  <2>2. answers' \in [Attempts -> 0..MaxAnswers]
    BY <1>0, <1>20 DEF PollAnswered
  <2> QED
    BY <1>20, <2>1, <2>2 DEF PollAnswered, Shows, RemoveCart, TypeOK
<1>21. ASSUME NEW a \in Attempts, PayLink(a) \/ Settle(a) \/ Complete(a) PROVE TypeOK'
  BY <1>21 DEF PayLink, Settle, Complete, TypeOK
<1>22. ASSUME NEW a \in Attempts, ShowResult(a) PROVE TypeOK'
  BY <1>22 DEF ShowResult, RemoveCart, TypeOK
<1>23. CASE UNCHANGED vars
  BY <1>23 DEF vars, TypeOK
<1>25. ASSUME NEW a \in Attempts, BackToKiosk(a) PROVE TypeOK'
  <2>1. aside' \in [Visits -> Nat]
    <3>1. \A v \in Visits : aside[v] \in Nat /\ lookups[v] \in Nat
      BY <1>0 DEF TypeOK
    <3> QED
      BY <1>25, <3>1 DEF BackToKiosk
  <2>2. lookups' \in [Visits -> 0..MaxLookups]
    BY <1>25 DEF BackToKiosk, NoLookups
  <2> QED
    BY <1>25, <2>1, <2>2 DEF BackToKiosk, TypeOK
<1>26. ASSUME NEW v \in Visits, LookupApart(v) PROVE TypeOK'
  <2>1. aside' \in [Visits -> Nat]
    BY <1>26 DEF LookupApart, TypeOK
  <2>2. phone' \in Visits \cup {NoPhone} /\ crossed' \in BOOLEAN
    BY <1>26 DEF LookupApart, TypeOK
  <2>3. UNCHANGED <<page, stored, menuPage, method, paymentPage, lookups, work, answers, backend,
                    links, apart, history>>
    BY <1>26 DEF LookupApart
  <2> QED
    BY <2>1, <2>2, <2>3 DEF TypeOK
<1>24. CASE Customer
  BY <1>25, <1>4, <1>5, <1>6, <1>8, <1>9, <1>10, <1>11, <1>12, <1>13, <1>14, <1>16, <1>21, <1>24
     DEF Customer
<1> QED
  BY <1>26, <1>7, <1>15, <1>18, <1>19, <1>20, <1>21, <1>22, <1>23, <1>24 DEF Next, Lookup

-----------------------------------------------------------------------------
(* The steps of the invariant.                                             *)

\* An attempt is made, or what attempts were made from stays.
LEMMA WorkSteps ==
    ASSUME TypeOK, [Next]_vars
    PROVE  WorkKept \/ \E a \in Attempts : PressPay(a)
<1> USE DEF number, storage, tabs, menuPage, paymentPage, backend, history, frontend, elsewhere
<1>1. work' = work => WorkKept
  BY DEF WorkKept
<1>2. ASSUME NEW a \in Attempts, Ordering(a) \/ PollAnswered(a) PROVE WorkKept
  <2>1. PICK stage \in Stages \ {"none"} : Stage(a, stage)
    BY <1>2 DEF Ordering, OrderCreated, OrderFailed, LinkOpened, LinkFailed, PollAnswered, Stages
  <2> QED
    BY <2>1, StageKept
<1>3. CASE BackToLogin \/ BackToHome
  BY <1>3, LeaveKept DEF BackToLogin, BackToHome
<1>4. CASE Checkout \/ BackToMenu
  BY <1>4, UnloadKept DEF Checkout, BackToMenu
<1>5. CASE Customer
  BY <1>1, <1>3, <1>4, <1>5 DEF Customer, Start, AddToCart, DeleteItems, Skip, Identify, BackToSelect,
     Continue, PayLink, BackToKiosk
<1>6. CASE Lookup
  BY <1>1, <1>6 DEF Lookup, CustomerFound, NumberUnknown, FaceUnknown, LookupApart
<1>7. CASE SaveCart \/ UNCHANGED vars
  BY <1>1, <1>7 DEF SaveCart, vars
<1>8. ASSUME NEW a \in Attempts, Poll(a) \/ Settle(a) \/ Complete(a) \/ ShowResult(a) PROVE WorkKept
  BY <1>1, <1>8 DEF Poll, Settle, Complete, ShowResult
<1> QED
  BY <1>2, <1>5, <1>6, <1>7, <1>8 DEF Next

LEMMA CartsStep ==
    ASSUME TypeOK, CartsAreOfThisMenu, [Next]_vars
    PROVE  CartsAreOfThisMenu'
<1> USE DEF number, storage, tabs, menuPage, paymentPage, backend, history, frontend, elsewhere,
        CartsAreOfThisMenu, OfThisMenu, CartFound
<1>0. NoCart # {}
  BY DEF NoCart
<1>1. CASE UNCHANGED <<page, stored, cart, dialog, payCart, menus>>
  BY <1>1
<1>2. CASE Start \/ BackToMenu
  BY <1>2 DEF Start, BackToMenu, OpenMenu
<1>3. ASSUME NEW i \in Items, AddToCart(i) PROVE CartsAreOfThisMenu'
  BY <1>3 DEF AddToCart
<1>4. ASSUME NEW s \in SUBSET Items, DeleteItems(s) PROVE CartsAreOfThisMenu'
  BY <1>4 DEF DeleteItems
<1>5. CASE SaveCart
  BY <1>5 DEF SaveCart
<1>6. CASE Checkout
  BY <1>6 DEF Checkout, CloseMenu
<1>7. CASE Skip \/ Continue
  BY <1>7 DEF Skip, Continue, OpenPayment
<1>8. ASSUME NEW v \in Visits, NumberUnknown(v) PROVE CartsAreOfThisMenu'
  BY <1>8 DEF NumberUnknown, OpenPayment, CloseMenu
<1>9. CASE BackToLogin \/ BackToHome
  BY <1>9 DEF BackToLogin, BackToHome, LeavePayment
<1>10. ASSUME NEW a \in Attempts, PollAnswered(a) \/ ShowResult(a) PROVE CartsAreOfThisMenu'
  BY <1>10 DEF PollAnswered, ShowResult, RemoveCart
<1>15. ASSUME NEW a \in Attempts, BackToKiosk(a) PROVE CartsAreOfThisMenu'
  BY <1>15 DEF BackToKiosk
<1>11. CASE Customer
  <2>1. CASE Identify \/ BackToSelect \/ \E a \in Attempts : PressPay(a) \/ PayLink(a)
    BY <1>1, <2>1 DEF Identify, BackToSelect, PressPay, PayLink
  <2> QED
    BY <1>2, <1>3, <1>4, <1>6, <1>7, <1>9, <1>11, <1>15, <2>1 DEF Customer
<1>12. ASSUME NEW v \in Visits, CustomerFound(v) \/ FaceUnknown(v) \/ LookupApart(v)
       PROVE  CartsAreOfThisMenu'
  BY <1>1, <1>12 DEF CustomerFound, FaceUnknown, LookupApart
<1>13. ASSUME NEW a \in Attempts, Ordering(a) \/ Poll(a) \/ Settle(a) \/ Complete(a)
       PROVE  CartsAreOfThisMenu'
  BY <1>1, <1>13 DEF Ordering, OrderCreated, OrderFailed, LinkOpened, LinkFailed, Poll, Settle, Complete
<1>14. CASE UNCHANGED vars
  BY <1>1, <1>14 DEF vars
<1> QED
  BY <1>5, <1>8, <1>10, <1>11, <1>12, <1>13, <1>14 DEF Next, Lookup

\* An identification that jumped is not forgotten before the next checkout.
LEMMA JumpedStays ==
    ASSUME [Next]_vars, jumped, ~Checkout
    PROVE  jumped'
BY DEF Next, Customer, Lookup, Ordering, Start, AddToCart, DeleteItems, SaveCart,
   Skip, Identify, BackToSelect, Continue, BackToMenu, CustomerFound, NumberUnknown, FaceUnknown,
   PressPay, OrderCreated, OrderFailed, LinkOpened, LinkFailed, Poll, PollAnswered, BackToLogin,
   BackToHome, PayLink, Settle, Complete, ShowResult, BackToKiosk, LookupApart, vars, number, storage,
   tabs, menuPage, paymentPage, backend, history, frontend, elsewhere

LEMMA LookupsStep ==
    ASSUME TypeOK, LookupsAreOfThisVisit, [Next]_vars
    PROVE  LookupsAreOfThisVisit'
<1> USE DEF number, storage, tabs, menuPage, paymentPage, backend, history, frontend, elsewhere
<1>0. /\ lookups \in [Visits -> 0..MaxLookups] /\ visit \in 0..MaxVisits /\ jumped \in BOOLEAN
      /\ BoundAssumption
  BY BoundAssumption DEF TypeOK, BoundAssumption
<1>1. CASE UNCHANGED <<page, phone, crossed, method, lookups, visit, jumped>>
  BY <1>1 DEF LookupsAreOfThisVisit
<1>2. CASE jumped /\ ~Checkout
  <2>1. jumped'
    BY <1>2, JumpedStays
  <2> QED
    BY <2>1 DEF LookupsAreOfThisVisit
<1>4. CASE Checkout
  BY <1>4 DEF Checkout, Unload, NoLookups, LookupsAreOfThisVisit
<1>3. CASE ~jumped
  <2> USE <1>3 DEF LookupsAreOfThisVisit
  <2>1. CASE Start \/ BackToMenu
    BY <2>1 DEF Start, BackToMenu, OpenMenu
  <2>3. CASE Skip \/ Continue \/ BackToSelect
    BY <2>3 DEF Skip, Continue, BackToSelect, OpenPayment
  <2>4. CASE Identify
    BY <1>0, <2>4 DEF Identify
  <2>5. ASSUME NEW v \in Visits, CustomerFound(v) \/ NumberUnknown(v) \/ FaceUnknown(v)
        PROVE  LookupsAreOfThisVisit'
    <3>1. /\ lookups[v] > 0
          /\ \A x \in Visits : lookups'[x] > 0 => lookups[x] > 0
      BY <1>0, <2>5 DEF CustomerFound, NumberUnknown, FaceUnknown, Answered
    <3> QED
      BY <2>5, <3>1 DEF CustomerFound, NumberUnknown, FaceUnknown, OpenPayment, TypeOK
  <2>6. CASE BackToLogin \/ BackToHome
    BY <2>6 DEF BackToLogin, BackToHome
  <2>7. CASE SaveCart \/ UNCHANGED vars
    BY <1>1, <2>7 DEF SaveCart, vars
  <2>8. ASSUME NEW i \in Items, AddToCart(i) PROVE LookupsAreOfThisVisit'
    BY <1>1, <2>8 DEF AddToCart
  <2>9. ASSUME NEW s \in SUBSET Items, DeleteItems(s) PROVE LookupsAreOfThisVisit'
    BY <1>1, <2>9 DEF DeleteItems
  <2>10. ASSUME NEW a \in Attempts,
                PressPay(a) \/ PayLink(a) \/ Ordering(a) \/ Poll(a) \/ PollAnswered(a)
                \/ Settle(a) \/ Complete(a) \/ ShowResult(a)
         PROVE  LookupsAreOfThisVisit'
    BY <1>1, <2>10 DEF PressPay, PayLink, Ordering, OrderCreated, OrderFailed, LinkOpened, LinkFailed,
       Poll, PollAnswered, Settle, Complete, ShowResult
  <2>11. ASSUME NEW v \in Visits, LookupApart(v) PROVE LookupsAreOfThisVisit'
    BY <2>11 DEF LookupApart
  <2>12. ASSUME NEW a \in Attempts, BackToKiosk(a) PROVE LookupsAreOfThisVisit'
    BY <2>12 DEF BackToKiosk
  <2> QED
    BY <1>4, <2>1, <2>3, <2>4, <2>5, <2>6, <2>7, <2>8, <2>9, <2>10, <2>11, <2>12
       DEF Next, Customer, Lookup
<1> QED
  BY <1>2, <1>3, <1>4

LEMMA WorkStep ==
    ASSUME TypeOK, CartsAreOfThisMenu, LookupsAreOfThisVisit, WorkIsOfOneVisit, [Next]_vars
    PROVE  WorkIsOfOneVisit'
<1>1. CASE WorkKept
  BY <1>1 DEF WorkKept, WorkIsOfOneVisit
<1>2. ASSUME NEW a \in Attempts, PressPay(a)
      PROVE  WorkIsOfOneVisit'
  <2>1. \A i \in payCart : i[1] = menus
    BY DEF CartsAreOfThisMenu, OfThisMenu
  <2>2. jumped \/ crossed \/ phone \in {NoPhone, visit}
    BY <1>2 DEF PressPay, LookupsAreOfThisVisit
  <2>3. work'[a].phone \in {NoPhone, work'[a].visit} \/ work'[a].strange
    <3>1. /\ work'[a].phone = phone /\ work'[a].visit = visit
          /\ work'[a].strange = (jumped \/ crossed)
      BY <1>2, PressMakes
    <3> QED
      BY <2>2, <3>1, Zenon
  <2>4. \A i \in work'[a].items : i[1] = work'[a].menu
    BY <1>2, <2>1, PressMakes
  <2> QED
    BY <1>2, <2>3, <2>4, PressMakes DEF WorkIsOfOneVisit
<1> QED
  BY <1>1, <1>2, WorkSteps

\* Attempts stay made.
LEMMA MadeForGood ==
    ASSUME TypeOK, [Next]_vars
    PROVE  Made \subseteq Made'
<1>1. CASE WorkKept
  BY <1>1 DEF WorkKept, Made
<1>2. ASSUME NEW a \in Attempts, PressPay(a) PROVE Made \subseteq Made'
  BY <1>2, PressMakes DEF Made
<1> QED
  BY <1>1, <1>2, WorkSteps

LEMMA PaidStep ==
    ASSUME TypeOK, PaidForGood, [Next]_vars
    PROVE  PaidForGood'
<1> USE DEF number, storage, tabs, menuPage, paymentPage, backend, history, frontend, elsewhere
<1>0. /\ answers \in [Attempts -> 0..MaxAnswers] /\ BoundAssumption
      /\ order \in [Attempts -> {"none", "pending", "paid", "completed"}]
      /\ Made \subseteq Made' /\ charged \cup returns \subseteq Made
  BY BoundAssumption, MadeForGood DEF TypeOK, BoundAssumption, PaidForGood
<1>1. CASE UNCHANGED <<order, charged, returns, answers>>
  BY <1>0, <1>1 DEF PaidForGood
<1>2. CASE Unload /\ UNCHANGED <<order, charged, returns>>
  <2>1. \A a \in Attempts : answers'[a] > 0 => answers[a] > 0
    BY <1>2 DEF Unload
  <2> QED
    BY <1>0, <1>2, <2>1 DEF PaidForGood
<1>3. CASE Checkout \/ BackToMenu
  BY <1>2, <1>3 DEF Checkout, BackToMenu
<1>4. ASSUME NEW a \in Attempts, OrderCreated(a) PROVE PaidForGood'
  BY <1>0, <1>4 DEF OrderCreated, PaidForGood
<1>5. ASSUME NEW a \in Attempts, LinkOpened(a) PROVE PaidForGood'
  <2>1. a \in Made
    BY <1>5 DEF LinkOpened, Made
  <2> QED
    BY <1>0, <1>5, <2>1 DEF LinkOpened, PaidForGood
<1>6. ASSUME NEW a \in Attempts, Poll(a) PROVE PaidForGood'
  BY <1>0, <1>6 DEF Poll, IsDone, PaidForGood
<1>7. ASSUME NEW a \in Attempts, PollAnswered(a) PROVE PaidForGood'
  BY <1>0, <1>7 DEF PollAnswered, PaidForGood
<1>8. ASSUME NEW a \in Attempts, PayLink(a) PROVE PaidForGood'
  BY <1>0, <1>8 DEF PayLink, PaidForGood
<1>9. ASSUME NEW a \in Attempts, Settle(a) \/ Complete(a) PROVE PaidForGood'
  BY <1>0, <1>9 DEF Settle, Complete, PaidForGood
<1>10. ASSUME NEW a \in Attempts, ShowResult(a) PROVE PaidForGood'
  BY <1>0, <1>10 DEF ShowResult, PaidForGood
<1>11. ASSUME NEW a \in Attempts, OrderFailed(a) \/ LinkFailed(a) \/ PressPay(a) PROVE PaidForGood'
  BY <1>1, <1>11 DEF OrderFailed, LinkFailed, PressPay
<1>12. CASE Customer
  <2>1. CASE Start \/ Skip \/ Identify \/ BackToSelect \/ Continue \/ BackToLogin \/ BackToHome
    BY <1>1, <2>1 DEF Start, Skip, Identify, BackToSelect, Continue, BackToLogin, BackToHome
  <2>3. ASSUME NEW a \in Attempts, BackToKiosk(a) PROVE PaidForGood'
    BY <1>1, <2>3 DEF BackToKiosk
  <2>2. CASE (\E i \in Items : AddToCart(i)) \/ \E s \in SUBSET Items : DeleteItems(s)
    BY <1>1, <2>2 DEF AddToCart, DeleteItems
  <2> QED
    BY <1>3, <1>8, <1>11, <1>12, <2>1, <2>2, <2>3 DEF Customer
<1>13. CASE Lookup
  BY <1>1, <1>13 DEF Lookup, CustomerFound, NumberUnknown, FaceUnknown, LookupApart
<1>14. CASE SaveCart \/ UNCHANGED vars
  BY <1>1, <1>14 DEF SaveCart, vars
<1> QED
  BY <1>4, <1>5, <1>6, <1>7, <1>9, <1>10, <1>11, <1>12, <1>13, <1>14 DEF Next, Ordering

\* What excuses a cart goes on to, until the menu or the cart is used again.
LEMMA ExcusedKept ==
    ASSUME TypeOK, PaidForGood, [Next]_vars, Excused, menus' = menus, strayed => strayed',
           charged \subseteq charged'
    PROVE  Excused'
<1>1. CASE strayed
  BY <1>1 DEF Excused
<1>2. ASSUME NEW a \in charged, work[a].menu = menus
      PROVE  Excused'
  <2>1. a \in Made /\ a \in charged' /\ a \in Attempts
    BY DEF PaidForGood, TypeOK
  <2>2. work'[a].menu = work[a].menu
    <3>1. CASE WorkKept
      BY <2>1, <3>1 DEF WorkKept
    <3>2. ASSUME NEW b \in Attempts, PressPay(b) PROVE work'[a].menu = work[a].menu
      BY <2>1, <3>2, PressMakes DEF Made
    <3> QED
      BY <3>1, <3>2, WorkSteps
  <2> QED
    BY <1>2, <2>1, <2>2 DEF Excused
<1> QED
  BY <1>1, <1>2 DEF Excused

LEMMA CartStep ==
    ASSUME TypeOK, PaidForGood, CartIsKept, [Next]_vars
    PROVE  CartIsKept'
<1> USE DEF number, storage, tabs, menuPage, paymentPage, backend, history, frontend, elsewhere
<1>0. dialog # NoCart /\ \A s \in SUBSET Items : s # NoCart
  <2>1. \A i \in Items : i[1] # 0
    BY BoundAssumption DEF Items
  <2>2. <<0, 0>> \notin Items /\ <<0, 0>> \in NoCart
    BY <2>1 DEF NoCart
  <2> QED
    BY <2>2 DEF TypeOK
<1>1. ASSUME menus' = menus, strayed' = strayed, charged \subseteq charged'
      PROVE  Excused => Excused'
  BY <1>1, ExcusedKept
<1>2. ASSUME UNCHANGED <<page, stored, dialog, payCart, checkedOut, menus, strayed, jumped>>,
             charged \subseteq charged'
      PROVE  CartIsKept'
  BY <1>1, <1>2 DEF CartIsKept, CartFound
<1>3. CASE Start \/ BackToMenu
  BY <1>3 DEF Start, BackToMenu, OpenMenu, CartIsKept, CartFound
<1>4. ASSUME page' = "menu", stored' = dialog', dialog' \in SUBSET Items
      PROVE  CartIsKept'
  BY <1>0, <1>4 DEF CartIsKept, CartFound
<1>5. ASSUME NEW i \in Items, AddToCart(i) PROVE CartIsKept'
  BY <1>4, <1>5 DEF AddToCart, TypeOK
<1>6. ASSUME NEW s \in SUBSET Items, DeleteItems(s) PROVE CartIsKept'
  BY <1>4, <1>6 DEF DeleteItems, TypeOK
<1>7. CASE SaveCart
  BY <1>4, <1>7 DEF SaveCart, TypeOK
<1>8. CASE Checkout
  <2>1. Excused => Excused'
    BY <1>1, <1>8 DEF Checkout
  <2> QED
    BY <1>8, <2>1 DEF Checkout, CartIsKept, CartFound
<1>9. CASE Skip \/ Continue
  <2>1. Excused => Excused'
    BY <1>1, <1>9 DEF Skip, Continue
  <2> QED
    BY <1>9, <2>1 DEF Skip, Continue, OpenPayment, CartIsKept, CartFound
<1>10. ASSUME NEW v \in Visits, NumberUnknown(v) PROVE CartIsKept'
  <2>1. Excused => Excused'
    BY <1>1, <1>10 DEF NumberUnknown
  <2>2. CASE page \in {"home", "menu"}
    BY <1>10, <2>2 DEF NumberUnknown, OpenPayment, CartIsKept
  <2>3. CASE page = "payment"
    BY <1>10, <2>1, <2>3 DEF NumberUnknown, CartIsKept, CartFound
  <2>4. CASE page = "login"
    BY <1>10, <2>1, <2>4 DEF NumberUnknown, OpenPayment, CartIsKept, CartFound
  <2> QED
    BY <2>2, <2>3, <2>4 DEF TypeOK
<1>11. CASE BackToLogin \/ BackToHome
  <2>1. Excused => Excused'
    BY <1>1, <1>11 DEF BackToLogin, BackToHome
  <2> QED
    BY <1>11, <2>1 DEF BackToLogin, BackToHome, CartIsKept, CartFound
<1>12. ASSUME NEW a \in Attempts, PollAnswered(a) \/ ShowResult(a) PROVE CartIsKept'
  <2>1. a \in charged
    BY <1>12 DEF PollAnswered, ShowResult, PaidForGood
  <2>2. /\ RemoveCart(a) /\ menus' = menus /\ charged' = charged
        /\ UNCHANGED <<page, dialog, payCart, checkedOut, jumped>>
    BY <1>12 DEF PollAnswered, ShowResult
  <2>3. WorkKept
    <3>1. ASSUME PollAnswered(a) PROVE WorkKept
      BY <3>1, StageKept DEF PollAnswered, Stages
    <3> QED
      BY <1>12, <3>1 DEF ShowResult, WorkKept
  <2>4. Excused => Excused'
    BY <2>2, ExcusedKept DEF RemoveCart
  <2>5. CASE stored = NoCart
    BY <2>2, <2>4, <2>5 DEF RemoveCart, CartIsKept, CartFound
  <2>6. CASE stored # NoCart
    <3>1. Excused'
      BY <2>1, <2>2, <2>3, <2>6 DEF RemoveCart, Excused, WorkKept, TypeOK
    <3> QED
      BY <3>1 DEF CartIsKept
  <2> QED
    BY <2>5, <2>6
<1>13. ASSUME NEW a \in Attempts, PressPay(a) \/ PayLink(a) PROVE CartIsKept'
  BY <1>2, <1>13 DEF PressPay, PayLink
<1>14. CASE Identify \/ BackToSelect \/ UNCHANGED vars
  BY <1>2, <1>14 DEF Identify, BackToSelect, vars
<1>18. ASSUME NEW a \in Attempts, BackToKiosk(a) PROVE CartIsKept'
  BY <1>18 DEF BackToKiosk, CartIsKept
<1>15. CASE Customer
  BY <1>18, <1>3, <1>5, <1>6, <1>8, <1>9, <1>11, <1>13, <1>14, <1>15 DEF Customer
<1>16. ASSUME NEW v \in Visits, CustomerFound(v) \/ FaceUnknown(v) \/ LookupApart(v)
       PROVE  CartIsKept'
  BY <1>2, <1>16 DEF CustomerFound, FaceUnknown, LookupApart
<1>17. ASSUME NEW a \in Attempts, Ordering(a) \/ Poll(a) \/ Settle(a) \/ Complete(a)
       PROVE  CartIsKept'
  BY <1>2, <1>17 DEF Ordering, OrderCreated, OrderFailed, LinkOpened, LinkFailed, Poll, Settle, Complete
<1> QED
  BY <1>7, <1>10, <1>12, <1>14, <1>15, <1>16, <1>17 DEF Next, Lookup

-----------------------------------------------------------------------------
(* The invariant and what follows from it.                                 *)

\* The kiosk begins without customers and attempts.
LEMMA InitInvariant == Init => IInv
<1> SUFFICES ASSUME Init PROVE IInv
  OBVIOUS
<1> USE BoundAssumption DEF Init
<1>1. TypeOK
  <2> DEFINE row == [stage |-> "none", items |-> {}, phone |-> NoPhone, visit |-> 0, menu |-> 0,
                     strange |-> FALSE]
  <2>1. row \in Work
    BY DEF Work, NoPhone
  <2>2. work \in [Attempts -> Work]
    BY <2>1
  <2>3. lookups \in [Visits -> 0..MaxLookups] /\ answers \in [Attempts -> 0..MaxAnswers]
    BY DEF NoLookups, NoAnswers
  <2>4. /\ page = "home" /\ method = "SELECT" /\ step = "METHOD"
        /\ stored \in {NoCart} \cup SUBSET Items /\ phone \in Visits \cup {NoPhone}
    OBVIOUS
  <2>5. /\ cart \subseteq Items /\ dialog \subseteq Items /\ payCart \in SUBSET Items
        /\ here \subseteq Attempts /\ charged \subseteq Attempts /\ returns \subseteq Attempts
        /\ checkedOut \subseteq Items
    OBVIOUS
  <2>6. order \in [Attempts -> {"none", "pending", "paid", "completed"}]
    OBVIOUS
  <2>7. /\ strayed \in BOOLEAN /\ jumped \in BOOLEAN /\ crossed \in BOOLEAN
        /\ links \subseteq Attempts /\ apart \subseteq Attempts
    OBVIOUS
  <2>9. aside \in [Visits -> Nat]
    BY DEF NoLookups
  <2>8. visit \in 0..MaxVisits /\ menus \in 0..MaxMenus
    <3>1. visit = 0 /\ menus = 0 /\ MaxVisits \in Nat /\ MaxMenus \in Nat
      OBVIOUS
    <3> HIDE BoundAssumption DEF Init
    <3> QED
      BY <3>1
  <2> HIDE DEF Init
  <2> QED
    BY <2>2, <2>3, <2>4, <2>5, <2>6, <2>7, <2>8, <2>9 DEF TypeOK
<1>2. CartsAreOfThisMenu /\ LookupsAreOfThisVisit /\ CartIsKept
  BY DEF CartsAreOfThisMenu, OfThisMenu, CartFound, LookupsAreOfThisVisit, CartIsKept
<1>3. WorkIsOfOneVisit /\ PaidForGood
  BY DEF WorkIsOfOneVisit, PaidForGood, NoAnswers, Made
<1> QED
  BY <1>1, <1>2, <1>3 DEF IInv

\* The inductive invariant holds for good.
THEOREM Invariant == Spec => []IInv
<1>1. IInv /\ [Next]_vars => IInv'
  BY TypesKept, CartsStep, LookupsStep, WorkStep, PaidStep, CartStep DEF IInv
<1> QED
  BY <1>1, InitInvariant, PTL DEF Spec

\* Every variable keeps its type.
THEOREM TypeCorrect == Spec => []TypeOK
<1>1. IInv => TypeOK
  BY DEF IInv
<1> QED
  BY <1>1, Invariant, PTL

\* Nothing of an earlier customer gets into an order, whatever of an earlier
\* visit is left in localStorage or still under way, in any number of tabs,
\* except a number: if an identification that came late has opened the payment
\* page, with no checkout since, or if a tab left behind was the last to store
\* one (CartDialog, handleLogin, startFaceId, handleCreateOrder).
THEOREM VisitsStaySeparate == Spec => []VisitsAreSeparate
<1>1. IInv => VisitsAreSeparate
  BY DEF IInv, WorkIsOfOneVisit, VisitsAreSeparate, Made
<1> QED
  BY <1>1, Invariant, PTL

\* The payment page has what the dialog showed at checkout, unless an order made
\* from this menu was paid, a result of another order came too late, or an
\* identification did (CartDialog, startPolling, PaymentResultPageContent).
THEOREM CartsReachPayment == Spec => []CartReachesPayment
<1>1. IInv => CartReachesPayment
  BY DEF IInv, CartIsKept, Excused, CartReachesPayment
<1> QED
  BY <1>1, Invariant, PTL
=============================================================================
