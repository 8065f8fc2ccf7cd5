---------------------------- MODULE CatalogProofs ----------------------------
(***************************************************************************)
(* Proofs about Catalog, for any number of readers, requests, standing     *)
(* promotions and prices: lists that nothing excuses are current, periods  *)
(* that create compared stay apart, and the list on the screen has the     *)
(* price that is charged.                                                  *)
(***************************************************************************)
EXTENDS Catalog, TLAPS

-----------------------------------------------------------------------------
(* The inductive invariant.                                                *)

\* The original prices of a list that is loaded now.
Current == [l \in Lines |-> Original(l)]

\* A list that nothing excuses and that is not current.
Stale(k) == cache[k] # NoList /\ ~cache[k].outrun /\ cache[k].original # Current

\* Request r has changed a product and will delete the list under k.
Deletes(r, k) ==
    /\ loc[r].dirty
    /\ \/ pc[r] \in {"delete", "reread", "keys"}
       \/ pc[r] = "del" /\ k \in loc[r].keys

\* Requests that are about to change a product know which.
ProductKnown ==
    \A r \in Requests : pc[r] \in {"write", "rows", "delete"} => loc[r].product \in Products

\* What a reader is about to store is current unless it was overtaken.
QueriedIsCurrent ==
    \A c \in Readers : reader[c].at = "store" =>
        /\ reader[c].list \in List
        /\ reader[c].list.outrun \/ reader[c].list.original = Current

\* Whatever is stale is about to be deleted.
StaleIsDeleted == \A k \in Keys : Stale(k) => \E r \in Requests : Deletes(r, k)

\* A promotion is there only when its request has inserted it.
InsertedLast ==
    \A r \in Requests : pc[r] \in {"idle", "overlap", "insert"} => promo[r].state = "absent"

\* Only promotions that were there have been compared with.
ComparedWereThere ==
    \A p \in Promotions : \A q \in promo[p].apart : promo[q].state # "absent"

\* None of those that a promotion was compared with is in its way, before it is
\* inserted and after.
ComparedKeepOut ==
    /\ \A p \in There : promo[p].apart \cap Overlapping(promo[p].first, promo[p].last) = {}
    /\ \A r \in Requests : pc[r] = "insert" =>
           promo[r].apart \cap Overlapping(loc[r].first, loc[r].last) = {}

\* A request that has found no other promotion active is about to activate its
\* own.
AloneActivates == \A r \in Requests : loc[r].alone => pc[r] = "activate"

\* As long as activations do not overlap one promotion is active at most, and
\* none but its own when a request has checked that.
OneIsActive ==
    ~contested =>
        /\ \A p, q \in Active : p = q
        /\ \A r \in Requests : loc[r].alone => Active \subseteq {loc[r].promotion}

IInv ==
    /\ TypeOK
    /\ ProductKnown
    /\ QueriedIsCurrent
    /\ StaleIsDeleted
    /\ InsertedLast
    /\ ComparedWereThere
    /\ ComparedKeepOut
    /\ AloneActivates
    /\ OneIsActive
-----------------------------------------------------------------------------
(* Types.                                                                  *)

\* Requests number the promotions that they create, and the constants that the
\* initial rows are made of have their types.
LEMMA ConstantsTyped ==
    /\ Requests \subseteq Promotions /\ 0 \in Time /\ OnePrice \in Prices
    /\ Firsts \subseteq Time /\ Lasts \subseteq Time
    /\ NotReading \in Reader /\ NotReading.at = "idle"
    /\ Prices \subseteq Nat /\ "plain" \notin Sizes /\ "sized" \notin Sizes
<1>1. Requests \subseteq Promotions /\ 0 \in Time
  BY BoundAssumption, DataAssumption DEF Requests, Promotions, Time
<1>2. OnePrice \in Prices
  BY DataAssumption DEF OnePrice
<1>3. NotReading \in Reader /\ NotReading.at = "idle"
  <2>1. (CHOOSE k \in Keys : TRUE) \in Keys
    BY DataAssumption
  <2> QED
    BY <2>1 DEF NotReading, Reader
<1> QED
  BY <1>1, <1>2, <1>3, DataAssumption DEF Products

LEMMA NoLocalTyped ==
    ASSUME NEW r \in Requests
    PROVE  /\ NoLocal(r) \in Local /\ NoLocal(r).dirty = FALSE /\ NoLocal(r).alone = FALSE
           /\ NoLocal(r).promotion = r /\ NoLocal(r).product = NoProduct
BY ConstantsTyped DEF NoLocal, Local

LEMMA NoPromotionTyped == NoPromotion \in Promotion /\ [NoPromotion EXCEPT !.state = "deleted"] \in Promotion
BY ConstantsTyped DEF NoPromotion, Promotion

\* A list that was overtaken is a list still.
LEMMA OutrunTyped ==
    ASSUME NEW list \in List
    PROVE  /\ [list EXCEPT !.outrun = TRUE] \in List
           /\ [list EXCEPT !.outrun = TRUE].outrun
           /\ [list EXCEPT !.outrun = TRUE].original = list.original
BY DEF List

\* Prices are those of products and offers.
LEMMA PricesTyped ==
    ASSUME TypeOK, NEW l \in Lines
    PROVE  /\ Original(l) \in Prices \cup {NoPrice}
           /\ ShownPrices(l) \subseteq Nat \cup {NoPrice}
<1>1. Product(l) \in Products
  BY DEF Product, Products
<1>2. Original(l) \in Prices \cup {NoPrice}
  BY <1>1 DEF Original, TypeOK, ProductRow
<1>3. \A p \in Promotions, X \in SUBSET Lines : PricesIn(p, X) \subseteq Nat \cup {NoPrice}
  <2> SUFFICES ASSUME NEW p \in Promotions, NEW X \in SUBSET Lines, NEW x \in PricesIn(p, X)
               PROVE  x \in Nat \cup {NoPrice}
    OBVIOUS
  <2>1. promo[p].offer \in Offers \cup {NoOffer}
    BY DEF TypeOK, Promotion
  <2>2. PICK y \in X : x = OfferPrice(promo[p].offer, y) /\ promo[p].offer # NoOffer
    BY DEF PricesIn
  <2> QED
    BY <2>1, <2>2, DataAssumption
<1>4. \A p \in Active : PricesIn(p, Linked(p, {l})) \subseteq Nat \cup {NoPrice}
  BY <1>3 DEF Linked, Active
<1> QED
  BY <1>2, <1>4, ConstantsTyped DEF ShownPrices

\* A query returns lists, with the prices that products have now.
LEMMA QueriedTyped ==
    ASSUME TypeOK, NEW k \in Keys, NEW list \in Queried(k)
    PROVE  list \in List /\ list.original = Current
<1> DEFINE prices(l) == IF k = "products" THEN {Original(l)} ELSE ShownPrices(l)
<1>1. PICK shown \in [Lines -> UNION {prices(l) : l \in Lines}] :
          list = [original |-> Current, shown |-> shown, outrun |-> FALSE]
  BY DEF Queried, Current
<1>2. \A l \in Lines : prices(l) \subseteq Nat \cup {NoPrice}
  BY PricesTyped, ConstantsTyped
<1> HIDE DEF prices
<1>3. UNION {prices(l) : l \in Lines} \subseteq Nat \cup {NoPrice}
  BY <1>2
<1>4. shown \in [Lines -> Nat \cup {NoPrice}]
  BY <1>1, <1>3
<1>5. Current \in [Lines -> Prices \cup {NoPrice}]
  BY PricesTyped DEF Current
<1> QED
  BY <1>1, <1>4, <1>5 DEF List

LEMMA InitTyped == Init => TypeOK
<1> SUFFICES ASSUME Init PROVE TypeOK
  OBVIOUS
<1>1. product \in [Products -> ProductRow]
  BY ConstantsTyped DEF Init, ProductRow
<1>2. promo \in [Promotions -> Promotion] /\ \A p \in Promotions : promo[p].active = FALSE
  <2>1. \A row \in {NoPromotion} \cup Inactive : row \in Promotion /\ row.active = FALSE
    BY NoPromotionTyped, ConstantsTyped DEF NoPromotion, Inactive, Promotion
  <2>2. promo \in [Promotions -> {NoPromotion} \cup Inactive]
    BY DEF Init
  <2> QED
    BY <2>1, <2>2
<1>3. loc \in [Requests -> Local]
  BY NoLocalTyped DEF Init
<1>4. reader \in [Readers -> Reader]
  BY ConstantsTyped DEF Init
<1>5. Active \subseteq There
  BY <1>2 DEF Active
<1> QED
  BY <1>1, <1>2, <1>3, <1>4, <1>5, ConstantsTyped DEF Init, TypeOK, Labels

\* What ends a request, and what marks lists, keeps the types.
LEMMA UpdatesTyped ==
    ASSUME TypeOK, NEW r \in Requests
    PROVE  /\ \A label \in Labels : Goto(r, label) => pc' \in [Requests -> Labels]
           /\ Finish(r) => pc' \in [Requests -> Labels] /\ loc' \in [Requests -> Local]
           /\ Dirty(r) => loc' \in [Requests -> Local]
           /\ UnlinkRows => promo' \in [Promotions -> Promotion] /\ (Active \subseteq There)'
           /\ cache' = [k \in Keys |-> Forgive(k)] => cache' \in [Keys -> List \cup {NoList}]
<1>1. \A label \in Labels : Goto(r, label) => pc' \in [Requests -> Labels]
  BY DEF TypeOK, Goto
<1>2. Finish(r) => pc' \in [Requests -> Labels] /\ loc' \in [Requests -> Local]
  BY NoLocalTyped DEF TypeOK, Finish, Goto, Labels
<1>3. Dirty(r) => loc' \in [Requests -> Local]
  <2> DEFINE l == [loc[r] EXCEPT !.dirty = TRUE]
  <2>1. loc[r] \in Local
    BY DEF TypeOK
  <2>2. l \in Local
    BY <2>1 DEF Local
  <2>3. Dirty(r) => loc' = [loc EXCEPT ![r] = l]
    BY DEF Dirty
  <2> HIDE DEF l
  <2> QED
    BY <2>2, <2>3 DEF TypeOK
<1>4. ASSUME UnlinkRows
      PROVE  promo' \in [Promotions -> Promotion] /\ (Active \subseteq There)'
  <2>1. \A p \in Promotions : /\ [promo[p] EXCEPT !.linked = FALSE] \in Promotion
                              /\ [promo[p] EXCEPT !.linked = FALSE].active = promo[p].active
                              /\ [promo[p] EXCEPT !.linked = FALSE].state = promo[p].state
    <3> SUFFICES ASSUME NEW row \in Promotion
                 PROVE  /\ [row EXCEPT !.linked = FALSE] \in Promotion
                        /\ [row EXCEPT !.linked = FALSE].active = row.active
                        /\ [row EXCEPT !.linked = FALSE].state = row.state
      BY DEF TypeOK
    <3> QED
      BY DEF Promotion
  <2> QED
    BY <1>4, <2>1 DEF UnlinkRows, TypeOK, Active, There
<1>5. cache' = [k \in Keys |-> Forgive(k)] => cache' \in [Keys -> List \cup {NoList}]
  BY OutrunTyped DEF Forgive, TypeOK
<1> QED
  BY <1>1, <1>2, <1>3, <1>4, <1>5

\* Overtaken readers have a list.
LEMMA OvertakeTyped ==
    ASSUME TypeOK, QueriedIsCurrent, Overtake
    PROVE  reader' \in [Readers -> Reader]
BY OutrunTyped DEF TypeOK, QueriedIsCurrent, Overtake, Reader

\* Rows of products keep their type.
LEMMA RowsTyped ==
    ASSUME NEW row \in ProductRow, NEW price \in Prices,
           NEW rows \in {"first", "again", "none"}
    PROVE  /\ [row EXCEPT !.price = price, !.rows = rows] \in ProductRow
           /\ [row EXCEPT !.rows = rows] \in ProductRow
           /\ [row EXCEPT !.state = "deleted", !.rows = rows] \in ProductRow
           /\ [state |-> "there", price |-> price, rows |-> rows] \in ProductRow
BY DEF ProductRow

LEMMA DropTyped ==
    ASSUME TypeOK, QueriedIsCurrent, NEW r \in Requests, loc[r].product \in Products, DropProduct(r)
    PROVE  /\ product' \in [Products -> ProductRow]
           /\ promo' \in [Promotions -> Promotion]
           /\ (Active \subseteq There)'
           /\ reader' \in [Readers -> Reader]
           /\ loc' \in [Requests -> Local]
<1>1. product' \in [Products -> ProductRow]
  BY RowsTyped, ConstantsTyped DEF DropProduct, TypeOK
<1>2. promo' \in [Promotions -> Promotion] /\ (Active \subseteq There)'
  BY UpdatesTyped DEF DropProduct, TypeOK, Active, There
<1> QED
  BY <1>1, <1>2, UpdatesTyped, OvertakeTyped DEF DropProduct

\* Readers and the clock.
LEMMA ReadsTyped ==
    ASSUME TypeOK, QueriedIsCurrent, NEW c \in Readers, NEW k \in Keys,
           Tick \/ Expire(k) \/ Miss(c, k) \/ Read(c) \/ Break(c)
    PROVE  TypeOK'
<1>0. /\ reader \in [Readers -> Reader] /\ cache \in [Keys -> List \cup {NoList}]
      /\ reader[c] \in Reader
  BY DEF TypeOK
<1>1. ASSUME UNCHANGED <<now, product, promo, pc, loc, contested>>,
             reader' \in [Readers -> Reader], cache' \in [Keys -> List \cup {NoList}]
      PROVE  TypeOK'
  BY <1>1 DEF TypeOK, Active, There
<1>2. CASE Tick
  <2>1. now' \in Time
    BY <1>2, BoundAssumption DEF Tick, TypeOK, Time
  <2> QED
    BY <1>2, <2>1 DEF Tick, TypeOK, Active, There
<1>3. CASE Expire(k)
  BY <1>0, <1>1, <1>3 DEF Expire
<1>4. CASE Miss(c, k)
  <2>1. [reader[c] EXCEPT !.at = "query", !.key = k] \in Reader
    BY <1>0 DEF Reader
  <2> QED
    BY <1>0, <1>1, <1>4, <2>1 DEF Miss
<1>5. CASE Query(c)
  <2>0. reader[c].key \in Keys
    BY <1>0 DEF Reader
  <2>1. PICK list \in Queried(reader[c].key) :
            reader' = [reader EXCEPT ![c] = [@ EXCEPT !.at = "store", !.list = list]]
    BY <1>5 DEF Query
  <2>2. list \in List
    BY <2>0, QueriedTyped
  <2>3. [reader[c] EXCEPT !.at = "store", !.list = list] \in Reader
    BY <1>0, <2>2 DEF Reader
  <2>4. reader' \in [Readers -> Reader]
    BY <1>0, <2>1, <2>3
  <2> QED
    BY <1>0, <1>1, <1>5, <2>4 DEF Query
<1>6. Leave(c) => reader' \in [Readers -> Reader]
  BY <1>0, ConstantsTyped DEF Leave
<1>7. CASE Store(c)
  <2>1. reader[c].list \in List
    BY <1>7 DEF Store, QueriedIsCurrent
  <2> QED
    BY <1>0, <1>1, <1>6, <1>7, <2>1 DEF Store
<1>8. CASE Break(c)
  BY <1>0, <1>1, <1>6, <1>8 DEF Break
<1> QED
  BY <1>2, <1>3, <1>4, <1>5, <1>7, <1>8 DEF Read

\* Requests that change products.
LEMMA ProductsTyped ==
    ASSUME TypeOK, ProductKnown, QueriedIsCurrent, NEW r \in Requests,
           \/ \E p \in Products, price \in Prices :
                \/ CreateProduct(r, p, price)
                \/ \E op \in {"update", "remove", "removeMany"} : FindProduct(r, op, p, price)
           \/ Reread(r) \/ UpdateProduct(r) \/ RemoveRows(r) \/ RemoveProduct(r) \/ RemoveProducts(r)
           \/ FindKeys(r) \/ DeleteKeys(r)
    PROVE  TypeOK'
<1>0. /\ reader \in [Readers -> Reader] /\ cache \in [Keys -> List \cup {NoList}]
      /\ product \in [Products -> ProductRow] /\ promo \in [Promotions -> Promotion]
      /\ pc \in [Requests -> Labels] /\ loc \in [Requests -> Local] /\ loc[r] \in Local
      /\ Active \subseteq There
  BY DEF TypeOK
<1>l. {"reread", "keys", "write", "rows", "delete", "del", "over"} \subseteq Labels
  BY DEF Labels, Suspended
<1>1. ASSUME UNCHANGED <<now, contested>>,
             product' \in [Products -> ProductRow], promo' \in [Promotions -> Promotion],
             pc' \in [Requests -> Labels], loc' \in [Requests -> Local],
             reader' \in [Readers -> Reader], cache' \in [Keys -> List \cup {NoList}],
             (Active \subseteq There)'
      PROVE  TypeOK'
  BY <1>1 DEF TypeOK
<1>2. promo' = promo => (Active \subseteq There)'
  BY <1>0 DEF Active, There
<1>3. ASSUME NEW p \in Products, NEW price \in Prices, CreateProduct(r, p, price)
      PROVE  TypeOK'
  <2> DEFINE row == [state |-> "there", price |-> price,
                     rows |-> IF p = "sized" THEN "first" ELSE "none"]
             l == [loc[r] EXCEPT !.product = p, !.dirty = TRUE]
  <2>1. row \in ProductRow
    BY <1>3 DEF ProductRow
  <2>2. l \in Local
    BY <1>0 DEF Local
  <2>3. product' = [product EXCEPT ![p] = row] /\ loc' = [loc EXCEPT ![r] = l]
    BY <1>3 DEF CreateProduct
  <2> HIDE DEF row, l
  <2>4. product' \in [Products -> ProductRow] /\ loc' \in [Requests -> Local]
    BY <1>0, <2>1, <2>2, <2>3
  <2>5. reader' \in [Readers -> Reader] /\ pc' \in [Requests -> Labels]
    BY <1>3, <1>l, OvertakeTyped, UpdatesTyped DEF CreateProduct
  <2> QED
    BY <1>0, <1>1, <1>2, <1>3, <2>4, <2>5 DEF CreateProduct
<1>4. ASSUME NEW p \in Products, NEW price \in Prices, NEW op \in {"update", "remove", "removeMany"},
             FindProduct(r, op, p, price)
      PROVE  TypeOK'
  <2>1. PICK l \in Local : loc' = [loc EXCEPT ![r] = l]
    <3>1. /\ [loc[r] EXCEPT !.op = op, !.product = p, !.price = price] \in Local \/ op = "remove"
          /\ [loc[r] EXCEPT !.op = op, !.product = p] \in Local \/ op = "remove"
          /\ [loc[r] EXCEPT !.product = p] \in Local
      BY <1>0 DEF Local
    <3> QED
      BY <1>4, <3>1 DEF FindProduct
  <2>2. loc' \in [Requests -> Local]
    BY <1>0, <2>1
  <2>3. pc' \in [Requests -> Labels]
    BY <1>4, <1>l, UpdatesTyped DEF FindProduct
  <2> QED
    BY <1>0, <1>1, <1>2, <1>4, <2>2, <2>3 DEF FindProduct
<1>5. CASE Reread(r)
  BY <1>0, <1>1, <1>2, <1>5, <1>l, UpdatesTyped DEF Reread
<1>6. CASE UpdateProduct(r)
  <2> DEFINE p == loc[r].product
             row == [product[p] EXCEPT !.price = loc[r].price,
                                       !.rows = IF p = "sized" THEN "again" ELSE "none"]
  <2>1. p \in Products /\ loc[r].price \in Prices
    BY <1>0, <1>6 DEF UpdateProduct, ProductKnown, Local
  <2>2. CASE product[p].state = "there"
    <3>1. row \in ProductRow
      BY <1>0, <2>1, RowsTyped
    <3>2. product' = [product EXCEPT ![p] = row]
      BY <1>6, <2>2 DEF UpdateProduct
    <3> HIDE DEF row
    <3>3. product' \in [Products -> ProductRow]
      BY <1>0, <3>1, <3>2
    <3>4. promo' \in [Promotions -> Promotion] /\ (Active \subseteq There)'
      BY <1>0, <1>2, <1>6, <2>2, UpdatesTyped DEF UpdateProduct
    <3>5. /\ reader' \in [Readers -> Reader] /\ loc' \in [Requests -> Local]
          /\ pc' \in [Requests -> Labels]
      BY <1>6, <1>l, <2>2, OvertakeTyped, UpdatesTyped DEF UpdateProduct
    <3> QED
      BY <1>0, <1>1, <1>6, <3>3, <3>4, <3>5 DEF UpdateProduct
  <2>3. CASE product[p].state # "there"
    BY <1>0, <1>1, <1>2, <1>6, <2>3, UpdatesTyped DEF UpdateProduct
  <2> QED
    BY <2>2, <2>3
<1>7. CASE RemoveRows(r)
  <2>1. pc' \in [Requests -> Labels] /\ UNCHANGED <<now, cache, contested>>
    BY <1>7, <1>l, UpdatesTyped DEF RemoveRows
  <2>2. CASE loc[r].product = "sized" /\ product["sized"].rows # "none"
    <3>1. product' \in [Products -> ProductRow]
      <4> DEFINE row == [product["sized"] EXCEPT !.rows = "none"]
      <4>1. row \in ProductRow
        BY <1>0, RowsTyped, ConstantsTyped DEF Products
      <4>2. product' = [product EXCEPT !["sized"] = row]
        BY <1>7, <2>2 DEF RemoveRows
      <4> HIDE DEF row
      <4> QED
        BY <1>0, <4>1, <4>2
    <3>2. /\ promo' \in [Promotions -> Promotion] /\ (Active \subseteq There)'
          /\ reader' \in [Readers -> Reader] /\ loc' \in [Requests -> Local]
      BY <1>7, <2>2, OvertakeTyped, UpdatesTyped DEF RemoveRows
    <3> QED
      BY <1>0, <1>1, <2>1, <3>1, <3>2
  <2>3. CASE ~(loc[r].product = "sized" /\ product["sized"].rows # "none")
    BY <1>0, <1>1, <1>2, <1>7, <2>1, <2>3 DEF RemoveRows
  <2> QED
    BY <2>2, <2>3
<1>8. CASE RemoveProduct(r)
  <2>1. loc[r].product \in Products
    BY <1>8 DEF RemoveProduct, ProductKnown
  <2>2. CASE product[loc[r].product].state = "there"
    <3>1. pc' \in [Requests -> Labels] /\ UNCHANGED <<now, cache, contested>>
      BY <1>8, <1>l, <2>2, UpdatesTyped DEF RemoveProduct
    <3> QED
      BY <1>0, <1>1, <1>8, <2>1, <2>2, <3>1, DropTyped DEF RemoveProduct
  <2>3. CASE product[loc[r].product].state # "there"
    <3>1. cache' \in [Keys -> List \cup {NoList}]
      BY <1>0, <1>8, <2>3, UpdatesTyped DEF RemoveProduct
    <3> QED
      BY <1>0, <1>1, <1>2, <1>8, <2>3, <3>1, UpdatesTyped DEF RemoveProduct
  <2> QED
    BY <2>2, <2>3
<1>9. CASE RemoveProducts(r)
  <2>1. loc[r].product \in Products
    BY <1>9 DEF RemoveProducts, ProductKnown
  <2>2. pc' \in [Requests -> Labels] /\ UNCHANGED <<now, cache, contested>>
    BY <1>9, <1>l, UpdatesTyped DEF RemoveProducts
  <2>3. CASE product[loc[r].product].state = "there"
    BY <1>0, <1>1, <1>9, <2>1, <2>2, <2>3, DropTyped DEF RemoveProducts
  <2>4. CASE product[loc[r].product].state # "there"
    BY <1>0, <1>1, <1>2, <1>9, <2>2, <2>4 DEF RemoveProducts
  <2> QED
    BY <2>3, <2>4
<1>10. CASE FindKeys(r)
  <2>1. CASE Matching = {}
    BY <1>0, <1>1, <1>2, <1>10, <2>1, UpdatesTyped DEF FindKeys
  <2>2. CASE Matching # {}
    <3> DEFINE l == [loc[r] EXCEPT !.keys = Matching]
    <3>1. l \in Local
      BY <1>0 DEF Local, Matching
    <3>2. loc' = [loc EXCEPT ![r] = l]
      BY <1>10, <2>2 DEF FindKeys
    <3> HIDE DEF l
    <3>3. loc' \in [Requests -> Local]
      BY <1>0, <3>1, <3>2
    <3>4. pc' \in [Requests -> Labels]
      BY <1>10, <1>l, <2>2, UpdatesTyped DEF FindKeys
    <3> QED
      BY <1>0, <1>1, <1>2, <1>10, <3>3, <3>4 DEF FindKeys
  <2> QED
    BY <2>1, <2>2
<1>11. CASE DeleteKeys(r)
  <2>1. cache' \in [Keys -> List \cup {NoList}]
    BY <1>0, <1>11 DEF DeleteKeys
  <2> QED
    BY <1>0, <1>1, <1>2, <1>11, <2>1, UpdatesTyped DEF DeleteKeys
<1> QED
  BY <1>3, <1>4, <1>5, <1>6, <1>7, <1>8, <1>9, <1>10, <1>11

\* Rows of promotions keep their type.
LEMMA PromotionFields ==
    ASSUME NEW row \in Promotion
    PROVE  /\ \A x \in SUBSET Promotions : [row EXCEPT !.apart = x] \in Promotion
           /\ \A x \in BOOLEAN : /\ [row EXCEPT !.active = x] \in Promotion
                                 /\ [row EXCEPT !.active = x].state = row.state
           /\ \A first, last \in Time, offer \in Offers \cup {NoOffer}, linked \in BOOLEAN :
                /\ [row EXCEPT !.state = "there", !.first = first, !.last = last,
                               !.offer = offer, !.linked = linked] \in Promotion
                /\ [row EXCEPT !.first = first, !.last = last, !.apart = {},
                               !.offer = offer, !.linked = linked] \in Promotion
<1>1. \A x \in SUBSET Promotions : [row EXCEPT !.apart = x] \in Promotion
  BY DEF Promotion
<1>2. \A x \in BOOLEAN : /\ [row EXCEPT !.active = x] \in Promotion
                         /\ [row EXCEPT !.active = x].state = row.state
  BY DEF Promotion
<1>3. ASSUME NEW first \in Time, NEW last \in Time, NEW offer \in Offers \cup {NoOffer},
             NEW linked \in BOOLEAN
      PROVE  /\ [row EXCEPT !.state = "there", !.first = first, !.last = last,
                            !.offer = offer, !.linked = linked] \in Promotion
             /\ [row EXCEPT !.first = first, !.last = last, !.apart = {},
                            !.offer = offer, !.linked = linked] \in Promotion
  BY DEF Promotion
<1> QED
  BY <1>1, <1>2, <1>3

\* Local variables of requests about promotions.
LEMMA LocalFields ==
    ASSUME NEW l \in Local
    PROVE  /\ \A offer \in Offers, first, last \in Time :
                [l EXCEPT !.offer = offer, !.first = first, !.last = last] \in Local
           /\ \A op \in {"on", "off"}, p \in Promotions :
                [l EXCEPT !.op = op, !.promotion = p] \in Local
           /\ \A x \in BOOLEAN : [l EXCEPT !.alone = x] \in Local
BY DEF Local

\* What the requests about promotions do to the promotions.
LEMMA PromotionSteps ==
    ASSUME TypeOK, InsertedLast, NEW r \in Requests
    PROVE  /\ CheckOverlap(r) /\ promo' # promo =>
                promo' = [promo EXCEPT ![r] = [promo[r] EXCEPT !.apart = There]]
           /\ InsertPromotion(r) /\ promo' # promo =>
                /\ promo' = [promo EXCEPT ![r] =
                      [promo[r] EXCEPT !.state = "there", !.first = loc[r].first,
                                       !.last = loc[r].last, !.offer = loc[r].offer,
                                       !.linked = TRUE]]
                /\ promo[r].state = "absent"
           /\ Activate(r) /\ promo' # promo =>
                /\ promo[loc[r].promotion].state = "there"
                /\ promo' = [promo EXCEPT ![loc[r].promotion] =
                      [promo[loc[r].promotion] EXCEPT !.active = (loc[r].op = "on")]]
BY DEF CheckOverlap, InsertPromotion, Activate, Row, InsertedLast

\* Requests about promotions, and those that fail.
LEMMA PromotionsTyped ==
    ASSUME TypeOK, InsertedLast, NEW r \in Requests,
           \/ \E first \in Firsts, last \in Lasts :
                \/ \E offer \in Offers : Promote(r, first, last, offer)
                \/ \E p \in Promotions, offer \in Offers \cup {NoOffer} :
                     UpdatePromotion(r, p, first, last, offer)
           \/ \E p \in Promotions : RemovePromotion(r, p) \/ \E on \in BOOLEAN : Toggle(r, p, on)
           \/ CheckOverlap(r) \/ InsertPromotion(r) \/ CheckOthers(r) \/ Activate(r) \/ Abort(r)
    PROVE  TypeOK'
<1>0. /\ reader \in [Readers -> Reader] /\ cache \in [Keys -> List \cup {NoList}]
      /\ promo \in [Promotions -> Promotion] /\ contested \in BOOLEAN
      /\ pc \in [Requests -> Labels] /\ loc \in [Requests -> Local] /\ loc[r] \in Local
      /\ Active \subseteq There /\ \A p \in Promotions : promo[p] \in Promotion
  BY DEF TypeOK
<1>l. {"overlap", "insert", "others", "activate", "over"} \subseteq Labels
  BY DEF Labels, Suspended
<1>1. ASSUME UNCHANGED <<now, product, reader>>, promo' \in [Promotions -> Promotion],
             pc' \in [Requests -> Labels], loc' \in [Requests -> Local],
             cache' \in [Keys -> List \cup {NoList}], contested' \in BOOLEAN,
             \A p \in Promotions : promo'[p].active => promo'[p].state = "there"
      PROVE  TypeOK'
  BY <1>1 DEF TypeOK, Active, There
<1>2. \A p \in Promotions : promo[p].active => promo[p].state = "there"
  BY <1>0 DEF Active, There
<1>3. ASSUME NEW first \in Firsts, NEW last \in Lasts, NEW offer \in Offers,
             Promote(r, first, last, offer)
      PROVE  TypeOK'
  <2> DEFINE l == [loc[r] EXCEPT !.offer = offer, !.first = first, !.last = last]
  <2>1. l \in Local
    BY <1>0, LocalFields, ConstantsTyped
  <2>2. loc' = [loc EXCEPT ![r] = l]
    BY <1>3 DEF Promote
  <2> HIDE DEF l
  <2> QED
    BY <1>0, <1>1, <1>2, <1>3, <1>l, <2>1, <2>2, UpdatesTyped DEF Promote
<1>4. ASSUME NEW first \in Firsts, NEW last \in Lasts, NEW p \in Promotions,
             NEW offer \in Offers \cup {NoOffer}, UpdatePromotion(r, p, first, last, offer)
      PROVE  TypeOK'
  <2> DEFINE row == [promo[p] EXCEPT !.first = first, !.last = last, !.apart = {},
                                     !.offer = IF offer = NoOffer THEN @ ELSE offer,
                                     !.linked = @ \/ offer # NoOffer]
             rest(q) == [promo[q] EXCEPT !.apart = @ \ {p}]
  <2>1. row \in Promotion /\ row.active = promo[p].active /\ row.state = promo[p].state
    <3>1. /\ (IF offer = NoOffer THEN promo[p].offer ELSE offer) \in Offers \cup {NoOffer}
          /\ (promo[p].linked \/ offer # NoOffer) \in BOOLEAN
      BY <1>0 DEF Promotion
    <3>2. row \in Promotion
      <4>1. PICK f \in Offers \cup {NoOffer}, linked \in BOOLEAN :
                /\ f = IF offer = NoOffer THEN promo[p].offer ELSE offer
                /\ linked = (promo[p].linked \/ offer # NoOffer)
        BY <3>1
      <4>2. first \in Time /\ last \in Time
        BY ConstantsTyped
      <4>3. [promo[p] EXCEPT !.first = first, !.last = last, !.apart = {},
                             !.offer = f, !.linked = linked] \in Promotion
        BY <1>0, <4>2, PromotionFields
      <4> QED
        BY <4>1, <4>3
    <3> QED
      BY <1>0, <3>2 DEF Promotion
  <2>2. \A q \in Promotions : /\ rest(q) \in Promotion /\ rest(q).active = promo[q].active
                              /\ rest(q).state = promo[q].state
    <3> SUFFICES ASSUME NEW q \in Promotions
                 PROVE  /\ rest(q) \in Promotion /\ rest(q).active = promo[q].active
                        /\ rest(q).state = promo[q].state
      OBVIOUS
    <3>1. promo[q].apart \ {p} \in SUBSET Promotions
      BY <1>0 DEF Promotion
    <3>2. rest(q) \in Promotion
      BY <1>0, <3>1, PromotionFields
    <3> QED
      BY <1>0, <3>2 DEF Promotion
  <2>3. promo' = [q \in Promotions |-> IF q # p THEN rest(q) ELSE row]
    BY <1>4 DEF UpdatePromotion
  <2> HIDE DEF row, rest
  <2>4. /\ promo' \in [Promotions -> Promotion]
        /\ \A q \in Promotions : promo'[q].active => promo'[q].state = "there"
    BY <1>2, <2>1, <2>2, <2>3
  <2> QED
    BY <1>0, <1>1, <1>4, <2>4, UpdatesTyped DEF UpdatePromotion
<1>5. ASSUME NEW p \in Promotions, RemovePromotion(r, p)
      PROVE  TypeOK'
  <2> DEFINE row == [NoPromotion EXCEPT !.state = "deleted"]
  <2>1. row \in Promotion /\ row.active = FALSE
    BY NoPromotionTyped DEF NoPromotion
  <2>2. promo' = [promo EXCEPT ![p] = row]
    BY <1>5 DEF RemovePromotion
  <2> HIDE DEF row
  <2> QED
    BY <1>0, <1>1, <1>2, <1>5, <2>1, <2>2, UpdatesTyped DEF RemovePromotion
<1>6. ASSUME NEW p \in Promotions, NEW on \in BOOLEAN, Toggle(r, p, on)
      PROVE  TypeOK'
  <2> DEFINE l == [loc[r] EXCEPT !.op = IF on THEN "on" ELSE "off", !.promotion = p]
  <2>1. l \in Local
    BY <1>0, LocalFields
  <2>2. loc' = [loc EXCEPT ![r] = l]
    BY <1>6 DEF Toggle
  <2> HIDE DEF l
  <2>3. pc' \in [Requests -> Labels]
    BY <1>6, <1>l, UpdatesTyped DEF Toggle
  <2> QED
    BY <1>0, <1>1, <1>2, <1>6, <2>1, <2>2, <2>3 DEF Toggle
<1>7. CASE CheckOverlap(r)
  <2>1. /\ promo' \in [Promotions -> Promotion]
        /\ \A p \in Promotions : promo'[p].active => promo'[p].state = "there"
    <3> DEFINE row == [promo[r] EXCEPT !.apart = There]
    <3>1. r \in Promotions /\ There \in SUBSET Promotions
      BY ConstantsTyped DEF There
    <3>2. row \in Promotion
      BY <1>0, <3>1, PromotionFields
    <3>3. row.active = promo[r].active /\ row.state = promo[r].state
      BY <1>0, <3>1 DEF Promotion
    <3>4. promo' = promo \/ promo' = [promo EXCEPT ![r] = row]
      BY <1>7, PromotionSteps
    <3> HIDE DEF row
    <3> QED
      BY <1>0, <1>2, <3>1, <3>2, <3>3, <3>4
  <2>2. pc' \in [Requests -> Labels] /\ loc' \in [Requests -> Local]
    BY <1>0, <1>7, <1>l, UpdatesTyped DEF CheckOverlap
  <2> QED
    BY <1>0, <1>1, <1>7, <2>1, <2>2 DEF CheckOverlap
<1>8. CASE InsertPromotion(r)
  <2>1. /\ promo' \in [Promotions -> Promotion]
        /\ \A p \in Promotions : promo'[p].active => promo'[p].state = "there"
    <3> DEFINE row == [promo[r] EXCEPT !.state = "there", !.first = loc[r].first,
                                       !.last = loc[r].last, !.offer = loc[r].offer,
                                       !.linked = TRUE]
    <3>1. /\ r \in Promotions /\ loc[r].first \in Time /\ loc[r].last \in Time
          /\ loc[r].offer \in Offers \cup {NoOffer}
      BY <1>0, ConstantsTyped DEF Local
    <3>2. row \in Promotion
      BY <1>0, <3>1, PromotionFields
    <3>3. row.state = "there"
      BY <1>0, <3>1 DEF Promotion
    <3>4. promo' = promo \/ promo' = [promo EXCEPT ![r] = row]
      BY <1>8, PromotionSteps
    <3> HIDE DEF row
    <3> QED
      BY <1>0, <1>2, <3>1, <3>2, <3>3, <3>4
  <2> QED
    BY <1>0, <1>1, <1>8, <2>1, UpdatesTyped DEF InsertPromotion
<1>9. CASE CheckOthers(r)
  <2> DEFINE l == [loc[r] EXCEPT !.alone = TRUE]
  <2>1. l \in Local
    BY <1>0, LocalFields
  <2>2. pc' \in [Requests -> Labels] /\ loc' \in [Requests -> Local]
    <3>1. (loc' = [loc EXCEPT ![r] = l] /\ Goto(r, "activate")) \/ Finish(r)
      BY <1>9 DEF CheckOthers
    <3> HIDE DEF l
    <3> QED
      BY <1>0, <1>l, <2>1, <3>1, UpdatesTyped
  <2> QED
    BY <1>0, <1>1, <1>2, <1>9, <2>2 DEF CheckOthers
<1>10. CASE Activate(r)
  <2> DEFINE p == loc[r].promotion
             row == [promo[p] EXCEPT !.active = (loc[r].op = "on")]
             rest(x) == [loc[x] EXCEPT !.alone = @ /\ ~(loc[r].op = "on")]
  <2>1. p \in Promotions
    BY <1>0 DEF Local
  <2>2. row \in Promotion /\ row.state = promo[p].state
    <3>1. (loc[r].op = "on") \in BOOLEAN
      OBVIOUS
    <3> QED
      BY <1>0, <2>1, <3>1, PromotionFields
  <2>3. /\ promo' \in [Promotions -> Promotion]
        /\ \A q \in Promotions : promo'[q].active => promo'[q].state = "there"
    <3>1. promo' = promo \/ (promo[p].state = "there" /\ promo' = [promo EXCEPT ![p] = row])
      BY <1>10, PromotionSteps
    <3> HIDE DEF row, p
    <3> QED
      BY <1>0, <1>2, <2>1, <2>2, <3>1
  <2>4. pc' \in [Requests -> Labels] /\ loc' \in [Requests -> Local] /\ contested' \in BOOLEAN
    <3>1. \A x \in Requests : rest(x) \in Local
      <4> TAKE x \in Requests
      <4>1. loc[x] \in Local /\ (loc[x].alone /\ ~(loc[r].op = "on")) \in BOOLEAN
        BY <1>0 DEF Local
      <4> QED
        BY <4>1, LocalFields
    <3>2. \/ /\ loc' = [x \in Requests |-> IF x = r THEN NoLocal(x) ELSE rest(x)]
             /\ Goto(r, "over") /\ contested' = (contested \/ (loc[r].op = "on" /\ ~loc[r].alone))
          \/ Finish(r) /\ contested' = contested
      BY <1>10 DEF Activate
    <3> HIDE DEF rest
    <3> QED
      BY <1>0, <1>l, <3>1, <3>2, NoLocalTyped, UpdatesTyped
  <2> QED
    BY <1>0, <1>1, <1>10, <2>3, <2>4 DEF Activate
<1>11. CASE Abort(r)
  <2>1. cache' \in [Keys -> List \cup {NoList}]
    BY <1>0, <1>11, UpdatesTyped DEF Abort
  <2> QED
    BY <1>0, <1>1, <1>2, <1>11, <2>1, UpdatesTyped DEF Abort
<1> QED
  BY <1>3, <1>4, <1>5, <1>6, <1>7, <1>8, <1>9, <1>10, <1>11

\* Every step keeps the types.
LEMMA TypesKept ==
    ASSUME TypeOK, ProductKnown, QueriedIsCurrent, InsertedLast, Next
    PROVE  TypeOK'
<1>1. CASE Tick
  <2>1. now' \in Time
    BY <1>1, BoundAssumption DEF Tick, TypeOK, Time
  <2> QED
    BY <1>1, <2>1 DEF Tick, TypeOK, Active, There
<1>2. ASSUME NEW k \in Keys, Expire(k)
      PROVE  TypeOK'
  BY <1>2 DEF Expire, TypeOK, Active, There
<1>3. ASSUME NEW c \in Readers, NEW k \in Keys, Miss(c, k) PROVE TypeOK'
  BY <1>3, ReadsTyped
<1>4. ASSUME NEW c \in Readers, Read(c) \/ Break(c) PROVE TypeOK'
  BY <1>4, ReadsTyped, ConstantsTyped, DataAssumption
<1>5. ASSUME NEW r \in Requests, Call(r) PROVE TypeOK'
  <2>1. CASE \E p \in Products, price \in Prices :
                CreateProduct(r, p, price) \/ FindProduct(r, "update", p, price)
    BY <2>1, ProductsTyped
  <2>2. ASSUME NEW op \in {"remove", "removeMany"}, NEW p \in Products,
               FindProduct(r, op, p, product[p].price)
        PROVE  TypeOK'
    <3>1. PICK price \in Prices : price = product[p].price
      BY DEF TypeOK, ProductRow
    <3>2. FindProduct(r, op, p, price)
      BY <2>2, <3>1 DEF FindProduct
    <3> QED
      BY <2>2, <3>1, <3>2, ProductsTyped
  <2> QED
    BY <1>5, <2>1, <2>2, PromotionsTyped DEF Call
<1>6. ASSUME NEW r \in Requests, Continue(r) \/ Abort(r) PROVE TypeOK'
  BY <1>6, ProductsTyped, PromotionsTyped DEF Continue
<1> QED
  BY <1>1, <1>2, <1>3, <1>4, <1>5, <1>6 DEF Next

-----------------------------------------------------------------------------
(* Lists.                                                                  *)

StepOf(r) == Call(r) \/ Continue(r) \/ Abort(r)

\* A request leaves the others alone, but for what an activation tells them.
LEMMA OthersKeep ==
    ASSUME TypeOK, NEW r \in Requests, StepOf(r), NEW x \in Requests \ {r}
    PROVE  /\ pc'[x] = pc[x]
           /\ loc'[x].product = loc[x].product /\ loc'[x].promotion = loc[x].promotion
           /\ loc'[x].first = loc[x].first /\ loc'[x].last = loc[x].last
           /\ loc'[x].dirty = loc[x].dirty /\ loc'[x].keys = loc[x].keys
           /\ loc'[x].alone => loc[x].alone
<1>0. pc \in [Requests -> Labels] /\ loc \in [Requests -> Local] /\ loc[x] \in Local
  BY DEF TypeOK
<1>1. pc'[x] = pc[x]
  BY <1>0 DEF StepOf, Call, Continue, CreateProduct, FindProduct, Promote, UpdatePromotion,
     RemovePromotion, Toggle, Reread, UpdateProduct, RemoveRows, RemoveProduct, RemoveProducts,
     FindKeys, DeleteKeys, CheckOverlap, InsertPromotion, CheckOthers, Activate, Abort, Goto, Finish
<1>2. CASE loc'[x] = loc[x]
  BY <1>1, <1>2
<1>3. CASE loc'[x] # loc[x]
  <2>1. ~Call(r)
    BY <1>0, <1>3 DEF Call, CreateProduct, FindProduct, Promote, UpdatePromotion,
       RemovePromotion, Toggle, Finish
  <2>2. Activate(r)
    BY <1>0, <1>3, <2>1 DEF StepOf, Continue, Reread, UpdateProduct, RemoveRows, RemoveProduct,
       RemoveProducts, DropProduct, Dirty, FindKeys, DeleteKeys, CheckOverlap, InsertPromotion,
       CheckOthers, Abort, Finish
  <2> DEFINE l == [loc[x] EXCEPT !.alone = @ /\ ~(loc[r].op = "on")]
  <2>3. loc'[x] = l
    BY <1>0, <1>3, <2>2 DEF Activate, Finish
  <2>4. /\ l.product = loc[x].product /\ l.promotion = loc[x].promotion
        /\ l.first = loc[x].first /\ l.last = loc[x].last
        /\ l.dirty = loc[x].dirty /\ l.keys = loc[x].keys
        /\ l.alone => loc[x].alone
    BY <1>0 DEF Local
  <2> HIDE DEF l
  <2> QED
    BY <1>1, <2>3, <2>4
<1> QED
  BY <1>2, <1>3

\* Steps that are not those of requests leave the requests alone.
LEMMA QuietSteps ==
    ASSUME Next
    PROVE  \/ \E r \in Requests : StepOf(r)
           \/ UNCHANGED <<product, promo, pc, loc, contested>>
BY DEF Next, StepOf, Tick, Expire, Miss, Read, Query, Store, Break

\* Whoever changes a product overtakes the readers, and will delete the lists.
LEMMA ProductChanges ==
    ASSUME TypeOK, NEW r \in Requests, StepOf(r)
    PROVE  \/ UNCHANGED <<product, reader>>
           \/ /\ Overtake /\ cache' = cache
              /\ loc'[r].dirty /\ pc'[r] \in {"delete", "reread", "keys"}
<1>0. pc \in [Requests -> Labels] /\ loc \in [Requests -> Local] /\ loc[r] \in Local
  BY DEF TypeOK
<1>1. ASSUME NEW p \in Products, NEW price \in Prices, CreateProduct(r, p, price)
      PROVE  /\ Overtake /\ cache' = cache /\ loc'[r].dirty /\ pc'[r] = "reread"
  BY <1>0, <1>1 DEF CreateProduct, Goto, Local
<1>2. Dirty(r) => loc'[r].dirty
  BY <1>0 DEF Dirty, Local
<1>3. \A label \in Labels : Goto(r, label) => pc'[r] = label
  BY <1>0 DEF Goto
<1>4. CASE UpdateProduct(r)
  BY <1>2, <1>3, <1>4 DEF UpdateProduct, Labels, Suspended
<1>5. CASE RemoveRows(r)
  BY <1>2, <1>3, <1>5 DEF RemoveRows, Labels, Suspended
<1>6. CASE RemoveProduct(r)
  BY <1>2, <1>3, <1>6 DEF RemoveProduct, DropProduct, Labels, Suspended
<1>7. CASE RemoveProducts(r)
  BY <1>2, <1>3, <1>7 DEF RemoveProducts, DropProduct, Labels, Suspended
<1>8. CASE Call(r)
  BY <1>1, <1>8 DEF Call, FindProduct, Promote, UpdatePromotion, RemovePromotion, Toggle
<1> QED
  BY <1>4, <1>5, <1>6, <1>7, <1>8 DEF StepOf, Continue, Reread, FindKeys, DeleteKeys, CheckOverlap,
     InsertPromotion, CheckOthers, Activate, Abort

\* The lists follow from the table of products.
LEMMA CurrentKept == product' = product => Current' = Current
BY DEF Current, Original, IsSold

LEMMA ProductKnownStep ==
    ASSUME TypeOK, ProductKnown, Next
    PROVE  ProductKnown'
<1>1. CASE UNCHANGED <<pc, loc>>
  BY <1>1 DEF ProductKnown
<1>2. ASSUME NEW r \in Requests, StepOf(r), pc'[r] \in {"write", "rows", "delete"}
      PROVE  loc'[r].product \in Products
  <2>0. pc \in [Requests -> Labels] /\ loc \in [Requests -> Local] /\ loc[r] \in Local
    BY DEF TypeOK
  <2>1. RemoveRows(r) \/ Call(r)
    BY <1>2, <2>0 DEF StepOf, Continue, Reread, UpdateProduct, RemoveProduct, RemoveProducts,
       FindKeys, DeleteKeys, CheckOverlap, InsertPromotion, CheckOthers, Activate, Abort, Goto, Finish
  <2>2. CASE RemoveRows(r)
    BY <2>0, <2>2 DEF RemoveRows, Dirty, ProductKnown, Local
  <2>3. ASSUME NEW p \in Products, NEW op \in {"update", "remove", "removeMany"}, NEW price,
               FindProduct(r, op, p, price)
        PROVE  loc'[r].product = p
    <3>1. PICK l \in Local : l = loc[r]
      BY <2>0
    <3>2. /\ [l EXCEPT !.op = op, !.product = p, !.price = price].product = p
          /\ [l EXCEPT !.product = p].product = p
          /\ [l EXCEPT !.op = op, !.product = p].product = p
      BY <3>1 DEF Local
    <3>3. CASE op = "update"
      BY <2>0, <2>3, <3>1, <3>2, <3>3 DEF FindProduct
    <3>4. CASE op # "update"
      BY <2>0, <2>3, <3>1, <3>2, <3>4 DEF FindProduct
    <3> QED
      BY <3>3, <3>4
  <2>4. CASE Call(r)
    <3>1. CASE \E p \in Products, price \in Prices : FindProduct(r, "update", p, price)
      BY <2>3, <3>1
    <3>2. CASE \E op \in {"remove", "removeMany"}, p \in Products :
                 FindProduct(r, op, p, product[p].price)
      BY <2>3, <3>2
    <3> QED
      BY <1>2, <2>0, <2>4, <3>1, <3>2 DEF Call, CreateProduct, Promote, UpdatePromotion,
         RemovePromotion, Toggle, Goto, Finish
  <2> QED
    BY <2>1, <2>2, <2>4
<1>3. ASSUME NEW r \in Requests, StepOf(r)
      PROVE  ProductKnown'
  BY <1>2, <1>3, OthersKeep DEF ProductKnown
<1> QED
  BY <1>1, <1>3, QuietSteps

LEMMA QueriedStep ==
    ASSUME TypeOK, QueriedIsCurrent, Next
    PROVE  QueriedIsCurrent'
<1>0. reader \in [Readers -> Reader]
  BY DEF TypeOK
<1>1. CASE UNCHANGED <<product, reader>>
  BY <1>1, CurrentKept DEF QueriedIsCurrent
<1>2. CASE Overtake
  <2> SUFFICES ASSUME NEW c \in Readers, reader'[c].at = "store"
               PROVE  reader'[c].list \in List /\ reader'[c].list.outrun
    BY DEF QueriedIsCurrent
  <2>1. CASE reader[c].at = "store"
    <3> DEFINE row == [reader[c] EXCEPT !.list = [@ EXCEPT !.outrun = TRUE]]
    <3>1. reader[c].list \in List /\ reader[c] \in Reader
      BY <1>0, <2>1 DEF QueriedIsCurrent
    <3>2. row.list = [reader[c].list EXCEPT !.outrun = TRUE]
      BY <3>1 DEF Reader
    <3>3. reader'[c] = row
      BY <1>2, <2>1 DEF Overtake
    <3> QED
      BY <3>1, <3>2, <3>3, OutrunTyped
  <2>2. CASE reader[c].at # "store"
    BY <1>2, <2>2 DEF Overtake
  <2> QED
    BY <2>1, <2>2
<1>3. ASSUME NEW c \in Readers, product' = product,
             \A x \in Readers \ {c} : reader'[x] = reader[x],
             reader'[c].at = "store" =>
                 reader'[c].list \in List /\ reader'[c].list.original = Current
      PROVE  QueriedIsCurrent'
  BY <1>3, CurrentKept DEF QueriedIsCurrent
<1>4. ASSUME NEW c \in Readers, NEW k \in Keys, Miss(c, k)
      PROVE  QueriedIsCurrent'
  <2>1. reader'[c].at = "query" /\ product' = product
    BY <1>0, <1>4 DEF Miss, Reader
  <2> QED
    BY <1>0, <1>3, <1>4, <2>1 DEF Miss
<1>5. ASSUME NEW c \in Readers, Query(c)
      PROVE  QueriedIsCurrent'
  <2>0. reader[c].key \in Keys /\ reader[c] \in Reader
    BY <1>0 DEF Reader
  <2>1. PICK list \in Queried(reader[c].key) :
            reader' = [reader EXCEPT ![c] = [@ EXCEPT !.at = "store", !.list = list]]
    BY <1>5 DEF Query
  <2>2. list \in List /\ list.original = Current
    BY <2>0, QueriedTyped
  <2>3. reader'[c].list = list
    BY <1>0, <2>0, <2>1 DEF Reader
  <2> QED
    BY <1>0, <1>3, <1>5, <2>1, <2>2, <2>3 DEF Query
<1>6. ASSUME NEW c \in Readers, Leave(c), product' = product
      PROVE  QueriedIsCurrent'
  <2>1. reader'[c].at = "idle"
    BY <1>0, <1>6, ConstantsTyped DEF Leave
  <2> QED
    BY <1>0, <1>3, <1>6, <2>1 DEF Leave
<1>7. ASSUME NEW c \in Readers, Read(c) \/ Break(c)
      PROVE  QueriedIsCurrent'
  BY <1>5, <1>6, <1>7 DEF Read, Store, Break
<1>8. ASSUME NEW r \in Requests, StepOf(r)
      PROVE  QueriedIsCurrent'
  BY <1>1, <1>2, <1>8, ProductChanges
<1> QED
  BY <1>1, <1>4, <1>7, <1>8 DEF Next, StepOf, Tick, Expire

\* A request that is about to delete a list stays so until the list is gone, or
\* is known to be outrun.
LEMMA DeletesUntilDone ==
    ASSUME TypeOK, NEW r \in Requests, StepOf(r), NEW k \in Keys, Deletes(r, k)
    PROVE  \/ Deletes(r, k)'
           \/ cache'[k] = NoList
           \/ cache[k] \in List => cache'[k].outrun
<1>0. /\ pc \in [Requests -> Labels] /\ loc \in [Requests -> Local] /\ loc[r] \in Local
      /\ cache \in [Keys -> List \cup {NoList}]
  BY DEF TypeOK
<1>1. cache' = [x \in Keys |-> Forgive(x)] => cache'[k] = NoList \/ (cache[k] \in List => cache'[k].outrun)
  BY OutrunTyped DEF Forgive
<1>2. CASE Reread(r)
  BY <1>0, <1>2 DEF Reread, Goto, Deletes
<1>3. CASE RemoveProduct(r)
  <2>1. CASE product[loc[r].product].state = "there"
    BY <1>0, <1>3, <2>1 DEF RemoveProduct, DropProduct, Dirty, Goto, Deletes, Local
  <2>2. CASE product[loc[r].product].state # "there"
    BY <1>1, <1>3, <2>2 DEF RemoveProduct, Deletes
  <2> QED
    BY <2>1, <2>2
<1>4. CASE FindKeys(r)
  <2>1. CASE cache[k] = NoList
    BY <1>4, <2>1 DEF FindKeys
  <2>2. CASE cache[k] # NoList
    <3> DEFINE l == [loc[r] EXCEPT !.keys = Matching]
    <3>1. k \in Matching
      BY <2>2 DEF Matching
    <3>2. l.keys = Matching /\ l.dirty = loc[r].dirty
      BY <1>0 DEF Local
    <3>3. loc'[r] = l /\ pc'[r] = "del"
      BY <1>0, <1>4, <3>1 DEF FindKeys, Goto
    <3> QED
      BY <3>1, <3>2, <3>3 DEF Deletes
  <2> QED
    BY <2>1, <2>2
<1>5. CASE DeleteKeys(r)
  BY <1>5 DEF DeleteKeys, Deletes
<1>6. CASE Abort(r)
  BY <1>1, <1>6 DEF Abort, Deletes
<1>7. pc[r] \in {"delete", "reread", "keys", "del"}
  BY DEF Deletes
<1>8. ~Call(r)
  BY <1>7 DEF Call, CreateProduct, FindProduct, Promote, UpdatePromotion, RemovePromotion, Toggle,
     Starts
<1>9. ~(UpdateProduct(r) \/ RemoveRows(r) \/ RemoveProducts(r) \/ CheckOverlap(r)
        \/ InsertPromotion(r) \/ CheckOthers(r) \/ Activate(r))
  BY <1>7 DEF UpdateProduct, RemoveRows, RemoveProducts, CheckOverlap, InsertPromotion, CheckOthers,
     Activate
<1> QED
  BY <1>2, <1>3, <1>4, <1>5, <1>6, <1>8, <1>9 DEF StepOf, Continue

\* What happens to a list.
LEMMA CacheChanges ==
    ASSUME TypeOK, QueriedIsCurrent, Next, NEW k \in Keys
    PROVE  \/ cache'[k] \in {cache[k], NoList}
           \/ cache[k] # NoList /\ cache'[k].outrun
           \/ /\ product' = product /\ UNCHANGED <<pc, loc>>
              /\ cache'[k].outrun \/ cache'[k].original = Current
<1>0. cache \in [Keys -> List \cup {NoList}] /\ reader \in [Readers -> Reader]
  BY DEF TypeOK
<1>1. cache' = [x \in Keys |-> Forgive(x)] =>
          cache'[k] = NoList \/ (cache[k] # NoList /\ cache'[k].outrun)
  BY <1>0, OutrunTyped DEF Forgive
<1>2. ASSUME NEW c \in Readers, Store(c)
      PROVE  \/ cache'[k] = cache[k]
             \/ cache'[k].outrun \/ cache'[k].original = Current
  BY <1>0, <1>2 DEF Store, QueriedIsCurrent
<1>3. ASSUME NEW r \in Requests, StepOf(r)
      PROVE  \/ cache' = cache \/ cache' = [x \in Keys |-> Forgive(x)]
             \/ cache'[k] \in {cache[k], NoList}
  BY <1>3 DEF StepOf, Call, Continue, CreateProduct, FindProduct, Promote, UpdatePromotion,
     RemovePromotion, Toggle, Reread, UpdateProduct, RemoveRows, RemoveProduct, RemoveProducts,
     FindKeys, DeleteKeys, CheckOverlap, InsertPromotion, CheckOthers, Activate, Abort
<1>4. CASE Tick
  BY <1>4 DEF Tick
<1>5. ASSUME NEW x \in Keys, Expire(x) PROVE cache'[k] \in {cache[k], NoList}
  BY <1>0, <1>5 DEF Expire
<1>6. ASSUME NEW x \in Keys, NEW c \in Readers, Miss(c, x) PROVE cache' = cache
  BY <1>6 DEF Miss
<1>7. ASSUME NEW c \in Readers, Query(c) \/ Break(c) PROVE cache' = cache
  BY <1>7 DEF Query, Break
<1>8. ASSUME NEW c \in Readers, Store(c) PROVE product' = product /\ UNCHANGED <<pc, loc>>
  BY <1>8 DEF Store
<1> QED
  BY <1>1, <1>2, <1>3, <1>4, <1>5, <1>6, <1>7, <1>8 DEF Next, StepOf, Read

LEMMA StaleStep ==
    ASSUME TypeOK, QueriedIsCurrent, StaleIsDeleted, Next
    PROVE  StaleIsDeleted'
<1> SUFFICES ASSUME NEW k \in Keys, Stale(k)'
             PROVE  \E r \in Requests : Deletes(r, k)'
  BY DEF StaleIsDeleted
<1>0. /\ cache' [k] # NoList /\ ~cache'[k].outrun /\ cache'[k].original # Current'
      /\ cache \in [Keys -> List \cup {NoList}]
  BY DEF Stale, TypeOK
<1>1. ASSUME NEW r \in Requests, StepOf(r), loc'[r].dirty, pc'[r] \in {"delete", "reread", "keys"}
      PROVE  Deletes(r, k)'
  BY <1>1 DEF Deletes
<1>2. CASE product' = product
  <2>1. Current' = Current
    BY <1>2, CurrentKept
  <2>2. cache'[k] = cache[k]
    BY <1>0, <2>1, CacheChanges
  <2>3. PICK x \in Requests : Deletes(x, k)
    BY <1>0, <2>1, <2>2 DEF StaleIsDeleted, Stale
  <2>4. CASE UNCHANGED <<pc, loc>>
    BY <2>3, <2>4 DEF Deletes
  <2>5. ASSUME NEW r \in Requests, StepOf(r)
        PROVE  Deletes(x, k)'
    <3>1. CASE r = x
      BY <1>0, <2>2, <2>3, <2>5, <3>1, DeletesUntilDone
    <3>2. CASE r # x
      <4>1. pc'[x] = pc[x] /\ loc'[x].dirty = loc[x].dirty /\ loc'[x].keys = loc[x].keys
        BY <2>5, <3>2, OthersKeep
      <4> QED
        BY <2>3, <4>1 DEF Deletes
    <3> QED
      BY <3>1, <3>2
  <2> QED
    BY <2>3, <2>4, <2>5, QuietSteps
<1>3. CASE product' # product
  BY <1>1, <1>3, QuietSteps, ProductChanges
<1> QED
  BY <1>2, <1>3

-----------------------------------------------------------------------------
(* Periods.                                                                *)

\* A step that leaves the period of p alone, and what p was compared with.
PeriodKept(p) ==
    /\ promo'[p].state = promo[p].state
    /\ promo'[p].first = promo[p].first /\ promo'[p].last = promo[p].last
    /\ promo'[p].apart = promo[p].apart

\* Nothing about periods changes, and no request gets to insert.
PeriodsKept(r) == (\A p \in Promotions : PeriodKept(p)) /\ pc'[r] # "insert"

\* Request r compares its period with those that are there,
Compares(r) ==
    /\ pc[r] = "overlap" /\ pc'[r] = "insert"
    /\ promo'[r].apart = There /\ promo'[r].state = promo[r].state
    /\ \A p \in Promotions \ {r} : PeriodKept(p)
    /\ loc'[r] = loc[r] /\ Overlapping(loc[r].first, loc[r].last) = {}

\* inserts it,
Inserts(r) ==
    /\ pc[r] = "insert" /\ pc'[r] = "over"
    /\ promo'[r].state = "there" /\ promo'[r].apart = promo[r].apart
    /\ promo'[r].first = loc[r].first /\ promo'[r].last = loc[r].last
    /\ \A p \in Promotions \ {r} : PeriodKept(p)

\* changes the period of p,
Changes(r, p) ==
    /\ pc[r] = "idle" /\ pc'[r] = "over" /\ promo[p].state = "there"
    /\ promo'[p].state = promo[p].state /\ promo'[p].apart = {}
    /\ \A q \in Promotions \ {p} :
         /\ promo'[q].state = promo[q].state
         /\ promo'[q].first = promo[q].first /\ promo'[q].last = promo[q].last
         /\ promo'[q].apart = promo[q].apart \ {p}

\* or removes p.
Removes(r, p) ==
    /\ pc[r] = "idle" /\ pc'[r] = "over" /\ promo[p].state = "there"
    /\ promo'[p].state = "deleted" /\ promo'[p].apart = {}
    /\ \A q \in Promotions \ {p} : PeriodKept(q)

\* Nothing else happens to periods.
LEMMA PeriodSteps ==
    ASSUME TypeOK, ProductKnown, InsertedLast, NEW r \in Requests, StepOf(r)
    PROVE  \/ PeriodsKept(r) \/ Compares(r) \/ Inserts(r)
           \/ \E p \in Promotions : Changes(r, p) \/ Removes(r, p)
<1>0. /\ promo \in [Promotions -> Promotion] /\ r \in Promotions
      /\ pc \in [Requests -> Labels] /\ loc \in [Requests -> Local] /\ loc[r] \in Local
      /\ \A p \in Promotions : promo[p] \in Promotion
  BY ConstantsTyped DEF TypeOK
<1>g. \A label : Goto(r, label) => pc'[r] = label
  BY <1>0 DEF Goto
<1>f. Finish(r) => pc'[r] = "over"
  BY <1>g DEF Finish
<1>1. ASSUME promo' = promo, pc'[r] # "insert"
      PROVE  PeriodsKept(r)
  BY <1>1 DEF PeriodsKept, PeriodKept
<1>2. ASSUME UnlinkRows, pc'[r] # "insert"
      PROVE  PeriodsKept(r)
  <2> SUFFICES ASSUME NEW p \in Promotions PROVE PeriodKept(p)
    BY <1>2 DEF PeriodsKept
  <2> DEFINE row == [promo[p] EXCEPT !.linked = FALSE]
  <2>1. /\ row.state = promo[p].state /\ row.first = promo[p].first /\ row.last = promo[p].last
        /\ row.apart = promo[p].apart
    BY <1>0 DEF Promotion
  <2>2. promo'[p] = row
    BY <1>2 DEF UnlinkRows
  <2> HIDE DEF row
  <2> QED
    BY <2>1, <2>2 DEF PeriodKept
<1>3. CASE UpdateProduct(r)
  BY <1>1, <1>2, <1>3, <1>f, <1>g DEF UpdateProduct
<1>4. CASE RemoveRows(r)
  BY <1>1, <1>2, <1>4, <1>g DEF RemoveRows
<1>5. CASE RemoveProduct(r)
  BY <1>1, <1>2, <1>5, <1>f, <1>g DEF RemoveProduct, DropProduct
<1>6. CASE RemoveProducts(r)
  BY <1>1, <1>2, <1>6, <1>g DEF RemoveProducts, DropProduct
<1>7. CASE Reread(r) \/ FindKeys(r) \/ DeleteKeys(r) \/ CheckOthers(r) \/ Abort(r)
  BY <1>1, <1>7, <1>f, <1>g DEF Reread, FindKeys, DeleteKeys, CheckOthers, Abort
<1>8. CASE CheckOverlap(r)
  <2>1. CASE Overlapping(loc[r].first, loc[r].last) = {}
    <3> DEFINE row == [promo[r] EXCEPT !.apart = There]
    <3>1. row.apart = There /\ row.state = promo[r].state
      BY <1>0 DEF Promotion
    <3>2. promo' = [promo EXCEPT ![r] = row] /\ pc'[r] = "insert" /\ loc' = loc /\ pc[r] = "overlap"
      BY <1>8, <1>g, <2>1 DEF CheckOverlap
    <3> HIDE DEF row
    <3>3. promo'[r] = row /\ \A p \in Promotions \ {r} : promo'[p] = promo[p]
      BY <1>0, <3>2
    <3> QED
      BY <2>1, <3>1, <3>2, <3>3 DEF Compares, PeriodKept
  <2>2. CASE Overlapping(loc[r].first, loc[r].last) # {}
    BY <1>1, <1>8, <1>f, <2>2 DEF CheckOverlap
  <2> QED
    BY <2>1, <2>2
<1>9. CASE InsertPromotion(r)
  <2>1. CASE promo' = promo
    BY <1>1, <1>9, <1>f, <2>1 DEF InsertPromotion
  <2>2. CASE promo' # promo
    <3> DEFINE row == [promo[r] EXCEPT !.state = "there", !.first = loc[r].first,
                                       !.last = loc[r].last, !.offer = loc[r].offer,
                                       !.linked = TRUE]
    <3>1. /\ row.state = "there" /\ row.first = loc[r].first /\ row.last = loc[r].last
          /\ row.apart = promo[r].apart
      BY <1>0 DEF Promotion
    <3>2. promo' = [promo EXCEPT ![r] = row]
      BY <1>9, <2>2, PromotionSteps
    <3> HIDE DEF row
    <3>3. promo'[r] = row /\ \A p \in Promotions \ {r} : promo'[p] = promo[p]
      BY <1>0, <3>2
    <3> QED
      BY <1>9, <1>f, <3>1, <3>3 DEF Inserts, PeriodKept, InsertPromotion
  <2> QED
    BY <2>1, <2>2
<1>10. CASE Activate(r)
  <2>0. pc'[r] = "over"
    BY <1>10, <1>f, <1>g DEF Activate
  <2>1. CASE promo' = promo
    BY <1>1, <2>0, <2>1
  <2>2. CASE promo' # promo
    <3>1. PICK q \in Promotions : q = loc[r].promotion
      BY <1>0 DEF Local
    <3>2. PICK on \in BOOLEAN : on = (loc[r].op = "on")
      OBVIOUS
    <3> DEFINE row == [promo[q] EXCEPT !.active = on]
    <3>3. /\ row.state = promo[q].state /\ row.first = promo[q].first /\ row.last = promo[q].last
          /\ row.apart = promo[q].apart
      BY <1>0, <3>1 DEF Promotion
    <3>4. promo' = [promo EXCEPT ![q] = row]
      BY <1>10, <2>2, <3>1, <3>2, PromotionSteps
    <3> HIDE DEF row
    <3>5. promo'[q] = row /\ \A p \in Promotions \ {q} : promo'[p] = promo[p]
      BY <1>0, <3>1, <3>4
    <3> QED
      BY <2>0, <3>3, <3>5 DEF PeriodsKept, PeriodKept
  <2> QED
    BY <2>1, <2>2
<1>11. ASSUME NEW p \in Promotions, NEW first, NEW last, NEW offer,
              UpdatePromotion(r, p, first, last, offer)
       PROVE  Changes(r, p)
  <2> DEFINE row == [promo[p] EXCEPT !.first = first, !.last = last, !.apart = {},
                                     !.offer = IF offer = NoOffer THEN @ ELSE offer,
                                     !.linked = @ \/ offer # NoOffer]
             rest(q) == [promo[q] EXCEPT !.apart = @ \ {p}]
  <2>1. row.state = promo[p].state /\ row.apart = {}
    BY <1>0 DEF Promotion
  <2>2. \A q \in Promotions :
            /\ rest(q).state = promo[q].state
            /\ rest(q).first = promo[q].first /\ rest(q).last = promo[q].last
            /\ rest(q).apart = promo[q].apart \ {p}
    <3> TAKE q \in Promotions
    <3>1. promo[q] \in Promotion
      BY <1>0
    <3> QED
      BY <3>1 DEF Promotion
  <2>3. promo' = [q \in Promotions |-> IF q # p THEN rest(q) ELSE row]
    BY <1>11 DEF UpdatePromotion
  <2> HIDE DEF row, rest
  <2>4. promo'[p] = row /\ \A q \in Promotions \ {p} : promo'[q] = rest(q)
    BY <2>3
  <2>5. pc[r] = "idle" /\ pc'[r] = "over" /\ promo[p].state = "there"
    BY <1>11, <1>f DEF UpdatePromotion, Row, Starts
  <2> QED
    BY <2>1, <2>2, <2>4, <2>5 DEF Changes
<1>12. ASSUME NEW p \in Promotions, RemovePromotion(r, p)
       PROVE  Removes(r, p)
  <2> DEFINE row == [NoPromotion EXCEPT !.state = "deleted"]
  <2>1. row.state = "deleted" /\ row.apart = {}
    BY DEF NoPromotion
  <2>2. promo' = [promo EXCEPT ![p] = row]
    BY <1>12 DEF RemovePromotion
  <2> HIDE DEF row
  <2>3. promo'[p] = row /\ \A q \in Promotions \ {p} : promo'[q] = promo[q]
    BY <1>0, <2>2
  <2> QED
    BY <1>12, <1>f, <2>1, <2>3 DEF Removes, PeriodKept, RemovePromotion, Starts
<1>13. ASSUME NEW p \in Products, NEW price, CreateProduct(r, p, price)
       PROVE  PeriodsKept(r)
  BY <1>1, <1>13, <1>g DEF CreateProduct
<1>14. ASSUME NEW op, NEW p \in Products, NEW price, FindProduct(r, op, p, price)
       PROVE  PeriodsKept(r)
  BY <1>1, <1>14, <1>g DEF FindProduct
<1>15. ASSUME NEW first, NEW last, NEW offer, Promote(r, first, last, offer)
       PROVE  PeriodsKept(r)
  BY <1>1, <1>15, <1>g DEF Promote
<1>16. ASSUME NEW p, NEW on, Toggle(r, p, on)
       PROVE  PeriodsKept(r)
  BY <1>1, <1>16, <1>g DEF Toggle
<1>17. CASE Call(r)
  BY <1>11, <1>12, <1>13, <1>14, <1>15, <1>16, <1>17 DEF Call
<1> QED
  BY <1>3, <1>4, <1>5, <1>6, <1>7, <1>8, <1>9, <1>10, <1>17 DEF StepOf, Continue

LEMMA InsertedLastStep ==
    ASSUME TypeOK, ProductKnown, InsertedLast, Next
    PROVE  InsertedLast'
<1>0. Requests \subseteq Promotions /\ pc \in [Requests -> Labels]
  BY ConstantsTyped DEF TypeOK
<1>1. CASE UNCHANGED <<promo, pc>>
  BY <1>1 DEF InsertedLast
<1>2. ASSUME NEW r \in Requests, StepOf(r)
      PROVE  InsertedLast'
  <2> SUFFICES ASSUME NEW x \in Requests, pc'[x] \in {"idle", "overlap", "insert"}
               PROVE  promo'[x].state = "absent"
    BY DEF InsertedLast
  <2>1. pc[x] \in {"idle", "overlap", "insert"}
    <3>1. CASE x # r
      BY <1>2, <3>1, OthersKeep
    <3>2. CASE x = r
      <4>1. \/ Call(r) \/ CheckOverlap(r)
        BY <1>0, <1>2, <3>2 DEF StepOf, Continue, Reread, UpdateProduct, RemoveRows, RemoveProduct,
           RemoveProducts, FindKeys, DeleteKeys, InsertPromotion, CheckOthers, Activate, Abort,
           Goto, Finish
      <4> QED
        BY <3>2, <4>1 DEF Call, CheckOverlap, CreateProduct, FindProduct, Promote, UpdatePromotion,
           RemovePromotion, Toggle, Starts
    <3> QED
      BY <3>1, <3>2
  <2>2. promo[x].state = "absent"
    BY <2>1 DEF InsertedLast
  <2>3. CASE PeriodsKept(r) \/ Compares(r)
    BY <1>0, <2>2, <2>3 DEF PeriodsKept, Compares, PeriodKept
  <2>4. CASE Inserts(r)
    <3>1. x # r
      BY <2>4 DEF Inserts
    <3> QED
      BY <1>0, <2>2, <2>4, <3>1 DEF Inserts, PeriodKept
  <2>5. ASSUME NEW p \in Promotions, Changes(r, p) \/ Removes(r, p)
        PROVE  promo'[x].state = "absent"
    BY <1>0, <2>2, <2>5 DEF Changes, Removes, PeriodKept
  <2> QED
    BY <1>2, <2>3, <2>4, <2>5, PeriodSteps
<1> QED
  BY <1>1, <1>2, QuietSteps

\* A promotion that was there is known for good.
LEMMA KnownForGood ==
    ASSUME TypeOK, ProductKnown, InsertedLast, NEW r \in Requests, StepOf(r),
           NEW q \in Promotions, promo[q].state # "absent"
    PROVE  promo'[q].state # "absent"
<1>1. CASE PeriodsKept(r)
  BY <1>1 DEF PeriodsKept, PeriodKept
<1>2. CASE Compares(r) \/ Inserts(r)
  BY <1>2, ConstantsTyped DEF Compares, Inserts, PeriodKept
<1>3. ASSUME NEW p \in Promotions, Changes(r, p) \/ Removes(r, p)
      PROVE  promo'[q].state # "absent"
  BY <1>3 DEF Changes, Removes, PeriodKept
<1> QED
  BY <1>1, <1>2, <1>3, PeriodSteps

LEMMA ComparedWereThereStep ==
    ASSUME TypeOK, ProductKnown, InsertedLast, ComparedWereThere, Next
    PROVE  ComparedWereThere'
<1>0. Requests \subseteq Promotions /\ There \subseteq Promotions
  BY ConstantsTyped DEF There
<1>a. \A p \in Promotions : promo[p].apart \subseteq Promotions
  BY DEF TypeOK, Promotion
<1>1. CASE promo' = promo
  BY <1>1 DEF ComparedWereThere
<1>2. ASSUME NEW r \in Requests, StepOf(r)
      PROVE  ComparedWereThere'
  <2>1. \A p \in Promotions : promo'[p].apart \subseteq promo[p].apart \cup There
    <3>1. CASE PeriodsKept(r)
      BY <3>1 DEF PeriodsKept, PeriodKept
    <3>2. CASE Compares(r) \/ Inserts(r)
      BY <3>2, <1>0 DEF Compares, Inserts, PeriodKept
    <3>3. ASSUME NEW q \in Promotions, Changes(r, q) \/ Removes(r, q)
          PROVE  \A p \in Promotions : promo'[p].apart \subseteq promo[p].apart
      BY <3>3 DEF Changes, Removes, PeriodKept
    <3> QED
      BY <1>2, <3>1, <3>2, <3>3, PeriodSteps
  <2>2. \A p \in Promotions : \A q \in promo'[p].apart :
            q \in Promotions /\ promo[q].state # "absent"
    BY <1>0, <1>a, <2>1 DEF ComparedWereThere, There
  <2> QED
    BY <1>2, <2>2, KnownForGood DEF ComparedWereThere
<1> QED
  BY <1>1, <1>2, QuietSteps

\* Whether q is in the way of a period depends on q only.
InTheWay(q, first, last) ==
    /\ promo[q].state = "there"
    /\ \/ promo[q].first <= last /\ last <= promo[q].last
       \/ promo[q].first <= first /\ last <= promo[q].last
       \/ promo[q].first <= first /\ first <= promo[q].last

KeepOut(p, first, last) ==
    \A q \in promo[p].apart : ~InTheWay(q, first, last)

LEMMA KeepOutMeans ==
    ASSUME TypeOK, NEW p \in Promotions, NEW first, NEW last
    PROVE  promo[p].apart \cap Overlapping(first, last) = {} <=> KeepOut(p, first, last)
<1>1. promo[p].apart \subseteq Promotions
  BY DEF TypeOK, Promotion
<1> QED
  BY <1>1 DEF KeepOut, InTheWay, Overlapping, There

\* The statements of ComparedKeepOut, promotion by promotion.
LEMMA ComparedKeepOutMeans ==
    ASSUME TypeOK
    PROVE  ComparedKeepOut <=>
             /\ \A p \in Promotions : promo[p].state = "there" =>
                    KeepOut(p, promo[p].first, promo[p].last)
             /\ \A r \in Requests : pc[r] = "insert" => KeepOut(r, loc[r].first, loc[r].last)
<1>1. Requests \subseteq Promotions
  BY ConstantsTyped
<1>2. \A p \in Promotions :
        promo[p].apart \cap Overlapping(promo[p].first, promo[p].last) = {}
          <=> KeepOut(p, promo[p].first, promo[p].last)
  BY KeepOutMeans
<1>3. \A r \in Requests :
        promo[r].apart \cap Overlapping(loc[r].first, loc[r].last) = {}
          <=> KeepOut(r, loc[r].first, loc[r].last)
  BY <1>1, KeepOutMeans
<1> QED
  BY <1>2, <1>3 DEF ComparedKeepOut, There

\* A promotion keeps out what it kept out, whoever steps.
LEMMA KeepOutKept ==
    ASSUME TypeOK, ProductKnown, InsertedLast, ComparedWereThere, NEW r \in Requests, StepOf(r),
           NEW p \in Promotions, NEW first, NEW last, KeepOut(p, first, last),
           ~(p = r /\ Compares(r))
    PROVE  KeepOut(p, first, last)'
<1>a. promo[p].apart \subseteq Promotions
  BY DEF TypeOK, Promotion
<1>1. ASSUME promo'[p].apart \subseteq promo[p].apart,
             \A q \in promo'[p].apart :
                \/ promo'[q].state # "there"
                \/ /\ promo'[q].state = promo[q].state
                   /\ promo'[q].first = promo[q].first /\ promo'[q].last = promo[q].last
      PROVE  KeepOut(p, first, last)'
  BY <1>1 DEF KeepOut, InTheWay
<1>2. CASE PeriodsKept(r)
  BY <1>a, <1>1, <1>2 DEF PeriodsKept, PeriodKept
<1>3. CASE Compares(r)
  <2>1. promo'[r].state = "absent"
    BY <1>3 DEF Compares, InsertedLast
  <2> QED
    BY <1>a, <1>1, <1>3, <2>1 DEF Compares, PeriodKept
<1>4. CASE Inserts(r)
  <2>1. r \notin promo[p].apart
    BY <1>4 DEF Inserts, InsertedLast, ComparedWereThere
  <2>2. promo'[p].apart = promo[p].apart
    BY <1>4 DEF Inserts, PeriodKept
  <2> QED
    BY <1>a, <1>1, <1>4, <2>1, <2>2 DEF Inserts, PeriodKept
<1>5. ASSUME NEW x \in Promotions, Changes(r, x)
      PROVE  KeepOut(p, first, last)'
  <2>1. promo'[p].apart \subseteq promo[p].apart \ {x}
    BY <1>5 DEF Changes
  <2> QED
    BY <1>a, <1>1, <1>5, <2>1 DEF Changes
<1>6. ASSUME NEW x \in Promotions, Removes(r, x)
      PROVE  KeepOut(p, first, last)'
  <2>1. promo'[p].apart \subseteq promo[p].apart
    BY <1>6 DEF Removes, PeriodKept
  <2> QED
    BY <1>a, <1>1, <1>6, <2>1 DEF Removes, PeriodKept
<1> QED
  BY <1>2, <1>3, <1>4, <1>5, <1>6, PeriodSteps

LEMMA ComparedKeepOutStep ==
    ASSUME TypeOK, TypeOK', ProductKnown, InsertedLast, ComparedWereThere, ComparedKeepOut, Next
    PROVE  ComparedKeepOut'
<1>0. Requests \subseteq Promotions
  BY ConstantsTyped
<1>p. /\ \A p \in Promotions : promo[p].state = "there" =>
             KeepOut(p, promo[p].first, promo[p].last)
      /\ \A r \in Requests : pc[r] = "insert" => KeepOut(r, loc[r].first, loc[r].last)
  BY ComparedKeepOutMeans
<1>1. CASE UNCHANGED <<promo, pc, loc>>
  BY <1>1 DEF ComparedKeepOut, There, Overlapping
<1>2. ASSUME NEW r \in Requests, StepOf(r)
      PROVE  ComparedKeepOut'
  <2>1. ASSUME NEW p \in Promotions, (promo[p].state = "there")'
        PROVE  KeepOut(p, promo[p].first, promo[p].last)'
    <3>1. ASSUME NEW first, NEW last, KeepOut(p, first, last),
                 promo'[p].first = first, promo'[p].last = last, ~(p = r /\ Compares(r))
          PROVE  KeepOut(p, promo[p].first, promo[p].last)'
      <4>1. KeepOut(p, first, last)'
        BY <1>2, <3>1, KeepOutKept
      <4> QED
        BY <3>1, <4>1
    <3>2. ASSUME promo[p].state = "there",
                 promo'[p].first = promo[p].first, promo'[p].last = promo[p].last
          PROVE  KeepOut(p, promo[p].first, promo[p].last)'
      <4>1. ~(p = r /\ Compares(r))
        BY <3>2 DEF Compares, InsertedLast
      <4>2. PICK first, last : first = promo[p].first /\ last = promo[p].last
        OBVIOUS
      <4> QED
        BY <1>p, <3>1, <3>2, <4>1, <4>2
    <3>3. CASE PeriodsKept(r)
      BY <2>1, <3>2, <3>3 DEF PeriodsKept, PeriodKept
    <3>4. CASE Compares(r)
      <4>1. p # r
        BY <2>1, <3>4 DEF Compares, InsertedLast
      <4> QED
        BY <2>1, <3>2, <3>4, <4>1 DEF Compares, PeriodKept
    <3>5. CASE Inserts(r)
      <4>1. CASE p = r
        <5>1. PICK first, last : first = loc[r].first /\ last = loc[r].last
          OBVIOUS
        <5> QED
          BY <1>p, <3>1, <3>5, <4>1, <5>1 DEF Inserts, Compares
      <4>2. CASE p # r
        BY <2>1, <3>2, <3>5, <4>2 DEF Inserts, PeriodKept
      <4> QED
        BY <4>1, <4>2
    <3>6. ASSUME NEW x \in Promotions, Changes(r, x)
          PROVE  KeepOut(p, promo[p].first, promo[p].last)'
      <4>1. CASE p = x
        BY <3>6, <4>1 DEF Changes, KeepOut
      <4>2. CASE p # x
        BY <2>1, <3>2, <3>6, <4>2 DEF Changes
      <4> QED
        BY <4>1, <4>2
    <3>7. ASSUME NEW x \in Promotions, Removes(r, x)
          PROVE  KeepOut(p, promo[p].first, promo[p].last)'
      BY <2>1, <3>2, <3>7 DEF Removes, PeriodKept
    <3> QED
      BY <1>2, <3>3, <3>4, <3>5, <3>6, <3>7, PeriodSteps
  <2>2. ASSUME NEW x \in Requests, (pc[x] = "insert")'
        PROVE  KeepOut(x, loc[x].first, loc[x].last)'
    <3>1. CASE x = r
      <4>1. Compares(r)
        BY <1>2, <2>2, <3>1, PeriodSteps DEF PeriodsKept, Inserts, Changes, Removes
      <4>2. PICK first, last : first = loc[r].first /\ last = loc[r].last
        OBVIOUS
      <4>3. \A q \in There : ~InTheWay(q, first, last) /\ PeriodKept(q)
        BY <4>1, <4>2 DEF Compares, InsertedLast, Overlapping, InTheWay, There
      <4>4. KeepOut(r, first, last)'
        BY <4>1, <4>3 DEF Compares, KeepOut, InTheWay, PeriodKept
      <4> QED
        BY <3>1, <4>1, <4>2, <4>4 DEF Compares
    <3>2. CASE x # r
      <4>1. pc[x] = "insert" /\ loc'[x].first = loc[x].first /\ loc'[x].last = loc[x].last
        BY <1>2, <2>2, <3>2, OthersKeep
      <4>2. PICK first, last : first = loc[x].first /\ last = loc[x].last
        OBVIOUS
      <4>3. KeepOut(x, first, last)'
        BY <1>0, <1>2, <1>p, <3>2, <4>1, <4>2, KeepOutKept
      <4> QED
        BY <4>1, <4>2, <4>3
    <3> QED
      BY <3>1, <3>2
  <2>3. /\ (\A p \in Promotions : promo[p].state = "there" =>
               KeepOut(p, promo[p].first, promo[p].last))'
        /\ (\A x \in Requests : pc[x] = "insert" => KeepOut(x, loc[x].first, loc[x].last))'
    BY <2>1, <2>2
  <2>4. \A p \in Promotions : promo'[p].apart \subseteq Promotions
    BY DEF TypeOK, Promotion
  <2> QED
    BY <1>0, <2>3, <2>4 DEF ComparedKeepOut, There, Overlapping, KeepOut, InTheWay
<1> QED
  BY <1>1, <1>2, QuietSteps

-----------------------------------------------------------------------------
(* Activations.                                                            *)

\* Only activations activate.
LEMMA ActiveSteps ==
    ASSUME TypeOK, NEW r \in Requests, StepOf(r), ~Activate(r)
    PROVE  Active' \subseteq Active /\ contested' = contested
<1>0. /\ promo \in [Promotions -> Promotion] /\ r \in Promotions
      /\ \A p \in Promotions : promo[p] \in Promotion
  BY ConstantsTyped DEF TypeOK
<1>1. contested' = contested
  BY DEF StepOf, Call, Continue, CreateProduct, FindProduct, Promote, UpdatePromotion,
     RemovePromotion, Toggle, Reread, UpdateProduct, RemoveRows, RemoveProduct, RemoveProducts,
     FindKeys, DeleteKeys, CheckOverlap, InsertPromotion, CheckOthers, Abort
<1>2. CASE promo' = promo
  BY <1>1, <1>2 DEF Active
<1>3. CASE UnlinkRows
  <2> SUFFICES ASSUME NEW p \in Promotions PROVE promo'[p].active => promo[p].active
    BY <1>1 DEF Active
  <2> DEFINE row == [promo[p] EXCEPT !.linked = FALSE]
  <2>1. row.active = promo[p].active
    BY <1>0 DEF Promotion
  <2>2. promo'[p] = row
    BY <1>3 DEF UnlinkRows
  <2> QED
    BY <2>1, <2>2
<1>4. ASSUME NEW q \in Promotions, NEW row, row.active => promo[q].active,
             promo' = [promo EXCEPT ![q] = row]
      PROVE  Active' \subseteq Active
  <2>1. promo'[q] = row /\ \A p \in Promotions \ {q} : promo'[p] = promo[p]
    BY <1>0, <1>4
  <2> QED
    BY <1>4, <2>1 DEF Active
<1>5. CASE CheckOverlap(r)
  <2> DEFINE row == [promo[r] EXCEPT !.apart = There]
  <2>1. row.active = promo[r].active
    BY <1>0 DEF Promotion
  <2>2. promo' = promo \/ promo' = [promo EXCEPT ![r] = row]
    BY <1>5 DEF CheckOverlap
  <2> HIDE DEF row
  <2> QED
    BY <1>0, <1>1, <1>2, <1>4, <2>1, <2>2
<1>6. CASE InsertPromotion(r)
  <2> DEFINE row == [promo[r] EXCEPT !.state = "there", !.first = loc[r].first,
                                     !.last = loc[r].last, !.offer = loc[r].offer,
                                     !.linked = TRUE]
  <2>1. row.active = promo[r].active
    BY <1>0 DEF Promotion
  <2>2. promo' = promo \/ promo' = [promo EXCEPT ![r] = row]
    BY <1>6 DEF InsertPromotion
  <2> HIDE DEF row
  <2> QED
    BY <1>0, <1>1, <1>2, <1>4, <2>1, <2>2
<1>7. ASSUME NEW p \in Promotions, NEW first, NEW last, NEW offer,
             UpdatePromotion(r, p, first, last, offer)
      PROVE  Active' \subseteq Active
  <2> DEFINE row == [promo[p] EXCEPT !.first = first, !.last = last, !.apart = {},
                                     !.offer = IF offer = NoOffer THEN @ ELSE offer,
                                     !.linked = @ \/ offer # NoOffer]
             rest(q) == [promo[q] EXCEPT !.apart = @ \ {p}]
  <2>1. row.active = promo[p].active
    BY <1>0 DEF Promotion
  <2>2. \A q \in Promotions : rest(q).active = promo[q].active
    BY <1>0 DEF Promotion
  <2>3. promo' = [q \in Promotions |-> IF q # p THEN rest(q) ELSE row]
    BY <1>7 DEF UpdatePromotion
  <2> HIDE DEF row, rest
  <2> QED
    BY <2>1, <2>2, <2>3 DEF Active
<1>8. ASSUME NEW p \in Promotions, RemovePromotion(r, p)
      PROVE  Active' \subseteq Active
  <2> DEFINE row == [NoPromotion EXCEPT !.state = "deleted"]
  <2>1. ~row.active
    BY DEF NoPromotion
  <2>2. promo' = [promo EXCEPT ![p] = row]
    BY <1>8 DEF RemovePromotion
  <2> HIDE DEF row
  <2> QED
    BY <1>4, <2>1, <2>2
<1>9. CASE Call(r)
  BY <1>1, <1>2, <1>7, <1>8, <1>9 DEF Call, CreateProduct, FindProduct, Promote, Toggle
<1>10. CASE UpdateProduct(r) \/ RemoveRows(r) \/ RemoveProduct(r) \/ RemoveProducts(r)
  BY <1>1, <1>2, <1>3, <1>10 DEF UpdateProduct, RemoveRows, RemoveProduct, RemoveProducts, DropProduct
<1>11. CASE Reread(r) \/ FindKeys(r) \/ DeleteKeys(r) \/ CheckOthers(r) \/ Abort(r)
  BY <1>1, <1>2, <1>11 DEF Reread, FindKeys, DeleteKeys, CheckOthers, Abort
<1> QED
  BY <1>5, <1>6, <1>9, <1>10, <1>11 DEF StepOf, Continue

\* Only a request that has checked the others is alone.
LEMMA AloneSteps ==
    ASSUME TypeOK, AloneActivates, NEW r \in Requests, StepOf(r), loc'[r].alone
    PROVE  /\ CheckOthers(r) /\ Active \subseteq {loc[r].promotion}
           /\ loc'[r].promotion = loc[r].promotion /\ pc'[r] = "activate"
<1>0. /\ pc \in [Requests -> Labels] /\ loc \in [Requests -> Local] /\ loc[r] \in Local
  BY DEF TypeOK
<1>f. ~Finish(r)
  BY <1>0, NoLocalTyped DEF Finish
<1>1. ASSUME pc[r] # "activate", loc'[r].alone = loc[r].alone PROVE FALSE
  BY <1>1 DEF AloneActivates
<1>2. ~Call(r)
  <2>1. ASSUME NEW p \in Products, NEW price, CreateProduct(r, p, price)
        PROVE  pc[r] # "activate" /\ loc'[r].alone = loc[r].alone
    BY <1>0, <2>1 DEF CreateProduct, Starts, Local
  <2>2. ASSUME NEW p \in Products, NEW price, NEW op \in {"update", "remove", "removeMany"},
               FindProduct(r, op, p, price)
        PROVE  pc[r] # "activate" /\ loc'[r].alone = loc[r].alone
    <3>1. CASE op = "update"
      <4> DEFINE l == [loc[r] EXCEPT !.op = op, !.product = p, !.price = price]
      <4>1. l.alone = loc[r].alone
        BY <1>0 DEF Local
      <4>2. loc'[r] = l /\ pc[r] = "idle"
        BY <1>0, <2>2, <3>1 DEF FindProduct, Starts
      <4> QED
        BY <4>1, <4>2
    <3>2. CASE op = "remove"
      BY <1>0, <2>2, <3>2 DEF FindProduct, Starts, Local
    <3>3. CASE op = "removeMany"
      <4> DEFINE l == [loc[r] EXCEPT !.op = op, !.product = p]
      <4>1. l.alone = loc[r].alone
        BY <1>0 DEF Local
      <4>2. loc'[r] = l /\ pc[r] = "idle"
        BY <1>0, <2>2, <3>3 DEF FindProduct, Starts
      <4> QED
        BY <4>1, <4>2
    <3> QED
      BY <3>1, <3>2, <3>3
  <2>3. ASSUME NEW first, NEW last, NEW offer, Promote(r, first, last, offer)
        PROVE  pc[r] # "activate" /\ loc'[r].alone = loc[r].alone
    BY <1>0, <2>3 DEF Promote, Starts, Local
  <2>4. ASSUME NEW p, NEW on, Toggle(r, p, on)
        PROVE  pc[r] # "activate" /\ loc'[r].alone = loc[r].alone
    BY <1>0, <2>4 DEF Toggle, Starts, Local
  <2> QED
    BY <1>1, <1>f, <2>1, <2>2, <2>3, <2>4 DEF Call, UpdatePromotion, RemovePromotion
<1>3. Dirty(r) => loc'[r].alone = loc[r].alone
  <2>1. [loc[r] EXCEPT !.dirty = TRUE].alone = loc[r].alone
    BY <1>0 DEF Local
  <2>2. Dirty(r) => loc'[r] = [loc[r] EXCEPT !.dirty = TRUE]
    BY <1>0 DEF Dirty
  <2> QED
    BY <2>1, <2>2
<1>4. ~(Reread(r) \/ UpdateProduct(r) \/ RemoveRows(r) \/ RemoveProduct(r) \/ RemoveProducts(r))
  BY <1>1, <1>3, <1>f DEF Reread, UpdateProduct, RemoveRows, RemoveProduct, RemoveProducts, DropProduct
<1>5. ~FindKeys(r)
  <2>1. [loc[r] EXCEPT !.keys = Matching].alone = loc[r].alone
    BY <1>0 DEF Local
  <2>2. FindKeys(r) => pc[r] = "keys" /\ loc'[r] = [loc[r] EXCEPT !.keys = Matching]
    BY <1>0, <1>f DEF FindKeys
  <2> QED
    BY <1>1, <2>1, <2>2
<1>6. ~(DeleteKeys(r) \/ CheckOverlap(r) \/ InsertPromotion(r) \/ Abort(r))
  BY <1>1, <1>f DEF DeleteKeys, CheckOverlap, InsertPromotion, Abort
<1>7. ~Activate(r)
  BY <1>0, <1>f, NoLocalTyped DEF Activate
<1>8. CASE CheckOthers(r)
  BY <1>0, <1>f, <1>8 DEF CheckOthers, Goto, Local
<1> QED
  BY <1>2, <1>4, <1>5, <1>6, <1>7, <1>8 DEF StepOf, Continue

LEMMA AloneStep ==
    ASSUME TypeOK, AloneActivates, Next
    PROVE  AloneActivates'
<1>1. CASE UNCHANGED <<pc, loc>>
  BY <1>1 DEF AloneActivates
<1>2. ASSUME NEW r \in Requests, StepOf(r)
      PROVE  AloneActivates'
  BY <1>2, OthersKeep, AloneSteps DEF AloneActivates
<1> QED
  BY <1>1, <1>2, QuietSteps

LEMMA OneIsActiveStep ==
    ASSUME TypeOK, AloneActivates, OneIsActive, Next
    PROVE  OneIsActive'
<1>0. promo \in [Promotions -> Promotion] /\ loc \in [Requests -> Local]
  BY DEF TypeOK
<1>1. CASE UNCHANGED <<promo, loc, contested>>
  BY <1>1 DEF OneIsActive, Active
<1>2. ASSUME NEW r \in Requests, StepOf(r), ~Activate(r)
      PROVE  OneIsActive'
  <2> SUFFICES ASSUME ~contested'
               PROVE  /\ \A p, q \in Active' : p = q
                      /\ \A x \in Requests : loc'[x].alone => Active' \subseteq {loc'[x].promotion}
    BY DEF OneIsActive
  <2>1. ~contested /\ Active' \subseteq Active
    BY <1>2, ActiveSteps
  <2>2. \A x \in Requests : loc'[x].alone => Active \subseteq {loc'[x].promotion}
    BY <1>2, <2>1, OthersKeep, AloneSteps DEF OneIsActive
  <2> QED
    BY <2>1, <2>2 DEF OneIsActive
<1>3. ASSUME NEW r \in Requests, Activate(r)
      PROVE  OneIsActive'
  <2>0. StepOf(r)
    BY <1>3 DEF StepOf, Continue
  <2>1. \A x \in Requests : loc'[x].alone => x # r /\ loc[x].alone /\ loc'[x].promotion = loc[x].promotion
    BY <1>3, <2>0, OthersKeep, AloneSteps DEF CheckOthers, Activate
  <2>2. CASE promo' = promo
    <3>1. ~contested' => ~contested
      BY <1>3 DEF Activate
    <3> QED
      BY <2>1, <2>2, <3>1 DEF OneIsActive, Active
  <2>3. CASE promo' # promo
    <3>1. PICK p \in Promotions : p = loc[r].promotion
      BY <1>0 DEF Local
    <3>2. PICK on \in BOOLEAN : on = (loc[r].op = "on")
      OBVIOUS
    <3> DEFINE row == [promo[p] EXCEPT !.active = on]
    <3>3. row.active = on
      BY <1>0 DEF Promotion
    <3>4. promo' = [promo EXCEPT ![p] = row]
      BY <1>3, <2>3, <3>1, <3>2 DEF Activate
    <3> HIDE DEF row
    <3>5. promo'[p] = row /\ \A q \in Promotions \ {p} : promo'[q] = promo[q]
      BY <1>0, <3>4
    <3>6. /\ contested' = (contested \/ (on /\ ~loc[r].alone))
          /\ on => \A x \in Requests : ~loc'[x].alone
      <4>1. /\ contested' = (contested \/ (on /\ ~loc[r].alone))
            /\ loc' = [x \in Requests |-> IF x = r THEN NoLocal(x)
                                          ELSE [loc[x] EXCEPT !.alone = @ /\ ~on]]
        BY <1>3, <2>3, <3>2 DEF Activate
      <4>2. ASSUME on, NEW x \in Requests, x # r PROVE ~loc'[x].alone
        <5> DEFINE l == [loc[x] EXCEPT !.alone = @ /\ ~on]
        <5>1. ~l.alone
          BY <1>0, <4>2 DEF Local
        <5>2. loc'[x] = l
          BY <4>1, <4>2
        <5> QED
          BY <5>1, <5>2
      <4> QED
        BY <4>1, <4>2, <2>1
    <3>7. CASE on
      <4>1. contested' \/ (~contested /\ loc[r].alone)
        BY <3>6, <3>7
      <4>2. contested' \/ Active \subseteq {p}
        BY <3>1, <4>1 DEF OneIsActive
      <4>3. contested' \/ Active' \subseteq {p}
        BY <3>5, <4>2 DEF Active
      <4> QED
        BY <3>6, <3>7, <4>3 DEF OneIsActive
    <3>8. CASE ~on
      <4>1. Active' \subseteq Active
        BY <3>3, <3>5, <3>8 DEF Active
      <4>2. contested' = contested
        BY <3>6, <3>8, <1>3 DEF TypeOK
      <4> QED
        BY <2>1, <4>1, <4>2 DEF OneIsActive
    <3> QED
      BY <3>7, <3>8
  <2> QED
    BY <2>2, <2>3
<1> QED
  BY <1>1, <1>2, <1>3, QuietSteps

-----------------------------------------------------------------------------
(* The invariant and what follows from it.                                 *)

\* The shop begins without promotions of its requests, readers and lists.
LEMMA InitInvariant == Init => IInv
<1> SUFFICES ASSUME Init PROVE IInv
  OBVIOUS
<1>1. TypeOK
  BY InitTyped
<1>2. \A r \in Requests : pc[r] = "idle" /\ loc[r] = NoLocal(r)
  BY DEF Init
<1>3. ProductKnown /\ AloneActivates
  BY <1>2, NoLocalTyped DEF ProductKnown, AloneActivates
<1>4. QueriedIsCurrent /\ StaleIsDeleted
  BY ConstantsTyped DEF Init, QueriedIsCurrent, StaleIsDeleted, Stale
<1>5. \A p \in Promotions : promo[p].active = FALSE /\ promo[p].apart = {}
  <2>1. promo \in [Promotions -> {NoPromotion} \cup Inactive]
    BY DEF Init
  <2>2. \A row \in {NoPromotion} \cup Inactive : row.active = FALSE /\ row.apart = {}
    <3>1. NoPromotion.active = FALSE /\ NoPromotion.apart = {}
      BY DEF NoPromotion
    <3>2. ASSUME NEW row \in Inactive PROVE row.active = FALSE /\ row.apart = {}
      BY <3>2 DEF Inactive
    <3> QED
      BY <3>1, <3>2
  <2> QED
    BY <2>1, <2>2
<1>6. InsertedLast
  <2>1. \A p \in Requests : promo[p] = NoPromotion
    BY ConstantsTyped DEF Init
  <2> QED
    BY <2>1 DEF InsertedLast, NoPromotion
<1>7. ComparedWereThere /\ ComparedKeepOut
  BY <1>2, <1>5 DEF ComparedWereThere, ComparedKeepOut, There
<1>8. OneIsActive
  BY <1>2, <1>5, NoLocalTyped DEF OneIsActive, Active
<1> QED
  BY <1>1, <1>3, <1>4, <1>6, <1>7, <1>8 DEF IInv

LEMMA StepInvariant == IInv /\ [Next]_vars => IInv'
<1> SUFFICES ASSUME IInv, [Next]_vars PROVE IInv'
  OBVIOUS
<1> USE DEF IInv
<1>1. CASE Next
  <2>1. TypeOK'
    BY <1>1, TypesKept
  <2>2. ProductKnown'
    BY <1>1, ProductKnownStep
  <2>3. QueriedIsCurrent'
    BY <1>1, QueriedStep
  <2>4. StaleIsDeleted'
    BY <1>1, StaleStep
  <2>5. InsertedLast'
    BY <1>1, InsertedLastStep
  <2>6. ComparedWereThere'
    BY <1>1, ComparedWereThereStep
  <2>7. ComparedKeepOut'
    BY <1>1, <2>1, ComparedKeepOutStep
  <2>8. AloneActivates'
    BY <1>1, AloneStep
  <2>9. OneIsActive'
    BY <1>1, OneIsActiveStep
  <2> QED
    BY <2>1, <2>2, <2>3, <2>4, <2>5, <2>6, <2>7, <2>8, <2>9
<1>2. CASE UNCHANGED vars
  <2> USE <1>2 DEF vars
  <2>1. TypeOK'
    BY DEF TypeOK, Active, There
  <2>2. ProductKnown' /\ AloneActivates'
    BY DEF ProductKnown, AloneActivates
  <2>3. Current' = Current
    BY CurrentKept
  <2>4. QueriedIsCurrent'
    BY <2>3 DEF QueriedIsCurrent
  <2>5. StaleIsDeleted'
    BY <2>3 DEF StaleIsDeleted, Stale, Deletes
  <2>6. InsertedLast' /\ ComparedWereThere' /\ ComparedKeepOut'
    BY DEF InsertedLast, ComparedWereThere, ComparedKeepOut, There, Overlapping
  <2>7. OneIsActive'
    BY DEF OneIsActive, Active
  <2> QED
    BY <2>1, <2>2, <2>4, <2>5, <2>6, <2>7
<1> QED
  BY <1>1, <1>2

\* The inductive invariant holds for good.
THEOREM Invariant == Spec => []IInv
BY InitInvariant, StepInvariant, PTL DEF Spec

\* Every variable keeps its type, and only promotions that are there are active.
THEOREM TypeCorrect == Spec => []TypeOK
<1>1. IInv => TypeOK
  BY DEF IInv
<1> QED
  BY <1>1, Invariant, PTL

\* A list in Redis has the prices that the products have, unless a change
\* overtook the client that loaded it, its deletion failed, or a change is just
\* being made (findAll, findAllPos, invalidateProductCache, delPattern).
THEOREM ListsAreCurrent == Spec => []ListIsCurrent
<1>1. IInv => ListIsCurrent
  BY DEF IInv, ListIsCurrent, StaleIsDeleted, Stale, Deletes, Current
<1> QED
  BY <1>1, Invariant, PTL

\* Of two promotions that share a moment, and whose periods are those that
\* create compared, the later one begins before the other and ends after it:
\* the one case that the query of create misses (promotion.service.ts).
THEOREM PeriodsStayApart == Spec => []PeriodsApart
<1>1. IInv => PeriodsApart
  <2> SUFFICES ASSUME IInv, NEW p \in There, NEW q \in promo[p].apart \cap There, NEW t \in Time,
                      promo[p].first <= t /\ t <= promo[p].last,
                      promo[q].first <= t /\ t <= promo[q].last
               PROVE  promo[p].first < promo[q].first /\ promo[q].last < promo[p].last
    BY DEF PeriodsApart
  <2>1. q \notin Overlapping(promo[p].first, promo[p].last)
    BY DEF IInv, ComparedKeepOut
  <2>2. /\ promo[p].first \in Time /\ promo[p].last \in Time
        /\ promo[q].first \in Time /\ promo[q].last \in Time
    BY DEF IInv, TypeOK, There, Promotion
  <2> QED
    BY <2>1, <2>2, BoundAssumption DEF Overlapping, Time
<1> QED
  BY <1>1, Invariant, PTL

\* As long as activations do not overlap, the three functions agree on the
\* price of a product without sizes, but for free offers and the moment that a
\* promotion begins at (findAllPos, create, updateItems).
THEOREM ShownPricesAreCharged == Spec => []ShownIsCharged
<1>1. IInv => ShownIsCharged
  <2> SUFFICES ASSUME IInv, ~contested, IsSold("plain"),
                      \A p \in Active : promo[p].first # now /\ 0 \notin PricesIn(p, {"plain"})
               PROVE  /\ ChargedPrices("plain") = ShownPrices("plain")
                      /\ RepricedPrices("plain") = ShownPrices("plain")
    BY DEF ShownIsCharged
  <2> DEFINE running == {p \in Active : promo[p].first <= now /\ now <= promo[p].last}
             offered == [p \in running |-> PricesIn(p, {"plain"})]
  <2>0. \A p \in Promotions : promo[p].first \in Int /\ now \in Int
    BY BoundAssumption DEF IInv, TypeOK, Promotion, Time
  <2>1. RunningForCreate = running
    BY <2>0 DEF RunningForCreate, Active
  <2>2. \A p : Linked(p, {"plain"}) = {"plain"}
    BY ConstantsTyped DEF Linked
  <2>3. ChargedPrices("plain") = PriceBy("plain", offered)
    BY <2>1, <2>2 DEF ChargedPrices
  <2>4. RepricedPrices("plain") = PriceBy("plain", offered)
    BY DEF RepricedPrices
  <2>5. ShownPrices("plain") = LET all == UNION {PricesIn(p, {"plain"}) : p \in running}
                               IN  IF all = {} THEN {Original("plain")} ELSE all
    <3>1. UNION {PricesIn(p, Linked(p, {"plain"})) : p \in running}
            = UNION {PricesIn(p, {"plain"}) : p \in running}
      BY <2>2
    <3>2. ShownPrices("plain") =
            IF UNION {PricesIn(p, Linked(p, {"plain"})) : p \in running} = {}
            THEN {Original("plain")} ELSE UNION {PricesIn(p, Linked(p, {"plain"})) : p \in running}
      BY DEF ShownPrices
    <3> HIDE DEF running
    <3> QED
      BY <3>1, <3>2
  <2>6. \A p, q \in running : p = q
    BY DEF IInv, OneIsActive
  <2>7. CASE running = {}
    BY <2>3, <2>4, <2>5, <2>7 DEF PriceBy
  <2>8. CASE running # {}
    <3>1. PICK p \in running : running = {p}
      BY <2>6, <2>8
    <3> DEFINE S == PricesIn(p, {"plain"})
    <3>2. Discount("plain", S) = S
      BY DEF Discount
    <3>3. PriceBy("plain", offered) = IF S = {} THEN {Original("plain")} ELSE S
      BY <3>1, <3>2 DEF PriceBy
    <3>4. UNION {PricesIn(x, {"plain"}) : x \in running} = S
      BY <3>1
    <3> QED
      BY <2>3, <2>4, <2>5, <3>3, <3>4
  <2> QED
    BY <2>7, <2>8
<1> QED
  BY <1>1, Invariant, PTL
=============================================================================
