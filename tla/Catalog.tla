------------------------------ MODULE Catalog ------------------------------
(***************************************************************************)
(* Products, promotions and the prices that follow from them.              *)
(*   - product/product.service.ts keeps lists of products in Redis, for an *)
(*     hour each; whatever changes a product then deletes them all         *)
(*     (invalidateProductCache, redis.service.ts delPattern);              *)
(*   - promotion/promotion.service.ts creates, changes and activates       *)
(*     promotions, and leaves the lists alone;                             *)
(*   - three functions price a line: findAllPos for the list on the        *)
(*     screen, create and updateItems of order/order.service.ts.           *)
(*                                                                         *)
(* Two products stand for all: one without sizes, and one that is sold in  *)
(* Sizes.  A promotion is known by the request that created it.  The       *)
(* queries of one list, and the statements of one transaction, are one     *)
(* step each; toppings, options, paging and search are left out.           *)
(***************************************************************************)
EXTENDS Integers, FiniteSets

CONSTANTS
    Readers,       \* clients that load a list, again and again
    MaxRequests,   \* bound: requests of the staff, numbered as they begin
    MaxInFlight,   \* bound: such requests being served at the same time
    MaxTime,       \* bound: the clock of the backend
    Firsts, Lasts, \* moments that promotions begin and end at
    Standing,      \* bound: promotions that are there from the start
    Keys,          \* "products" (findAll) and "products:pos" (findAllPos)
    Sizes,         \* the sizes of the product that has some
    SameId,        \* <<s, z>>: size s has the number of the first product row of z
    Prices,        \* prices of products
    Offers,        \* what promotions are created with
    OfferPrice(_, _),  \* the price that an offer gives a line, or NoPrice
    Ops,           \* handlers that are called
    MayFail,       \* TRUE if an await may reject
    NoList, NoPrice, NoProduct

Products == {"plain", "sized"}

\* What a customer orders.
Lines == {"plain"} \cup Sizes

Product(l) == IF l = "plain" THEN "plain" ELSE "sized"

Time == 0..MaxTime

NoOffer == "no items"

ASSUME BoundAssumption == MaxRequests \in Nat /\ MaxInFlight \in Nat /\ MaxTime \in Nat

ASSUME DataAssumption ==
    /\ Keys \subseteq {"products", "products:pos"} /\ Keys # {}
    /\ Sizes \cap Products = {} /\ SameId \subseteq Sizes \X Sizes
    /\ Prices \subseteq Nat \ {0} /\ Prices # {}
    /\ NoOffer \notin Offers
    /\ \A f \in Offers, l \in Lines : OfferPrice(f, l) \in Nat \cup {NoPrice}
    /\ Firsts \cup Lasts \subseteq Time /\ Standing \in Nat

ASSUME NullAssumption == NoPrice \notin Nat /\ NoProduct \notin Products

VARIABLES
    now,           \* the clock of the backend
    product,       \* tables products and product_sizes
    promo,         \* tables promotions and product_promotions
    pc,            \* the await that each request of the staff is suspended on
    loc,           \* local variables of each request
    reader,        \* the list that each reader is loading
    cache,         \* Redis: the list under each key
    contested      \* history: two activations have overlapped

vars == <<now, product, promo, pc, loc, reader, cache, contested>>

-----------------------------------------------------------------------------
(* Types.                                                                  *)

Requests == 1..MaxRequests

Promotions == (1 - Standing)..MaxRequests

Suspended == {"write", "rows", "delete", "reread", "keys", "del",
              "overlap", "insert", "others", "activate"}

Labels == {"idle", "over"} \cup Suspended

ProductRow == [state : {"absent", "there", "deleted"}, price : Prices,
               rows : {"first", "again", "none"}]      \* the rows of its sizes

Promotion == [state : {"absent", "there", "deleted"}, first : Time, last : Time,
              active : BOOLEAN, offer : Offers \cup {NoOffer},
              linked : BOOLEAN,             \* its items about sizes have their product rows
              apart : SUBSET Promotions]    \* history: it was compared with these

Local == [op : {"none", "update", "removeMany", "on", "off"},
          product : Products \cup {NoProduct}, price : Prices,
          promotion : Promotions, offer : Offers \cup {NoOffer}, first : Time, last : Time,
          keys : SUBSET Keys,
          dirty : BOOLEAN,       \* it has changed a product and not yet deleted the lists
          alone : BOOLEAN]       \* no other activation was written since its check

List == [original : [Lines -> Prices \cup {NoPrice}],
         shown : [Lines -> Nat \cup {NoPrice}],
         outrun : BOOLEAN]       \* a change overtook it, or its deletion failed

Reader == [at : {"idle", "query", "store"}, key : Keys, list : List \cup {NoList}]

There == {p \in Promotions : promo[p].state = "there"}

Active == {p \in Promotions : promo[p].active}

TypeOK ==
    /\ now \in Time
    /\ product \in [Products -> ProductRow]
    /\ promo \in [Promotions -> Promotion]
    /\ pc \in [Requests -> Labels]
    /\ loc \in [Requests -> Local]
    /\ reader \in [Readers -> Reader]
    /\ cache \in [Keys -> List \cup {NoList}]
    /\ Active \subseteq There
    /\ contested \in BOOLEAN

NotReading == [at |-> "idle", key |-> CHOOSE k \in Keys : TRUE, list |-> NoList]

OnePrice == CHOOSE x \in Prices : TRUE

NoLocal(r) ==
    [op |-> "none", product |-> NoProduct, price |-> OnePrice, promotion |-> r, offer |-> NoOffer,
     first |-> 0, last |-> 0, keys |-> {}, dirty |-> FALSE, alone |-> FALSE]

NoPromotion == [state |-> "absent", first |-> 0, last |-> 0, active |-> FALSE,
                offer |-> NoOffer, linked |-> FALSE, apart |-> {}]

Inactive == [state : {"there"}, first : Firsts, last : Lasts, active : {FALSE},
             offer : Offers, linked : {TRUE}, apart : {{}}]

\* A shop that runs, or an empty one.
Init ==
    /\ now = 0
    /\ \E there \in {Products, {}} :
         /\ product = [p \in Products |->
                [state |-> IF p \in there THEN "there" ELSE "absent", price |-> OnePrice,
                 rows |-> IF p \in there \ {"plain"} THEN "first" ELSE "none"]]
         /\ promo \in [Promotions -> {NoPromotion} \cup Inactive]
         /\ \A p \in Promotions : promo[p] = NoPromotion <=> p \in Requests \/ there = {}
         /\ \A p, q \in Promotions \ Requests : p < q => promo[p].first <= promo[q].first
    /\ pc = [r \in Requests |-> "idle"]
    /\ loc = [r \in Requests |-> NoLocal(r)]
    /\ reader = [c \in Readers |-> NotReading]
    /\ cache = [k \in Keys |-> NoList]
    /\ contested = FALSE

-----------------------------------------------------------------------------
(* Prices.                                                                 *)

IsSold(l) ==
    /\ product[Product(l)].state = "there"
    /\ l \in Sizes => product["sized"].rows # "none"

Original(l) == IF IsSold(l) THEN product[Product(l)].price ELSE NoPrice

\* The prices that promotion p has for lines X.
PricesIn(p, X) ==
    {OfferPrice(promo[p].offer, l) :
        l \in {x \in X : promo[p].offer # NoOffer /\ OfferPrice(promo[p].offer, x) # NoPrice}}

\* The lines that an item of p is about by a link to the very row.
Linked(p, X) == IF promo[p].linked THEN X ELSE X \ Sizes

\* findAllPos: any promotion that runs and has the very row, with "??".  One of
\* several is taken.
ShownPrices(l) ==
    LET running == {p \in Active : promo[p].first <= now /\ now <= promo[p].last}
        offered == UNION {PricesIn(p, Linked(p, {l})) : p \in running}
    IN  IF ~IsSold(l) \/ offered = {} THEN {Original(l)} ELSE offered

\* new_price || the price of the row || the price of the product: a price of
\* zero counts as none.
Discount(l, offered) == {IF x = 0 THEN Original(l) ELSE x : x \in offered}

\* One of the promotions is taken, then one of its items that fit.
PriceBy(l, offered) ==
    IF ~IsSold(l) \/ DOMAIN offered = {} THEN {Original(l)}
    ELSE UNION {IF offered[p] = {} THEN {Original(l)} ELSE Discount(l, offered[p]) :
                   p \in DOMAIN offered}

\* The product rows whose number is the number of size l: new rows get new
\* numbers.
RowsNumberedAs(l) ==
    IF product["sized"].rows = "first" THEN {z \in Sizes : <<l, z>> \in SameId} ELSE {}

\* Mutant of RunningForCreate: the end of the period does not count.
BegunForCreate == {p \in Active : promo[p].first < now}

RunningForCreate == {p \in Active : promo[p].first < now /\ now <= promo[p].last}

\* create compares the number of the row in the promotion with the number of
\* the size that the client sends.
ChargedPrices(l) ==
    LET rows == IF l = "plain" THEN {l} ELSE RowsNumberedAs(l)
    IN  PriceBy(l, [p \in RunningForCreate |-> PricesIn(p, Linked(p, rows))])

\* updateItems looks at the product only.
RepricedPrices(l) ==
    LET running == {p \in Active : promo[p].first <= now /\ now <= promo[p].last}
    IN  PriceBy(l, [p \in running |-> PricesIn(p, IF l = "plain" THEN {l} ELSE Sizes)])

\* What a query for the list under key k may return: findAll knows no
\* promotions.
Queried(k) ==
    LET original == [l \in Lines |-> Original(l)]
        prices(l) == IF k = "products" THEN {Original(l)} ELSE ShownPrices(l)
    IN  {[original |-> original, shown |-> shown, outrun |-> FALSE] :
            shown \in {f \in [Lines -> UNION {prices(l) : l \in Lines}] :
                           \A l \in Lines : f[l] \in prices(l)}}

-----------------------------------------------------------------------------
(* Readers.  A list that is found under its key changes nothing.           *)

\* findAll and findAllPos do not find their key ...
Miss(c, k) ==
    /\ reader[c].at = "idle"
    /\ cache[k] = NoList
    /\ reader' = [reader EXCEPT ![c] = [@ EXCEPT !.at = "query", !.key = k]]
    /\ UNCHANGED <<now, product, promo, pc, loc, cache, contested>>

\* ... query the tables ...
Query(c) ==
    /\ reader[c].at = "query"
    /\ \E list \in Queried(reader[c].key) :
         reader' = [reader EXCEPT ![c] = [@ EXCEPT !.at = "store", !.list = list]]
    /\ UNCHANGED <<now, product, promo, pc, loc, cache, contested>>

Leave(c) == reader' = [reader EXCEPT ![c] = NotReading]

\* ... and store what they got.
Store(c) ==
    /\ reader[c].at = "store"
    /\ cache' = [cache EXCEPT ![reader[c].key] = reader[c].list]
    /\ Leave(c)
    /\ UNCHANGED <<now, product, promo, pc, loc, contested>>

\* An await of the reader rejects: the client gets an error.
Break(c) ==
    /\ MayFail
    /\ reader[c].at # "idle"
    /\ Leave(c)
    /\ UNCHANGED <<now, product, promo, pc, loc, cache, contested>>

\* Mutant: lists are stored for good.
StoredForGood(k) == FALSE

\* setex gives a list 3600 seconds.
Expires(k) == cache[k] # NoList

Expire(k) ==
    /\ Expires(k)
    /\ cache' = [cache EXCEPT ![k] = NoList]
    /\ UNCHANGED <<now, product, promo, pc, loc, reader, contested>>

Tick ==
    /\ now < MaxTime
    /\ now' = now + 1
    /\ UNCHANGED <<product, promo, pc, loc, reader, cache, contested>>

-----------------------------------------------------------------------------
(* Requests of the staff.                                                  *)

InFlight == {r \in Requests : pc[r] \in Suspended}

Goto(r, label) == pc' = [pc EXCEPT ![r] = label]

\* The request is answered.
Finish(r) ==
    /\ Goto(r, "over")
    /\ loc' = [loc EXCEPT ![r] = NoLocal(r)]

Starts(r, op) ==
    /\ pc[r] = "idle" /\ \A x \in Requests : x < r => pc[x] # "idle"
    /\ op \in Ops
    /\ Cardinality(InFlight) < MaxInFlight

\* Lists that were queried and not yet stored are overtaken by a change.
Overtake ==
    reader' = [c \in Readers |->
                  IF reader[c].at = "store"
                  THEN [reader[c] EXCEPT !.list = [@ EXCEPT !.outrun = TRUE]] ELSE reader[c]]

\* A lists that should have been deleted stays.
Forgive(k) == IF cache[k] = NoList THEN NoList ELSE [cache[k] EXCEPT !.outrun = TRUE]

Dirty(r) == loc' = [loc EXCEPT ![r].dirty = TRUE]

\* product_promotions.productSizeId is set to null when its row is deleted.
UnlinkRows == promo' = [p \in Promotions |-> [promo[p] EXCEPT !.linked = FALSE]]

CreateProduct(r, p, price) ==
    /\ Starts(r, "create")
    /\ product[p].state = "absent"
    /\ product' = [product EXCEPT ![p] = [state |-> "there", price |-> price,
                                          rows |-> IF p = "sized" THEN "first" ELSE "none"]]
    /\ Overtake
    /\ loc' = [loc EXCEPT ![r] = [@ EXCEPT !.product = p, !.dirty = TRUE]]
    /\ Goto(r, "reread")
    /\ UNCHANGED <<now, promo, cache, contested>>

\* create reads what it has written.
Reread(r) ==
    /\ pc[r] = "reread"
    /\ Goto(r, "keys")
    /\ UNCHANGED <<now, product, promo, loc, reader, cache, contested>>

\* update, remove and removeMany throw if the product is not there.
FindProduct(r, op, p, price) ==
    /\ Starts(r, op)
    /\ product[p].state = "there"
    /\ CASE op = "update" -> loc' = [loc EXCEPT ![r] = [@ EXCEPT !.op = op, !.product = p,
                                                                 !.price = price]]
         [] op = "removeMany" -> loc' = [loc EXCEPT ![r] = [@ EXCEPT !.op = op, !.product = p]]
         [] op = "remove" -> loc' = [loc EXCEPT ![r].product = p]
    /\ Goto(r, IF op = "remove" THEN "rows" ELSE "write")
    /\ UNCHANGED <<now, product, promo, reader, cache, contested>>

\* update writes the product and gives it new rows, in one transaction.
UpdateProduct(r) ==
    LET p == loc[r].product IN
    /\ pc[r] = "write" /\ loc[r].op = "update"
    /\ IF product[p].state = "there"
       THEN /\ product' = [product EXCEPT ![p] =
                              [@ EXCEPT !.price = loc[r].price,
                                        !.rows = IF p = "sized" THEN "again" ELSE "none"]]
            /\ IF p = "sized" THEN UnlinkRows ELSE promo' = promo
            /\ Overtake
            /\ Dirty(r)
            /\ Goto(r, "keys")
       ELSE Finish(r) /\ UNCHANGED <<product, promo, reader>>
    /\ UNCHANGED <<now, cache, contested>>

\* remove deletes the rows of the sizes first, outside a transaction ...
RemoveRows(r) ==
    /\ pc[r] = "rows"
    /\ IF loc[r].product = "sized" /\ product["sized"].rows # "none"
       THEN /\ product' = [product EXCEPT !["sized"].rows = "none"]
            /\ UnlinkRows
            /\ Overtake
            /\ Dirty(r)
       ELSE UNCHANGED <<product, promo, reader, loc>>
    /\ Goto(r, "delete")
    /\ UNCHANGED <<now, cache, contested>>

DropProduct(r) ==
    LET p == loc[r].product IN
    /\ product' = [product EXCEPT ![p] = [@ EXCEPT !.state = "deleted", !.rows = "none"]]
    /\ IF p = "sized" THEN UnlinkRows ELSE promo' = promo
    /\ Overtake
    /\ Dirty(r)

\* ... and then the product, which must still be there.
RemoveProduct(r) ==
    /\ pc[r] = "delete"
    /\ IF product[loc[r].product].state = "there"
       THEN DropProduct(r) /\ Goto(r, "keys") /\ cache' = cache
       ELSE /\ Finish(r)
            /\ cache' = IF loc[r].dirty THEN [k \in Keys |-> Forgive(k)] ELSE cache
            /\ UNCHANGED <<product, promo, reader>>
    /\ UNCHANGED <<now, contested>>

\* removeMany does it in one transaction, which deletes what is still there.
RemoveProducts(r) ==
    /\ pc[r] = "write" /\ loc[r].op = "removeMany"
    /\ IF product[loc[r].product].state = "there"
       THEN DropProduct(r)
       ELSE UNCHANGED <<product, promo, reader, loc>>
    /\ Goto(r, "keys")
    /\ UNCHANGED <<now, cache, contested>>

\* Mutant of Matching: the lists have another prefix.
MatchingNone == {k \in Keys : FALSE}

\* KEYS products:*
Matching == {k \in Keys : cache[k] # NoList}

\* invalidateProductCache looks for the keys ...
FindKeys(r) ==
    /\ pc[r] = "keys"
    /\ IF Matching = {} THEN Finish(r)
       ELSE loc' = [loc EXCEPT ![r].keys = Matching] /\ Goto(r, "del")
    /\ UNCHANGED <<now, product, promo, reader, cache, contested>>

\* ... and deletes them.
DeleteKeys(r) ==
    /\ pc[r] = "del"
    /\ cache' = [k \in Keys |-> IF k \in loc[r].keys THEN NoList ELSE cache[k]]
    /\ Finish(r)
    /\ UNCHANGED <<now, product, promo, reader, contested>>

-----------------------------------------------------------------------------
(* Promotions.                                                             *)

\* Mutant of Row: a write that never throws.
AnyRow(p) == TRUE

\* prisma's update throws if the row is gone.
Row(p) == promo[p].state = "there"

\* A connect or a foreign key must find what an item is about.
Fits(offer) ==
    offer # NoOffer => \A l \in Lines : OfferPrice(offer, l) # NoPrice => IsSold(l)

\* create opens a transaction ...
Promote(r, first, last, offer) ==
    /\ Starts(r, "promote")
    /\ loc' = [loc EXCEPT ![r] = [@ EXCEPT !.offer = offer, !.first = first, !.last = last]]
    /\ Goto(r, "overlap")
    /\ UNCHANGED <<now, product, promo, reader, cache, contested>>

\* The three cases of the query.
Overlapping(first, last) ==
    {p \in There : \/ promo[p].first <= last /\ last <= promo[p].last
                   \/ promo[p].first <= first /\ last <= promo[p].last
                   \/ promo[p].first <= first /\ first <= promo[p].last}

\* ... looks for a promotion in the way ...
CheckOverlap(r) ==
    /\ pc[r] = "overlap"
    /\ IF Overlapping(loc[r].first, loc[r].last) = {}
       THEN promo' = [promo EXCEPT ![r].apart = There] /\ Goto(r, "insert") /\ loc' = loc
       ELSE promo' = promo /\ Finish(r)
    /\ UNCHANGED <<now, product, reader, cache, contested>>

\* ... and inserts the new one, which is not active yet.
InsertPromotion(r) ==
    /\ pc[r] = "insert"
    /\ promo' = IF Fits(loc[r].offer)
                THEN [promo EXCEPT ![r] = [@ EXCEPT !.state = "there", !.first = loc[r].first,
                                                    !.last = loc[r].last,
                                                    !.offer = loc[r].offer, !.linked = TRUE]]
                ELSE promo
    /\ Finish(r)
    /\ UNCHANGED <<now, product, reader, cache, contested>>

\* update replaces the period, and the items if it is given some, in one
\* transaction that looks at no other promotion.
UpdatePromotion(r, p, first, last, offer) ==
    /\ Starts(r, "change")
    /\ Row(p) /\ Fits(offer)
    /\ promo' = [q \in Promotions |->
                    IF q # p THEN [promo[q] EXCEPT !.apart = @ \ {p}]
                    ELSE [promo[q] EXCEPT !.first = first, !.last = last, !.apart = {},
                                          !.offer = IF offer = NoOffer THEN @ ELSE offer,
                                          !.linked = @ \/ offer # NoOffer]]
    /\ Finish(r)
    /\ UNCHANGED <<now, product, reader, cache, contested>>

\* remove and removeMany.
RemovePromotion(r, p) ==
    /\ Starts(r, "withdraw")
    /\ promo[p].state = "there"
    /\ promo' = [promo EXCEPT ![p] = [NoPromotion EXCEPT !.state = "deleted"]]
    /\ Finish(r)
    /\ UNCHANGED <<now, product, reader, cache, contested>>

\* toggleActive finds the promotion, and its period if it is to begin ...
Toggle(r, p, on) ==
    /\ Starts(r, "toggle")
    /\ promo[p].state = "there"
    /\ on => promo[p].first <= now /\ now <= promo[p].last
    /\ loc' = [loc EXCEPT ![r] = [@ EXCEPT !.op = IF on THEN "on" ELSE "off",
                                           !.promotion = p]]
    /\ Goto(r, IF on THEN "others" ELSE "activate")
    /\ UNCHANGED <<now, product, promo, reader, cache, contested>>

\* ... looks for another one that is active ...
CheckOthers(r) ==
    /\ pc[r] = "others"
    /\ IF Active \subseteq {loc[r].promotion}
       THEN loc' = [loc EXCEPT ![r].alone = TRUE] /\ Goto(r, "activate")
       ELSE Finish(r)
    /\ UNCHANGED <<now, product, promo, reader, cache, contested>>

\* ... and writes the flag, if the promotion is still there.
Activate(r) ==
    LET p == loc[r].promotion on == loc[r].op = "on" IN
    /\ pc[r] = "activate"
    /\ IF Row(p)
       THEN /\ promo' = [promo EXCEPT ![p].active = on]
            /\ contested' = (contested \/ (on /\ ~loc[r].alone))
            /\ loc' = [x \in Requests |-> IF x = r THEN NoLocal(x)
                                          ELSE [loc[x] EXCEPT !.alone = @ /\ ~on]]
            /\ Goto(r, "over")
       ELSE Finish(r) /\ UNCHANGED <<promo, contested>>
    /\ UNCHANGED <<now, product, reader, cache>>

\* The await that r is suspended on rejects.  A change of a product that is
\* committed stays; an error of Redis is swallowed.
Abort(r) ==
    /\ MayFail
    /\ pc[r] \in Suspended
    /\ cache' = IF loc[r].dirty THEN [k \in Keys |-> Forgive(k)] ELSE cache
    /\ Finish(r)
    /\ UNCHANGED <<now, product, promo, reader, contested>>

-----------------------------------------------------------------------------

Continue(r) ==
    \/ Reread(r) \/ UpdateProduct(r) \/ RemoveRows(r) \/ RemoveProduct(r) \/ RemoveProducts(r)
    \/ FindKeys(r) \/ DeleteKeys(r)
    \/ CheckOverlap(r) \/ InsertPromotion(r)
    \/ CheckOthers(r) \/ Activate(r)

Call(r) ==
    \/ \E p \in Products, price \in Prices :
         \/ CreateProduct(r, p, price)
         \/ FindProduct(r, "update", p, price)
    \/ \E op \in {"remove", "removeMany"}, p \in Products :
         FindProduct(r, op, p, product[p].price)
    \/ \E first \in Firsts, last \in Lasts :
         \/ \E offer \in Offers : Promote(r, first, last, offer)
         \/ \E p \in Promotions, offer \in Offers \cup {NoOffer} :
              UpdatePromotion(r, p, first, last, offer)
    \/ \E p \in Promotions : RemovePromotion(r, p) \/ \E on \in BOOLEAN : Toggle(r, p, on)

Read(c) == Query(c) \/ Store(c)

Next ==
    \/ Tick
    \/ \E k \in Keys : Expire(k) \/ \E c \in Readers : Miss(c, k)
    \/ \E c \in Readers : Read(c) \/ Break(c)
    \/ \E r \in Requests : Call(r) \/ Continue(r) \/ Abort(r)

Spec == Init /\ [][Next]_vars

\* What is begun goes on, and Redis keeps its time.
FairSpec ==
    /\ Spec
    /\ \A r \in Requests : WF_vars(Continue(r))
    /\ \A c \in Readers : WF_vars(Read(c))
    /\ \A k \in Keys : WF_vars(Expire(k))

-----------------------------------------------------------------------------
(* Properties.                                                             *)

\* A list in Redis has the prices that the products have, unless a change
\* overtook the client that loaded it, its deletion failed, or a change is
\* just being made (findAll, findAllPos, invalidateProductCache, delPattern).
ListIsCurrent ==
    (\A r \in Requests : ~loc[r].dirty) =>
        \A k \in Keys : cache[k] # NoList /\ ~cache[k].outrun =>
            cache[k].original = [l \in Lines |-> Original(l)]

\* Once nothing changes any more, the lists have the right prices in the end,
\* promotions included, which nobody deletes the lists for (findAllPos).
PricesCatchUp ==
    \A k \in Keys :
        <>[](cache[k] # NoList => \E list \in Queried(k) : /\ list.original = cache[k].original
                                                           /\ list.shown = cache[k].shown)

\* As long as activations do not overlap, the three functions agree on the
\* price of a product without sizes, but for free offers and the moment that
\* a promotion begins at (findAllPos, create, updateItems).
ShownIsCharged ==
    /\ ~contested
    /\ IsSold("plain")
    /\ \A p \in Active : promo[p].first # now /\ 0 \notin PricesIn(p, {"plain"})
    => /\ ChargedPrices("plain") = ShownPrices("plain")
       /\ RepricedPrices("plain") = ShownPrices("plain")

\* Of two promotions that share a moment, and whose periods are those that
\* create compared, the later one begins before the other and ends after it
\* (create of promotion.service.ts).
PeriodsApart ==
    \A p \in There : \A q \in promo[p].apart \cap There :
        (\E t \in Time : /\ promo[p].first <= t /\ t <= promo[p].last
                         /\ promo[q].first <= t /\ t <= promo[q].last)
        => promo[p].first < promo[q].first /\ promo[q].last < promo[p].last

\* "identical to 'create'" (updateItems, of the search for promotions): both
\* price a line alike, at any other moment than the one a promotion begins at.
RepricedAsCreated ==
    (\A p \in Active : promo[p].first # now) =>
        \A l \in Lines : IsSold(l) => RepricedPrices(l) = ChargedPrices(l)
=============================================================================
