--------------------------- MODULE InventoryProofs ---------------------------
(***************************************************************************)
(* Proofs about Inventory, for any amounts, any number of days and of      *)
(* requests, and any number of them being served at the same time.         *)
(***************************************************************************)
EXTENDS Inventory, SumProofs

-----------------------------------------------------------------------------
(* The inductive invariant.                                                *)

\* What the local variables of request r are at its awaits, and the rows that
\* it has not created yet.
RequestInv(r) ==
    /\ pc[r] \in {"last", "insert", "current"} => loc[r].quantity \in Nat
    /\ pc[r] = "idle" => ~imported[r].made
    /\ pc[r] = "lastRow" => imported[r].made
    /\ pc[r] = "current" => loc[r].op = "update" \/ (loc[r].op = "remove" /\ loc[r].quantity = 0)
    /\ pc[r] \in {"idle", "last", "insert"} => contracting[r].state = "none"

\* The running balance, and what it should be.
Last == IF Rows = {} THEN 0 ELSE remain[LastRow]

Books == Imported - Taken

\* A regular call of update or remove has read the contracting as it is now.
TargetRead(l) ==
    /\ l.op \in {"update", "remove"} /\ l.target \in Live
    /\ l.taken = contracting[l.target].quantity
    /\ l.day = today /\ contracting[l.target].day = today
    /\ l.op = "update" => l.to = today
    /\ l.op = "remove" => l.quantity = 0

\* How far the balance is from the books while the regular call r is served.
ServingInv(r) ==
    LET l == loc[r] IN
    /\ pc[r] = "last" => l.op = "create" /\ l.day = today /\ Books = Last
    /\ pc[r] = "insert" => l.op = "create" /\ l.day = today /\ Books = l.value + l.quantity
    /\ pc[r] = "find" => l.op = "create" /\ l.day = today /\ Books = l.value
    /\ pc[r] = "lastRow" => l.op = "import" /\ Books = Last + imported[r].quantity
    /\ pc[r] = "current" => TargetRead(l) /\ Books = Last
    /\ pc[r] = "store" =>
         /\ l.day <= today /\ \A d \in Rows : d <= l.day
         /\ l.row \/ l.day \notin Rows
         /\ \/ l.op \in {"create", "import"} /\ Books = l.value
            \/ TargetRead(l) /\ l.quantity \in Nat /\ Books + l.taken - l.quantity = l.value
    /\ pc[r] = "save" =>
         /\ TargetRead(l)
         /\ IF l.quantity = NoAmount THEN Books = Last ELSE Books + l.taken - l.quantity = Last
    /\ pc[r] \notin {"yesterday", "imports", "contracted"}

\* Every contracting is about a day with a row, or create is just about to
\* write it.
HasRow(c) ==
    \/ contracting[c].day \in Rows
    \/ pc[c] \in {"find", "store"} /\ contracting[c].day = loc[c].day

RegularInv ==
    regular =>
        /\ \A d \in Rows : d <= today
        /\ \A c \in Live : HasRow(c)
        /\ \A x, y \in InFlight : x = y
        /\ \A r \in InFlight : ServingInv(r)
        /\ InFlight = {} => Books = Last

\* Without an import below zero no remain is below zero, nor is one that a
\* request is about to write.
NoReturns == \A i \in Importations : imported[i].quantity >= 0

BackedInv ==
    NoReturns =>
        /\ \A d \in Rows : remain[d] >= 0
        /\ \A r \in Requests : pc[r] \in {"insert", "find", "store"} => loc[r].value >= 0

IInv ==
    /\ TypeOK
    /\ \A r \in Requests : RequestInv(r)
    /\ RegularInv
    /\ BackedInv

-----------------------------------------------------------------------------
(* Rows and sums.                                                          *)

\* The days are finitely many numbers, and so the rows have a last one.
LEMMA LastOfDays ==
    ASSUME NEW S \in SUBSET Days, S # {}
    PROVE  Max(S) \in S /\ \A d \in S : d <= Max(S)
<1>1. IsFiniteSet(S) /\ S \subseteq Int
  <2>1. IsFiniteSet(Days) /\ Days \subseteq Int
    BY FS_Interval, DayAssumption DEF Days
  <2> QED
    BY <2>1, FS_Subset
<1>2. \E x \in S : \A y \in S : x >= y
  BY <1>1, GreatestExists
<1>3. Max(S) \in S /\ \A y \in S : Max(S) >= y
  BY <1>2 DEF Max
<1> QED
  BY <1>1, <1>3

LEMMA LastRowIsLast ==
    ASSUME TypeOK, Rows # {}
    PROVE  /\ LastRow \in Rows /\ \A d \in Rows : d <= LastRow
           /\ remain[LastRow] \in Int /\ LastRow \in Days
<1>1. Rows \in SUBSET Days
  BY DEF Rows
<1>2. LastRow \in Rows /\ \A d \in Rows : d <= LastRow
  BY <1>1, LastOfDays DEF LastRow
<1> QED
  BY <1>2 DEF Rows, TypeOK

\* A row that no other comes after is the last one.
LEMMA LastRowIs ==
    ASSUME TypeOK, NEW d \in Rows, \A e \in Rows : e <= d
    PROVE  LastRow = d
<1>1. LastRow \in Rows /\ d <= LastRow
  BY LastRowIsLast
<1> QED
  BY <1>1 DEF Rows, Days

LEMMA SumTypes ==
    ASSUME TypeOK
    PROVE  /\ Imported \in Int /\ Taken \in Nat /\ Last \in Int
           /\ \A S \in SUBSET Requests : QuantityImported(S) \in Int /\ QuantityTaken(S) \in Nat
<1>1. ASSUME NEW S \in SUBSET Requests
      PROVE  QuantityImported(S) \in Int /\ QuantityTaken(S) \in Nat
  <2> DEFINE f == [i \in Requests |-> imported[i].quantity]
             g == [c \in Requests |-> contracting[c].quantity]
  <2>1. IsFiniteSet(S)
    BY RequestAssumption, FS_Subset
  <2>2. \A x \in S : f[x] \in Int /\ g[x] \in Nat
    BY DEF TypeOK, Importation, Contracting
  <2> HIDE DEF f, g
  <2>3. Total(f, S) \in Int /\ Total(g, S) \in Nat
    BY <2>1, <2>2, TotalIsNumber, TotalIsNat
  <2> QED
    BY <2>3 DEF QuantityImported, QuantityTaken, f, g
<1>2. Last \in Int
  BY LastRowIsLast DEF Last
<1>3. Imported \in Int /\ Taken \in Nat
  BY <1>1 DEF Imported, Importations, Taken, Live
<1> QED
  BY <1>1, <1>2, <1>3

\* As long as the tables stay, so do the books and the balance.
LEMMA TablesStay ==
    ASSUME UNCHANGED tables
    PROVE  /\ Books' = Books /\ Last' = Last /\ Rows' = Rows /\ Live' = Live
           /\ \A d \in Days : RowsBefore(d)' = RowsBefore(d)
<1>1. remain' = remain /\ contracting' = contracting /\ imported' = imported
  BY DEF tables
<1>2. Rows' = Rows /\ Live' = Live
  BY <1>1 DEF Rows, Live
<1>3. Last' = Last
  BY <1>1, <1>2 DEF Last, LastRow
<1>4. Books' = Books
  BY <1>1, <1>2 DEF Books, Imported, Importations, Taken, QuantityImported, QuantityTaken
<1> QED
  BY <1>2, <1>3, <1>4 DEF RowsBefore

\* An importation is booked.
LEMMA ImportBooked ==
    ASSUME TypeOK, NEW r \in Requests, ~imported[r].made, NEW q \in Int,
           imported' = [imported EXCEPT ![r] = [made |-> TRUE, day |-> today, quantity |-> q]],
           remain' = remain, contracting' = contracting
    PROVE  Books' = Books + q
<1> DEFINE S == {i \in Requests : imported[i].made}
           f == [i \in Requests |-> imported[i].quantity]
           g == [i \in Requests |-> imported'[i].quantity]
<1>1. {i \in Requests : imported'[i].made} = S \cup {r} /\ r \notin S
  BY DEF TypeOK
<1>2. \A x \in S : f[x] = g[x]
  BY <1>1 DEF TypeOK
<1>3. g[r] = q /\ \A x \in S \cup {r} : g[x] \in Int
  BY DEF TypeOK, Importation
<1>4. IsFiniteSet(S)
  BY RequestAssumption, FS_Subset
<1>5. Imported = Total(f, S) /\ Imported' = Total(g, S \cup {r})
  BY <1>1 DEF Imported, Importations, QuantityImported
<1> HIDE DEF f, g, S
<1>6. Imported' = Imported + q
  <2>1. Total(f, S) = Total(g, S)
    BY <1>2, TotalSame
  <2>2. Total(g, S \cup {r}) = Total(g, S) + g[r]
    BY <1>1, <1>3, <1>4, TotalAdds
  <2> QED
    BY <1>3, <1>5, <2>1, <2>2
<1>7. Taken' = Taken
  BY DEF Taken, QuantityTaken, Live
<1> QED
  BY <1>6, <1>7, SumTypes DEF Books

\* A contracting is booked.
LEMMA ContractingBooked ==
    ASSUME TypeOK, NEW r \in Requests, contracting[r].state = "none", NEW d \in Days, NEW q \in Nat,
           contracting' = [contracting EXCEPT ![r] = [state |-> "live", day |-> d, quantity |-> q]],
           remain' = remain, imported' = imported
    PROVE  Books' = Books - q /\ Live' = Live \cup {r}
<1> DEFINE f == [c \in Requests |-> contracting[c].quantity]
           g == [c \in Requests |-> contracting'[c].quantity]
<1>1. Live' = Live \cup {r} /\ r \notin Live
  BY DEF TypeOK, Live
<1>2. \A x \in Live : f[x] = g[x]
  BY <1>1 DEF TypeOK, Live
<1>3. g[r] = q /\ \A x \in Live \cup {r} : g[x] \in Nat
  BY DEF TypeOK, Contracting, Live
<1>4. IsFiniteSet(Live)
  BY RequestAssumption, FS_Subset DEF Live
<1>5. Taken = Total(f, Live) /\ Taken' = Total(g, Live \cup {r})
  BY <1>1 DEF Taken, QuantityTaken
<1> HIDE DEF f, g
<1>6. Taken' = Taken + q
  <2>1. Total(f, Live) = Total(g, Live)
    BY <1>2, TotalSame
  <2>2. Total(g, Live \cup {r}) = Total(g, Live) + g[r]
    BY <1>1, <1>3, <1>4, TotalAdds
  <2> QED
    BY <1>3, <1>5, <2>1, <2>2
<1>7. Imported' = Imported
  BY DEF Imported, Importations, QuantityImported
<1> QED
  BY <1>1, <1>6, <1>7, SumTypes DEF Books

\* A contracting is changed ...
LEMMA ContractingChanged ==
    ASSUME TypeOK, NEW c \in Live, NEW row \in Contracting, row.state = "live",
           contracting' = [contracting EXCEPT ![c] = row], remain' = remain, imported' = imported
    PROVE  Books' = Books + contracting[c].quantity - row.quantity /\ Live' = Live
<1> DEFINE f == [x \in Requests |-> contracting[x].quantity]
           g == [x \in Requests |-> contracting'[x].quantity]
<1>1. Live' = Live
  BY DEF TypeOK, Live
<1>2. \A x \in Live \ {c} : f[x] = g[x]
  BY DEF TypeOK, Live
<1>3. g[c] = row.quantity /\ f[c] = contracting[c].quantity /\ \A x \in Live : f[x] \in Nat /\ g[x] \in Nat
  BY DEF TypeOK, Contracting, Live
<1>4. IsFiniteSet(Live)
  BY RequestAssumption, FS_Subset DEF Live
<1>5. Taken = Total(f, Live) /\ Taken' = Total(g, Live)
  BY <1>1 DEF Taken, QuantityTaken
<1> HIDE DEF f, g
<1>6. Taken' = Taken - f[c] + g[c]
  BY <1>2, <1>3, <1>4, <1>5, TotalChanges
<1>7. Imported' = Imported
  BY DEF Imported, Importations, QuantityImported
<1> QED
  BY <1>1, <1>3, <1>6, <1>7, SumTypes DEF Books

\* ... or deleted.
LEMMA ContractingDeleted ==
    ASSUME TypeOK, NEW c \in Live, NEW row \in Contracting, row.state = "deleted",
           contracting' = [contracting EXCEPT ![c] = row], remain' = remain, imported' = imported
    PROVE  Books' = Books + contracting[c].quantity /\ Live' = Live \ {c}
<1> DEFINE f == [x \in Requests |-> contracting[x].quantity]
           g == [x \in Requests |-> contracting'[x].quantity]
<1>1. Live' = Live \ {c}
  BY DEF TypeOK, Live
<1>2. \A x \in Live \ {c} : f[x] = g[x]
  BY DEF TypeOK, Live
<1>3. f[c] = contracting[c].quantity /\ \A x \in Live : f[x] \in Int
  BY DEF TypeOK, Contracting, Live
<1>4. IsFiniteSet(Live)
  BY RequestAssumption, FS_Subset DEF Live
<1>5. Taken = Total(f, Live) /\ Taken' = Total(g, Live \ {c})
  BY <1>1 DEF Taken, QuantityTaken
<1> HIDE DEF f, g
<1>6. Taken' = Taken - f[c]
  <2>1. Total(f, Live \ {c}) = Total(g, Live \ {c})
    BY <1>2, TotalSame
  <2>2. Total(f, Live \ {c}) = Total(f, Live) - f[c]
    BY <1>3, <1>4, TotalRemoves
  <2> QED
    BY <1>5, <2>1, <2>2
<1>7. Imported' = Imported
  BY DEF Imported, Importations, QuantityImported
<1> QED
  BY <1>1, <1>3, <1>6, <1>7, SumTypes DEF Books
-----------------------------------------------------------------------------
(* Type correctness is preserved.                                          *)

\* The values that steps give the local variables are of their types.
LEMMA FieldTypes ==
    /\ \A l \in Local, d \in Days, q \in Nat :
         [l EXCEPT !.op = "create", !.day = d, !.quantity = q] \in Local
    /\ \A l \in Local : [l EXCEPT !.op = "import"] \in Local
    /\ \A l \in Local, c \in Requests, q \in Nat \cup {NoAmount}, d \in Days, to \in Days, n \in Nat :
         [l EXCEPT !.op = "update", !.target = c, !.quantity = q, !.day = d, !.to = to, !.taken = n] \in Local
    /\ \A l \in Local, c \in Requests, d \in Days, n \in Nat :
         [l EXCEPT !.op = "remove", !.target = c, !.quantity = 0, !.day = d, !.taken = n] \in Local
    /\ \A l \in Local, d \in Days : [l EXCEPT !.op = "reset", !.day = d] \in Local
    /\ \A l \in Local, d \in Days, n \in Int :
         [l EXCEPT !.op = "record", !.day = d, !.value = n] \in Local
<1>1. \A l \in Local, c \in Requests, q \in Nat \cup {NoAmount}, d \in Days, to \in Days, n \in Nat :
        [l EXCEPT !.op = "update", !.target = c, !.quantity = q, !.day = d, !.to = to, !.taken = n] \in Local
  <2> TAKE l \in Local, c \in Requests, q \in Nat \cup {NoAmount}, d \in Days, to \in Days, n \in Nat
  <2>1. [l EXCEPT !.op = "update", !.target = c, !.quantity = q] \in Local
    BY DEF Local, OpNames
  <2>2. \A m \in Local : [m EXCEPT !.day = d, !.to = to, !.taken = n] \in Local
    BY DEF Local
  <2>3. [l EXCEPT !.op = "update", !.target = c, !.quantity = q, !.day = d, !.to = to, !.taken = n]
          = [[l EXCEPT !.op = "update", !.target = c, !.quantity = q]
               EXCEPT !.day = d, !.to = to, !.taken = n]
    BY DEF Local
  <2> QED
    BY <2>1, <2>2, <2>3
<1>2. \A l \in Local, c \in Requests, d \in Days, n \in Nat :
        [l EXCEPT !.op = "remove", !.target = c, !.quantity = 0, !.day = d, !.taken = n] \in Local
  BY DEF Local, OpNames
<1>3. \A l \in Local, d \in Days, n \in Int :
        [l EXCEPT !.op = "record", !.day = d, !.value = n] \in Local
  BY DEF Local, OpNames
<1>4. /\ \A l \in Local, d \in Days, q \in Nat :
           [l EXCEPT !.op = "create", !.day = d, !.quantity = q] \in Local
      /\ \A l \in Local : [l EXCEPT !.op = "import"] \in Local
      /\ \A l \in Local, d \in Days : [l EXCEPT !.op = "reset", !.day = d] \in Local
  BY DEF Local, OpNames
<1> QED
  BY <1>1, <1>2, <1>3, <1>4

LEMMA ValueTypes ==
    /\ \A l \in Local, n \in Int : [l EXCEPT !.value = n] \in Local /\ [l EXCEPT !.base = n] \in Local
    /\ \A l \in Local, b \in BOOLEAN : [l EXCEPT !.row = b] \in Local
    /\ \A l \in Local, b \in BOOLEAN, n \in Int : [l EXCEPT !.row = b, !.value = n] \in Local
    /\ \A l \in Local, d \in Days, b \in BOOLEAN, n \in Int :
         [l EXCEPT !.day = d, !.row = b, !.value = n] \in Local
    /\ \A l \in Local, n \in Int, d \in 0..LastDay : [l EXCEPT !.base = n, !.since = d] \in Local
  BY DEF Local

\* One request moves on to another await, with other local variables.
LEMMA MoveTypes ==
    ASSUME TypeOK, NEW r \in Requests, NEW label \in Labels, NEW l \in Local, Goto(r, label),
           loc' = [loc EXCEPT ![r] = l] \/ loc' = loc
    PROVE  /\ pc' \in [Requests -> Labels] /\ loc' \in [Requests -> Local]
           /\ pc'[r] = label /\ \A x \in Requests \ {r} : pc'[x] = pc[x] /\ loc'[x] = loc[x]
           /\ loc' = loc \/ loc'[r] = l
  BY DEF TypeOK, Goto

\* Every step keeps the tables and the requests well typed.
LEMMA TypeStep ==
    ASSUME TypeOK, \A r \in Requests : RequestInv(r), [Next]_vars
    PROVE  TypeOK'
<1>a. Suspended \cup {"done", "rejected", "failed"} \subseteq Labels
  BY DEF Labels
<1>b. \A b \in BOOLEAN : Regular(b) => regular' \in BOOLEAN
  BY DEF Regular, TypeOK
<1>c. ASSUME NEW r \in Requests, NEW label \in Suspended \cup {"done", "rejected", "failed"},
             NEW l \in Local, Goto(r, label), loc' = [loc EXCEPT ![r] = l] \/ loc' = loc
      PROVE  pc' \in [Requests -> Labels] /\ loc' \in [Requests -> Local]
  BY <1>a, <1>c, MoveTypes
<1>d. \A r \in Requests : loc[r] \in Local
  BY DEF TypeOK
<1>e. \A c \in Live : c \in Requests /\ contracting[c].day \in Days /\ contracting[c].quantity \in Nat
  BY DEF TypeOK, Contracting, Live
<1>1. ASSUME NEW r \in Requests, NEW d \in Days, NEW q \in Amounts, CreateContracting(r, d, q)
      PROVE  TypeOK'
  <2>1. [loc[r] EXCEPT !.op = "create", !.day = d, !.quantity = q] \in Local
    BY <1>d, FieldTypes, AmountAssumption
  <2>2. pc' \in [Requests -> Labels] /\ loc' \in [Requests -> Local]
    BY <1>1, <1>c, <2>1 DEF CreateContracting, Suspended
  <2> QED
    BY <1>1, <1>b, <2>2 DEF CreateContracting, TypeOK, tables
<1>2. ASSUME NEW r \in Requests, NEW q \in Imports, ImportMaterial(r, q)
      PROVE  TypeOK'
  <2>1. [loc[r] EXCEPT !.op = "import"] \in Local
    BY <1>d, FieldTypes
  <2>2. pc' \in [Requests -> Labels] /\ loc' \in [Requests -> Local]
    BY <1>2, <1>c, <2>1 DEF ImportMaterial, Suspended
  <2>3. imported' \in [Requests -> Importation]
    BY <1>2, ImportAssumption DEF ImportMaterial, TypeOK, Importation
  <2> QED
    BY <1>2, <1>b, <2>2, <2>3 DEF ImportMaterial, TypeOK
<1>3. ASSUME NEW r \in Requests, NEW c \in Requests, NEW q \in Amounts \cup {NoAmount}, NEW d \in Days,
             UpdateContracting(r, c, q, d)
      PROVE  TypeOK'
  <2> DEFINE l == [loc[r] EXCEPT !.op = "update", !.target = c, !.quantity = q,
                     !.day = contracting[c].day, !.to = d, !.taken = contracting[c].quantity]
  <2>1. l \in Local
    BY <1>3, <1>d, <1>e, FieldTypes, AmountAssumption DEF UpdateContracting
  <2>2. loc' = [loc EXCEPT ![r] = l] /\ Goto(r, IF q = NoAmount THEN "save" ELSE "current")
    BY <1>3 DEF UpdateContracting
  <2> HIDE DEF l
  <2>3. pc' \in [Requests -> Labels] /\ loc' \in [Requests -> Local]
    BY <1>c, <2>1, <2>2 DEF Suspended
  <2> QED
    BY <1>3, <1>b, <2>3 DEF UpdateContracting, TypeOK, tables
<1>4. ASSUME NEW r \in Requests, NEW c \in Requests, RemoveContracting(r, c)
      PROVE  TypeOK'
  <2> DEFINE l == [loc[r] EXCEPT !.op = "remove", !.target = c, !.quantity = 0,
                     !.day = contracting[c].day, !.taken = contracting[c].quantity]
  <2>1. l \in Local
    BY <1>4, <1>d, <1>e, FieldTypes DEF RemoveContracting
  <2>2. loc' = [loc EXCEPT ![r] = l] /\ Goto(r, "current")
    BY <1>4 DEF RemoveContracting
  <2> HIDE DEF l
  <2>3. pc' \in [Requests -> Labels] /\ loc' \in [Requests -> Local]
    BY <1>c, <2>1, <2>2 DEF Suspended
  <2> QED
    BY <1>4, <1>b, <2>3 DEF RemoveContracting, TypeOK, tables
<1>5. ASSUME NEW r \in Requests, NEW c \in Requests, Record(r, c)
      PROVE  TypeOK'
  <2>1. PICK left \in 0..contracting[c].quantity :
          loc' = [loc EXCEPT ![r] = [loc[r] EXCEPT !.op = "record", !.day = contracting[c].day, !.value = left]]
    BY <1>5 DEF Record
  <2> DEFINE l == [loc[r] EXCEPT !.op = "record", !.day = contracting[c].day, !.value = left]
  <2>2. l \in Local
    <3>1. contracting[c].day \in Days /\ contracting[c].quantity \in Nat
      BY <1>5, <1>e DEF Record
    <3>2. left \in Int
      BY <3>1
    <3> QED
      BY <1>d, <3>1, <3>2, FieldTypes
  <2>3. loc' = [loc EXCEPT ![r] = l] /\ Goto(r, "find")
    BY <1>5, <2>1 DEF Record
  <2> HIDE DEF l
  <2>4. pc' \in [Requests -> Labels] /\ loc' \in [Requests -> Local]
    BY <1>c, <2>2, <2>3 DEF Suspended
  <2> QED
    BY <1>5, <1>b, <2>4 DEF Record, TypeOK, tables
<1>6. ASSUME NEW r \in Requests, NEW d \in Days, Reset(r, d)
      PROVE  TypeOK'
  <2>1. [loc[r] EXCEPT !.op = "reset", !.day = d] \in Local
    BY <1>d, FieldTypes
  <2>2. pc' \in [Requests -> Labels] /\ loc' \in [Requests -> Local]
    BY <1>6, <1>c, <2>1 DEF Reset, Suspended
  <2> QED
    BY <1>6, <1>b, <2>2 DEF Reset, TypeOK, tables
<1>7. ASSUME NEW r \in Requests, ReadLastRemain(r)
      PROVE  TypeOK'
  <2> DEFINE l == [loc[r] EXCEPT !.value = remain[LastRow] - loc[r].quantity]
  <2>1. \/ Goto(r, "rejected") /\ loc' = loc
        \/ /\ Rows # {} /\ loc[r].quantity <= remain[LastRow]
           /\ Goto(r, "insert") /\ loc' = [loc EXCEPT ![r] = l]
    BY <1>7 DEF ReadLastRemain, Sufficient
  <2>2. Rows # {} /\ loc[r].quantity <= remain[LastRow] => l \in Local
    <3>1. loc[r].quantity \in Nat
      BY <1>7 DEF ReadLastRemain, RequestInv
    <3>2. ASSUME Rows # {}, loc[r].quantity <= remain[LastRow]
          PROVE  remain[LastRow] - loc[r].quantity \in Int
      BY <3>1, <3>2, LastRowIsLast
    <3> QED
      BY <1>d, <3>2, ValueTypes
  <2> HIDE DEF l
  <2>3. pc' \in [Requests -> Labels] /\ loc' \in [Requests -> Local]
    BY <1>c, <1>d, <2>1, <2>2 DEF Suspended
  <2> QED
    BY <1>7, <2>3 DEF ReadLastRemain, TypeOK, tables
<1>8. ASSUME NEW r \in Requests, InsertContracting(r)
      PROVE  TypeOK'
  <2>1. loc[r].quantity \in Nat /\ loc[r].day \in Days
    BY <1>8, <1>d DEF InsertContracting, RequestInv, Local
  <2>2. contracting' \in [Requests -> Contracting]
    BY <1>8, <2>1 DEF InsertContracting, TypeOK, Contracting
  <2>3. pc' \in [Requests -> Labels]
    BY <1>8, <1>a DEF InsertContracting, TypeOK, Goto, Suspended
  <2> QED
    BY <1>8, <2>2, <2>3 DEF InsertContracting, TypeOK
<1>9. ASSUME NEW r \in Requests, ReadLastRow(r)
      PROVE  TypeOK'
  <2> DEFINE l == IF Rows # {}
                  THEN [loc[r] EXCEPT !.day = LastRow, !.row = TRUE,
                                      !.value = remain[LastRow] + imported[r].quantity]
                  ELSE [loc[r] EXCEPT !.day = today, !.row = FALSE, !.value = imported[r].quantity]
  <2>1. loc' = [loc EXCEPT ![r] = l] /\ Goto(r, "store")
    BY <1>9 DEF ReadLastRow
  <2>2. imported[r].quantity \in Int /\ today \in Days
    BY DEF TypeOK, Importation
  <2>3. Rows # {} => LastRow \in Days /\ remain[LastRow] + imported[r].quantity \in Int
    BY <2>2, LastRowIsLast
  <2>4. l \in Local
    BY <1>d, <2>2, <2>3, ValueTypes
  <2> HIDE DEF l
  <2>5. pc' \in [Requests -> Labels] /\ loc' \in [Requests -> Local]
    BY <1>c, <2>1, <2>4 DEF Suspended
  <2> QED
    BY <1>9, <2>5 DEF ReadLastRow, TypeOK, tables
<1>10. ASSUME NEW r \in Requests, ReadCurrent(r)
       PROVE  TypeOK'
  <2> DEFINE l == [loc[r] EXCEPT !.row = (remain[loc[r].day] # NoRow),
                                 !.value = OldRemain(loc[r]) - loc[r].quantity]
  <2>1. \/ Goto(r, "save") /\ loc' = loc
        \/ Goto(r, "rejected") /\ loc' = loc
        \/ Goto(r, "store") /\ loc' = [loc EXCEPT ![r] = l]
    BY <1>10, Zenon DEF ReadCurrent
  <2>2. l \in Local
    <3>1. loc[r].quantity \in Nat /\ loc[r].taken \in Nat /\ loc[r].day \in Days
      BY <1>10, <1>d DEF ReadCurrent, RequestInv, Local
    <3>2. OldRemain(loc[r]) - loc[r].quantity \in Int
      BY <3>1 DEF OldRemain, TypeOK
    <3> QED
      BY <1>d, <3>2, ValueTypes
  <2> HIDE DEF l
  <2>3. pc' \in [Requests -> Labels] /\ loc' \in [Requests -> Local]
    BY <1>c, <1>d, <2>1, <2>2 DEF Suspended
  <2> QED
    BY <1>10, <2>3 DEF ReadCurrent, TypeOK, tables
<1>11. ASSUME NEW r \in Requests, SaveContracting(r)
       PROVE  TypeOK'
  <2>1. \A l \in Local, c \in Contracting : Saved(c, l) \in Contracting
    BY DEF Saved, Local, Contracting
  <2>2. contracting' \in [Requests -> Contracting]
    BY <1>11, <1>d, <2>1 DEF SaveContracting, TypeOK, Live
  <2>3. pc' \in [Requests -> Labels]
    BY <1>11, <1>a DEF SaveContracting, TypeOK, Goto
  <2> QED
    BY <1>11, <2>2, <2>3 DEF SaveContracting, TypeOK
<1>12. ASSUME NEW r \in Requests, ReadYesterday(r)
       PROVE  TypeOK'
  <2> DEFINE rows == RowsBefore(loc[r].day)
             l == IF rows # {} THEN [loc[r] EXCEPT !.base = remain[Max(rows)], !.since = Max(rows)]
                  ELSE [loc[r] EXCEPT !.base = 0, !.since = 0]
  <2>1. loc' = [loc EXCEPT ![r] = l] /\ Goto(r, "imports")
    BY <1>12 DEF ReadYesterday
  <2>2. rows \in SUBSET Days /\ rows \subseteq Rows
    BY DEF RowsBefore, Rows
  <2>3. rows # {} => Max(rows) \in 0..LastDay /\ remain[Max(rows)] \in Int
    <3>1. rows # {} => Max(rows) \in rows
      BY <2>2, LastOfDays
    <3> QED
      BY <2>2, <3>1, DayAssumption DEF Rows, Days, TypeOK
  <2>4. 0 \in 0..LastDay /\ 0 \in Int
    BY DayAssumption
  <2> HIDE DEF rows
  <2>5. l \in Local
    BY <1>d, <2>3, <2>4, ValueTypes
  <2> HIDE DEF l
  <2>6. pc' \in [Requests -> Labels] /\ loc' \in [Requests -> Local]
    BY <1>c, <2>1, <2>5 DEF Suspended
  <2> QED
    BY <1>12, <2>6 DEF ReadYesterday, TypeOK, tables
<1>13. ASSUME NEW r \in Requests, ReadImports(r)
       PROVE  TypeOK'
  <2>1. PICK new \in SUBSET Requests :
          loc' = [loc EXCEPT ![r].base = loc[r].base + QuantityImported(new)]
    BY <1>13 DEF ReadImports
  <2>2. loc[r].base + QuantityImported(new) \in Int
    BY <1>d, SumTypes DEF Local
  <2>3. [loc[r] EXCEPT !.base = loc[r].base + QuantityImported(new)] \in Local
    BY <1>d, <2>2, ValueTypes
  <2>4. Goto(r, "contracted")
    BY <1>13 DEF ReadImports
  <2>5. pc' \in [Requests -> Labels] /\ loc' \in [Requests -> Local]
    BY <1>c, <2>1, <2>3, <2>4 DEF Suspended
  <2> QED
    BY <1>13, <2>5 DEF ReadImports, TypeOK, tables
<1>14. ASSUME NEW r \in Requests, ReadContracted(r)
       PROVE  TypeOK'
  <2>1. PICK n \in Int : loc' = [loc EXCEPT ![r].value = n]
    <3>1. LiveOn(loc[r].day) \in SUBSET Requests
      BY DEF LiveOn, Live
    <3>2. QuantityTaken(LiveOn(loc[r].day)) \in Nat /\ loc[r].base \in Int
      BY <1>d, <3>1, SumTypes DEF Local
    <3> DEFINE taken == QuantityTaken(LiveOn(loc[r].day))
               n == IF taken > loc[r].base THEN 0 ELSE loc[r].base - taken
    <3>3. n \in Int
      BY <3>2
    <3>4. loc' = [loc EXCEPT ![r].value = n]
      BY <1>14 DEF ReadContracted
    <3> QED
      BY <3>3, <3>4
  <2>2. [loc[r] EXCEPT !.value = n] \in Local
    BY <1>d, ValueTypes
  <2>3. Goto(r, "find")
    BY <1>14 DEF ReadContracted
  <2>4. pc' \in [Requests -> Labels] /\ loc' \in [Requests -> Local]
    BY <1>c, <2>1, <2>2, <2>3 DEF Suspended
  <2> QED
    BY <1>14, <2>4 DEF ReadContracted, TypeOK, tables
<1>15. ASSUME NEW r \in Requests, FindRow(r)
       PROVE  TypeOK'
  <2>1. [loc[r] EXCEPT !.row = (remain[loc[r].day] # NoRow)] \in Local
    BY <1>d, ValueTypes
  <2>2. pc' \in [Requests -> Labels] /\ loc' \in [Requests -> Local]
    BY <1>15, <1>c, <2>1 DEF FindRow, Suspended
  <2> QED
    BY <1>15, <2>2 DEF FindRow, TypeOK, tables
<1>16. ASSUME NEW r \in Requests, StoreRemain(r)
       PROVE  TypeOK'
  <2>1. loc[r].value \in Int /\ loc[r].day \in Days
    BY <1>d DEF Local
  <2>2. remain' \in [Days -> Int \cup {NoRow}]
    BY <1>16, <2>1 DEF StoreRemain, TypeOK
  <2>3. pc' \in [Requests -> Labels]
    BY <1>16, <1>a DEF StoreRemain, AfterStore, TypeOK, Goto, Suspended
  <2> QED
    BY <1>16, <2>2, <2>3 DEF StoreRemain, TypeOK
<1>17. ASSUME NEW r \in Requests, Abort(r)
       PROVE  TypeOK'
  <2>1. pc' \in [Requests -> Labels]
    BY <1>17, <1>a DEF Abort, TypeOK, Goto
  <2> QED
    BY <1>17, <2>1 DEF Abort, TypeOK, tables
<1>18. CASE NextDay
  <2>1. today' \in Days
    BY <1>18, DayAssumption DEF NextDay, TypeOK, Days
  <2> QED
    BY <1>18, <1>b, <2>1 DEF NextDay, TypeOK, tables
<1>19. CASE UNCHANGED vars
  BY <1>19 DEF vars, TypeOK
<1>20. ASSUME NEW r \in Requests, Call(r) PROVE TypeOK'
  BY <1>1, <1>2, <1>3, <1>4, <1>5, <1>6, <1>20 DEF Call
<1>21. ASSUME NEW r \in Requests, Continue(r) PROVE TypeOK'
  BY <1>7, <1>8, <1>9, <1>10, <1>11, <1>12, <1>13, <1>14, <1>15, <1>16, <1>21 DEF Continue
<1> QED
  BY <1>17, <1>18, <1>19, <1>20, <1>21 DEF Next

-----------------------------------------------------------------------------
(* What is known about each request is preserved.                          *)

\* A step of r leaves the other requests where they are.
Others(r) == \A x \in Requests \ {r} : pc'[x] = pc[x] /\ loc'[x] = loc[x]

LEMMA StepEffect ==
    ASSUME TypeOK, NEW r \in Requests, Call(r) \/ Continue(r) \/ Abort(r)
    PROVE  Others(r)
<1>1. ASSUME Call(r) PROVE Others(r)
  BY <1>1 DEF Call, CreateContracting, ImportMaterial, UpdateContracting, RemoveContracting, Record,
     Reset, Goto, Others, TypeOK
<1>2. ASSUME Continue(r) PROVE Others(r)
  BY <1>2 DEF Continue, ReadLastRemain, InsertContracting, ReadLastRow, ReadCurrent, SaveContracting,
     ReadYesterday, ReadImports, ReadContracted, FindRow, StoreRemain, Goto, Others, TypeOK
<1>3. ASSUME Abort(r) PROVE Others(r)
  BY <1>3 DEF Abort, Goto, Others, TypeOK
<1> QED
  BY <1>1, <1>2, <1>3

LEMMA RequestsKept ==
    ASSUME \A x \in Requests : RequestInv(x), NEW r \in Requests, Others(r),
           \A x \in Requests \ {r} :
             /\ imported'[x] = imported[x]
             /\ contracting[x].state = "none" => contracting'[x].state = "none",
           RequestInv(r)'
    PROVE  \A x \in Requests : RequestInv(x)'
  BY DEF RequestInv, Others

LEMMA RequestStep ==
    ASSUME TypeOK, \A x \in Requests : RequestInv(x), [Next]_vars
    PROVE  \A x \in Requests : RequestInv(x)'
<1>a. ASSUME NEW r \in Requests, Others(r), imported' = imported, contracting' = contracting,
             pc'[r] \in {"last", "insert", "current"} => loc'[r].quantity \in Nat,
             pc'[r] = "current" => loc'[r].op = "update" \/ (loc'[r].op = "remove" /\ loc'[r].quantity = 0),
             pc'[r] \notin {"idle", "lastRow"}, pc'[r] \in {"last", "insert"} => pc[r] \in {"idle", "last"}
      PROVE  \A x \in Requests : RequestInv(x)'
  <2>1. RequestInv(r)'
    BY <1>a DEF RequestInv
  <2> QED
    BY <1>a, <2>1, RequestsKept
<1>b. \A l \in Local, q \in Nat : [l EXCEPT !.quantity = q].quantity = q
  BY DEF Local
<1>1. ASSUME NEW r \in Requests, Others(r), Call(r)
      PROVE  \A x \in Requests : RequestInv(x)'
  <2>1. ASSUME NEW q \in Imports, ImportMaterial(r, q)
        PROVE  \A x \in Requests : RequestInv(x)'
    <3>1. contracting' = contracting /\ pc'[r] = "lastRow" /\ imported'[r].made
      BY <2>1 DEF ImportMaterial, Goto, TypeOK
    <3>2. \A x \in Requests \ {r} : imported'[x] = imported[x]
      BY <2>1 DEF ImportMaterial, TypeOK
    <3>3. RequestInv(r)'
      BY <3>1 DEF RequestInv
    <3> QED
      BY <1>1, <3>1, <3>2, <3>3, RequestsKept
  <2>2. ASSUME NEW d \in Days, NEW q \in Amounts, CreateContracting(r, d, q)
        PROVE  \A x \in Requests : RequestInv(x)'
    <3>1. /\ pc[r] = "idle" /\ pc'[r] = "last" /\ loc'[r].quantity \in Nat
          /\ imported' = imported /\ contracting' = contracting
      BY <2>2, AmountAssumption DEF CreateContracting, Starts, Goto, TypeOK, Local, tables
    <3> QED
      BY <1>1, <1>a, <3>1
  <2>3. ASSUME NEW c \in Requests, NEW q \in Amounts \cup {NoAmount}, NEW d \in Days,
               UpdateContracting(r, c, q, d)
        PROVE  \A x \in Requests : RequestInv(x)'
    <3>1. /\ pc'[r] \in {"save", "current"} /\ imported' = imported /\ contracting' = contracting
          /\ pc'[r] = "current" => q # NoAmount
      BY <2>3 DEF UpdateContracting, Goto, TypeOK, tables
    <3>2. loc'[r].quantity = q /\ loc'[r].op = "update"
      BY <2>3 DEF UpdateContracting, TypeOK, Local
    <3>3. pc'[r] = "current" => loc'[r].quantity \in Nat
      BY <3>1, <3>2, AmountAssumption
    <3>4. \/ pc'[r] = "save"
          \/ pc'[r] = "current"
      BY <3>1
    <3>5. pc'[r] \notin {"idle", "lastRow"} /\ pc'[r] \notin {"last", "insert"}
      BY <3>4
    <3>6. pc'[r] \in {"last", "insert", "current"} => loc'[r].quantity \in Nat
      BY <3>3, <3>5
    <3>7. pc'[r] = "current" => loc'[r].op = "update" \/ (loc'[r].op = "remove" /\ loc'[r].quantity = 0)
      BY <3>2
    <3> QED
      BY <1>1, <1>a, <3>1, <3>5, <3>6, <3>7
  <2>4. ASSUME NEW c \in Requests, RemoveContracting(r, c)
        PROVE  \A x \in Requests : RequestInv(x)'
    <3>1. pc'[r] = "current" /\ imported' = imported /\ contracting' = contracting
      BY <2>4 DEF RemoveContracting, Goto, TypeOK, tables
    <3>2. loc'[r].quantity = 0 /\ loc'[r].op = "remove"
      BY <2>4 DEF RemoveContracting, TypeOK, Local
    <3> QED
      BY <1>1, <1>a, <3>1, <3>2
  <2>5. ASSUME (\E c \in Requests : Record(r, c)) \/ \E d \in Days : Reset(r, d)
        PROVE  \A x \in Requests : RequestInv(x)'
    <3>1. pc'[r] \in {"find", "yesterday"} /\ imported' = imported /\ contracting' = contracting
      BY <2>5 DEF Record, Reset, Goto, TypeOK, tables
    <3> QED
      BY <1>1, <1>a, <3>1
  <2> QED
    BY <1>1, <2>1, <2>2, <2>3, <2>4, <2>5 DEF Call
<1>2. ASSUME NEW r \in Requests, Others(r), Continue(r) \/ Abort(r)
      PROVE  \A x \in Requests : RequestInv(x)'
  <2>1. CASE InsertContracting(r)
    <3>1. pc'[r] = "find" /\ imported' = imported
      BY <2>1 DEF InsertContracting, Goto, TypeOK
    <3>2. \A x \in Requests \ {r} : contracting'[x] = contracting[x]
      BY <2>1 DEF InsertContracting, TypeOK
    <3>3. RequestInv(r)'
      BY <3>1 DEF RequestInv
    <3> QED
      BY <1>2, <3>1, <3>2, <3>3, RequestsKept
  <2>2. CASE SaveContracting(r)
    <3>1. pc'[r] \in {"done", "failed"} /\ imported' = imported
      BY <2>2 DEF SaveContracting, Goto, TypeOK
    <3>2. \A x \in Requests : contracting[x].state = "none" => contracting'[x].state = "none"
      BY <2>2 DEF SaveContracting, TypeOK, Live
    <3>3. RequestInv(r)'
      BY <3>1 DEF RequestInv
    <3> QED
      BY <1>2, <3>1, <3>2, <3>3, RequestsKept
  <2>3. CASE ReadLastRemain(r)
    <3>1. /\ pc[r] = "last" /\ pc'[r] \in {"insert", "rejected"}
          /\ imported' = imported /\ contracting' = contracting
      BY <2>3 DEF ReadLastRemain, Goto, TypeOK, tables
    <3>2. loc'[r].quantity = loc[r].quantity
      BY <2>3 DEF ReadLastRemain, TypeOK, Local
    <3>3. loc[r].quantity \in Nat
      BY <3>1 DEF RequestInv
    <3> QED
      BY <1>2, <1>a, <3>1, <3>2, <3>3
  <2>4. ASSUME ~InsertContracting(r), ~SaveContracting(r), ~ReadLastRemain(r)
        PROVE  /\ imported' = imported /\ contracting' = contracting
               /\ pc'[r] \notin {"idle", "last", "insert", "lastRow", "current"}
    BY <1>2, <2>4 DEF Continue, Abort, ReadLastRow, ReadCurrent, ReadYesterday, ReadImports,
       ReadContracted, FindRow, StoreRemain, AfterStore, Goto, TypeOK, tables
  <2> QED
    BY <1>2, <1>a, <2>1, <2>2, <2>3, <2>4
<1>3. CASE NextDay \/ UNCHANGED vars
  BY <1>3 DEF NextDay, vars, tables, RequestInv
<1> QED
  BY <1>1, <1>2, <1>3, StepEffect DEF Next

-----------------------------------------------------------------------------
(* The balance agrees with the books.                                      *)

\* The steps of a call that is served alone.
LEMMA OneCall ==
    ASSUME TypeOK, TypeOK', NEW r \in Requests, Others(r),
           regular' => /\ InFlight \subseteq {r}
                       /\ \A d \in Rows' : d <= today'
                       /\ \A c \in Live' : HasRow(c)'
                       /\ pc'[r] \in Suspended => ServingInv(r)'
                       /\ pc'[r] \notin Suspended => Books' = Last'
    PROVE  RegularInv'
<1> SUFFICES ASSUME regular'
             PROVE  /\ \A x, y \in InFlight' : x = y
                    /\ \A x \in InFlight' : ServingInv(x)'
                    /\ InFlight' = {} => Books' = Last'
  BY DEF RegularInv
<1>1. InFlight' \subseteq {r}
  BY DEF InFlight, Others
<1>2. r \in InFlight' <=> pc'[r] \in Suspended
  BY DEF InFlight
<1> QED
  BY <1>1, <1>2

\* Before a call begins, the balance agrees; no row is yet to be written.
LEMMA CallBegins ==
    ASSUME TypeOK, RegularInv, NEW r \in Requests, NEW op, Starts(r, op), NEW b, Regular(b), regular',
           UNCHANGED tables, today' = today, Others(r)
    PROVE  /\ InFlight = {} /\ Books' = Books /\ Last' = Last /\ Books = Last /\ b
           /\ Live' = Live /\ Rows' = Rows
           /\ \A d \in Rows' : d <= today'
           /\ \A c \in Live' : HasRow(c)' /\ contracting[c].day \in Rows
<1>1. regular /\ InFlight = {} /\ b
  BY DEF Regular
<1>2. Books' = Books /\ Last' = Last /\ Live' = Live /\ Rows' = Rows
  BY TablesStay
<1>3. \A c \in Live : contracting[c].day \in Rows
  BY <1>1 DEF RegularInv, HasRow, InFlight, Live, Suspended
<1>4. contracting' = contracting
  BY DEF tables
<1> QED
  BY <1>1, <1>2, <1>3, <1>4 DEF RegularInv, HasRow

\* While a call is served, it is served alone.
LEMMA CallGoesOn ==
    ASSUME RegularInv, NEW r \in Requests, pc[r] \in Suspended, regular
    PROVE  InFlight \subseteq {r} /\ ServingInv(r) /\ (\A d \in Rows : d <= today)
           /\ \A c \in Live : HasRow(c)
  BY DEF RegularInv, InFlight

\* A step that writes no table.
LEMMA ReadStep ==
    ASSUME TypeOK, TypeOK', RegularInv, NEW r \in Requests, Others(r), pc[r] \in Suspended,
           UNCHANGED <<tables, today, regular>>,
           pc'[r] \in {"find", "store"} \/ pc[r] \notin {"find", "store"},
           pc[r] \in {"find", "store"} => loc'[r].day = loc[r].day,
           regular => /\ pc'[r] \in Suspended => ServingInv(r)'
                      /\ pc'[r] \notin Suspended => Books = Last
    PROVE  RegularInv'
<1>1. Books' = Books /\ Last' = Last /\ Live' = Live /\ Rows' = Rows /\ contracting' = contracting
  BY TablesStay DEF tables
<1>2. ASSUME regular, NEW c \in Live PROVE HasRow(c)'
  <2>1. HasRow(c) /\ c \in Requests
    BY <1>2, CallGoesOn DEF Live
  <2> QED
    BY <1>1, <2>1 DEF HasRow, Others
<1> QED
  BY <1>1, <1>2, CallGoesOn, OneCall

\* A call begins.
LEMMA RegularCall ==
    ASSUME TypeOK, TypeOK', \A x \in Requests : RequestInv(x), RegularInv,
           NEW r \in Requests, Others(r), Call(r)
    PROVE  RegularInv'
<1>1. ASSUME NEW d \in Days, NEW q \in Amounts, CreateContracting(r, d, q)
      PROVE  RegularInv'
  <2>1. pc'[r] = "last" /\ UNCHANGED tables /\ today' = today /\ Starts(r, "create") /\ Regular(d = today)
    BY <1>1 DEF CreateContracting, Goto, TypeOK
  <2>2. loc'[r].op = "create" /\ loc'[r].day = d
    BY <1>1 DEF CreateContracting, TypeOK, Local
  <2>3. regular' => ServingInv(r)'
    BY <2>1, <2>2, CallBegins DEF ServingInv
  <2> QED
    BY <2>1, <2>3, CallBegins, OneCall DEF Suspended
<1>2. ASSUME NEW q \in Imports, ImportMaterial(r, q)
      PROVE  RegularInv'
  <2>1. /\ pc'[r] = "lastRow" /\ remain' = remain /\ contracting' = contracting /\ today' = today
        /\ Regular(TRUE) /\ q \in Int /\ ~imported[r].made
    BY <1>2, ImportAssumption DEF ImportMaterial, Starts, RequestInv, Goto, TypeOK
  <2>2. loc'[r].op = "import" /\ imported'[r].quantity = q
    BY <1>2 DEF ImportMaterial, TypeOK, Local
  <2>3. Books' = Books + q
    BY <1>2, <2>1, ImportBooked DEF ImportMaterial
  <2>4. Rows' = Rows /\ Live' = Live
    BY <2>1 DEF Rows, Live
  <2>5. Last' = Last
    BY <2>1, <2>4 DEF Last, LastRow
  <2>6. regular' => regular /\ InFlight = {}
    BY <2>1 DEF Regular
  <2>7. regular' => ServingInv(r)'
    BY <2>1, <2>2, <2>3, <2>5, <2>6 DEF ServingInv, RegularInv
  <2>8. ASSUME regular', NEW c \in Live PROVE HasRow(c)'
    <3>1. HasRow(c) /\ c \in Requests
      BY <2>6, <2>8 DEF RegularInv, Live
    <3>2. contracting[c].day \in Rows
      BY <2>6, <2>8, <3>1 DEF HasRow, InFlight, Suspended
    <3> QED
      BY <2>1, <2>4, <3>2 DEF HasRow
  <2> QED
    BY <2>1, <2>4, <2>6, <2>7, <2>8, OneCall DEF RegularInv, Suspended
<1>3. ASSUME NEW c \in Requests, NEW q \in Amounts \cup {NoAmount}, NEW d \in Days,
             UpdateContracting(r, c, q, d)
      PROVE  RegularInv'
  <2>1. /\ UNCHANGED tables /\ today' = today /\ Starts(r, "update") /\ c \in Live
        /\ Regular(contracting[c].day = today /\ d = today) /\ contracting' = contracting
        /\ pc'[r] = IF q = NoAmount THEN "save" ELSE "current"
    BY <1>3 DEF UpdateContracting, Goto, TypeOK, tables
  <2>2. /\ loc'[r].op = "update" /\ loc'[r].target = c /\ loc'[r].quantity = q
        /\ loc'[r].day = contracting[c].day /\ loc'[r].to = d /\ loc'[r].taken = contracting[c].quantity
    BY <1>3 DEF UpdateContracting, TypeOK, Local
  <2>3. ASSUME regular' PROVE ServingInv(r)'
    <3>1. /\ contracting[c].day = today /\ d = today /\ Books' = Last' /\ Live' = Live
      BY <2>1, <2>3, CallBegins
    <3>2. TargetRead(loc[r])'
      BY <2>1, <2>2, <3>1 DEF TargetRead
    <3> QED
      BY <2>1, <2>2, <3>1, <3>2 DEF ServingInv
  <2> QED
    BY <2>1, <2>3, CallBegins, OneCall DEF Suspended
<1>4. ASSUME NEW c \in Requests, RemoveContracting(r, c)
      PROVE  RegularInv'
  <2>1. /\ UNCHANGED tables /\ today' = today /\ Starts(r, "remove") /\ c \in Live
        /\ Regular(contracting[c].day = today) /\ contracting' = contracting
        /\ pc'[r] = "current"
    BY <1>4 DEF RemoveContracting, Goto, TypeOK, tables
  <2>2. /\ loc'[r].op = "remove" /\ loc'[r].target = c /\ loc'[r].quantity = 0
        /\ loc'[r].day = contracting[c].day /\ loc'[r].taken = contracting[c].quantity
    BY <1>4 DEF RemoveContracting, TypeOK, Local
  <2>3. ASSUME regular' PROVE ServingInv(r)'
    <3>1. contracting[c].day = today /\ Books' = Last' /\ Live' = Live
      BY <2>1, <2>3, CallBegins
    <3>2. TargetRead(loc[r])'
      BY <2>1, <2>2, <3>1 DEF TargetRead
    <3> QED
      BY <2>1, <3>1, <3>2 DEF ServingInv
  <2> QED
    BY <2>1, <2>3, CallBegins, OneCall DEF Suspended
<1>5. ASSUME (\E c \in Requests : Record(r, c)) \/ \E d \in Days : Reset(r, d)
      PROVE  RegularInv'
  <2>1. ~regular'
    BY <1>5 DEF Record, Reset, Regular
  <2> QED
    BY <2>1 DEF RegularInv
<1> QED
  BY <1>1, <1>2, <1>3, <1>4, <1>5 DEF Call

\* The awaits that read.
LEMMA RegularRead ==
    ASSUME TypeOK, TypeOK', \A x \in Requests : RequestInv(x), RegularInv,
           NEW r \in Requests, Others(r),
           \/ ReadLastRemain(r) \/ ReadLastRow(r) \/ ReadCurrent(r) \/ FindRow(r)
           \/ ReadYesterday(r) \/ ReadImports(r) \/ ReadContracted(r)
    PROVE  RegularInv'
<1>1. UNCHANGED <<tables, today, regular>> /\ pc[r] \in Suspended
  BY DEF ReadLastRemain, ReadLastRow, ReadCurrent, FindRow, ReadYesterday, ReadImports,
     ReadContracted, Suspended
<1>2. Books' = Books /\ Last' = Last /\ Live' = Live /\ Rows' = Rows /\ contracting' = contracting
  BY <1>1, TablesStay DEF tables
<1>3. Last \in Int /\ Books \in Int
  BY SumTypes DEF Books
<1>4. CASE ReadLastRemain(r)
  <2>1. pc[r] = "last" /\ pc'[r] \in {"insert", "rejected"}
    BY <1>4 DEF ReadLastRemain, Goto, TypeOK
  <2>2. /\ loc'[r].op = loc[r].op /\ loc'[r].day = loc[r].day /\ loc'[r].quantity = loc[r].quantity
        /\ pc'[r] = "insert" => Rows # {} /\ loc'[r].value = remain[LastRow] - loc[r].quantity
    BY <1>4 DEF ReadLastRemain, Goto, TypeOK, Local
  <2>3. loc[r].quantity \in Nat
    BY <2>1 DEF RequestInv
  <2>4. ASSUME regular, pc'[r] = "insert" PROVE ServingInv(r)'
    <3>1. loc[r].op = "create" /\ loc[r].day = today /\ Books = Last
      BY <1>1, <2>1, <2>4, CallGoesOn DEF ServingInv
    <3>2. Last = remain[LastRow]
      BY <2>2, <2>4 DEF Last
    <3>3. Books = loc'[r].value + loc'[r].quantity
      BY <1>3, <2>2, <2>3, <2>4, <3>1, <3>2
    <3> QED
      BY <1>1, <1>2, <2>2, <2>4, <3>1, <3>3 DEF ServingInv
  <2>5. regular => Books = Last
    BY <1>1, <2>1, CallGoesOn DEF ServingInv
  <2> QED
    BY <1>1, <2>1, <2>4, <2>5, ReadStep DEF Suspended
<1>5. CASE ReadLastRow(r)
  <2>1. pc[r] = "lastRow" /\ pc'[r] = "store"
    BY <1>5 DEF ReadLastRow, Goto, TypeOK
  <2>2. /\ loc'[r].op = loc[r].op
        /\ IF Rows # {}
           THEN loc'[r].day = LastRow /\ loc'[r].row /\ loc'[r].value = remain[LastRow] + imported[r].quantity
           ELSE loc'[r].day = today /\ loc'[r].value = imported[r].quantity
    BY <1>5 DEF ReadLastRow, TypeOK, Local
  <2>3. imported[r].quantity \in Int
    BY DEF TypeOK, Importation
  <2>4. ASSUME regular PROVE ServingInv(r)'
    <3>1. loc[r].op = "import" /\ Books = Last + imported[r].quantity /\ \A d \in Rows : d <= today
      BY <1>1, <2>1, <2>4, CallGoesOn DEF ServingInv
    <3>2. Books = loc'[r].value
      BY <2>2, <2>3, <3>1 DEF Last
    <3>3. today \in Int
      BY DEF TypeOK, Days
    <3>4. /\ loc'[r].day <= today /\ \A d \in Rows : d <= loc'[r].day
          /\ loc'[r].row \/ loc'[r].day \notin Rows
      BY <2>2, <3>1, <3>3, LastRowIsLast
    <3> QED
      BY <1>1, <1>2, <2>1, <2>2, <3>1, <3>2, <3>4 DEF ServingInv
  <2> QED
    BY <1>1, <2>1, <2>4, ReadStep DEF Suspended
<1>6. CASE ReadCurrent(r)
  <2>1. pc[r] = "current" /\ pc'[r] \in {"save", "rejected", "store"}
    BY <1>6 DEF ReadCurrent, Goto, TypeOK
  <2> DEFINE l == loc[r]
             row == remain[loc[r].day] # NoRow
             n == OldRemain(loc[r]) - loc[r].quantity
  <2>2. \/ l.op = "remove" /\ ~row /\ pc'[r] = "save"
        \/ pc'[r] = "rejected"
        \/ pc'[r] = "store" /\ loc' = [loc EXCEPT ![r] = [l EXCEPT !.row = row, !.value = n]]
    BY <1>6, Zenon DEF ReadCurrent, Goto, TypeOK
  <2>3. ASSUME regular
        PROVE  /\ row /\ Books = Last /\ TargetRead(l) /\ l.day \in Rows /\ \A d \in Rows : d <= l.day
    <3>1. TargetRead(l) /\ Books = Last /\ (\A d \in Rows : d <= today) /\ HasRow(l.target)
      BY <1>1, <2>1, <2>3, CallGoesOn DEF ServingInv, TargetRead
    <3>2. InFlight \subseteq {r}
      BY <1>1, <2>3, CallGoesOn
    <3>3. today \in Rows
      BY <2>1, <3>1, <3>2 DEF TargetRead, HasRow, InFlight, Suspended, Live
    <3> QED
      BY <3>1, <3>3 DEF TargetRead, Rows
  <2>4. ASSUME regular, pc'[r] = "store" PROVE ServingInv(r)'
    <3>1. loc'[r] = [l EXCEPT !.row = row, !.value = n] /\ l \in Local
      BY <2>1, <2>2, <2>4 DEF TypeOK
    <3> HIDE DEF row, n
    <3>2. /\ loc'[r].op = l.op /\ loc'[r].target = l.target /\ loc'[r].day = l.day /\ loc'[r].to = l.to
          /\ loc'[r].quantity = l.quantity /\ loc'[r].taken = l.taken
          /\ (loc'[r].row <=> row) /\ loc'[r].value = n
      BY <3>1 DEF Local
    <3>3. TargetRead(loc[r])'
      BY <1>1, <1>2, <2>3, <2>4, <3>2 DEF TargetRead
    <3>4. l.quantity \in Nat /\ l.taken \in Nat
      BY <2>1, <3>1 DEF RequestInv, Local
    <3>5. LastRow = l.day /\ Last = remain[l.day]
      BY <2>3, <2>4, LastRowIs DEF Last
    <3>6. n = Last + l.taken - l.quantity
      <4>1. OldRemain(l) = remain[l.day] + l.taken
        BY <2>3, <2>4 DEF OldRemain, row
      <4> QED
        BY <1>3, <3>4, <3>5, <4>1 DEF n
    <3>7. Books + l.taken - l.quantity = n
      BY <2>3, <2>4, <3>6
    <3>8. l.day <= today
      BY <2>3, <2>4 DEF TargetRead, TypeOK, Days
    <3> QED
      BY <1>1, <1>2, <2>3, <2>4, <3>2, <3>3, <3>4, <3>7, <3>8 DEF ServingInv
  <2>5. regular => pc'[r] # "save"
    BY <2>2, <2>3
  <2> QED
    BY <1>1, <2>1, <2>3, <2>4, <2>5, ReadStep DEF Suspended
<1>7. CASE FindRow(r)
  <2>1. pc[r] = "find" /\ pc'[r] = "store"
    BY <1>7 DEF FindRow, Goto, TypeOK
  <2>2. /\ loc'[r].op = loc[r].op /\ loc'[r].day = loc[r].day /\ loc'[r].value = loc[r].value
        /\ loc'[r].row <=> remain[loc[r].day] # NoRow
    BY <1>7 DEF FindRow, TypeOK, Local
  <2>3. ASSUME regular PROVE ServingInv(r)'
    <3>1. loc[r].op = "create" /\ loc[r].day = today /\ Books = loc[r].value /\ \A d \in Rows : d <= today
      BY <1>1, <2>1, <2>3, CallGoesOn DEF ServingInv
    <3>2. loc'[r].row \/ loc'[r].day \notin Rows
      BY <2>2 DEF Rows
    <3>3. today <= today
      BY DEF TypeOK, Days
    <3> QED
      BY <1>1, <1>2, <2>1, <2>2, <3>1, <3>2, <3>3 DEF ServingInv
  <2> QED
    BY <1>1, <2>1, <2>2, <2>3, ReadStep DEF Suspended
<1>8. CASE ReadYesterday(r) \/ ReadImports(r) \/ ReadContracted(r)
  <2>1. ~regular
    BY <1>1, <1>8, CallGoesOn DEF ReadYesterday, ReadImports, ReadContracted, ServingInv
  <2> QED
    BY <1>1, <2>1 DEF RegularInv
<1> QED
  BY <1>4, <1>5, <1>6, <1>7, <1>8

\* The awaits that write.
LEMMA RegularWrite ==
    ASSUME TypeOK, TypeOK', \A x \in Requests : RequestInv(x), RegularInv,
           NEW r \in Requests, Others(r),
           InsertContracting(r) \/ StoreRemain(r) \/ SaveContracting(r) \/ Abort(r)
    PROVE  RegularInv'
<1>a. Last \in Int /\ Books \in Int
  BY SumTypes DEF Books
<1>1. CASE InsertContracting(r)
  <2>1. /\ pc[r] = "insert" /\ pc'[r] = "find" /\ contracting[r].state = "none"
        /\ loc' = loc /\ today' = today /\ regular' = regular /\ remain' = remain /\ imported' = imported
    BY <1>1 DEF InsertContracting, Goto, TypeOK, RequestInv
  <2>2. loc[r].quantity \in Nat /\ loc[r].day \in Days /\ loc[r].value \in Int
    BY <2>1 DEF RequestInv, TypeOK, Local
  <2>3. Books' = Books - loc[r].quantity /\ Live' = Live \cup {r}
    BY <1>1, <2>1, <2>2, ContractingBooked DEF InsertContracting
  <2>4. Rows' = Rows
    BY <2>1 DEF Rows
  <2>5. /\ contracting'[r].day = loc[r].day
        /\ \A c \in Requests \ {r} : contracting'[c] = contracting[c]
    BY <1>1 DEF InsertContracting, TypeOK
  <2>6. ASSUME regular PROVE ServingInv(r)'
    <3>1. loc[r].op = "create" /\ loc[r].day = today /\ Books = loc[r].value + loc[r].quantity
      BY <2>1, <2>6, CallGoesOn DEF ServingInv, Suspended
    <3>2. Books' = loc[r].value
      BY <2>2, <2>3, <3>1
    <3> QED
      BY <2>1, <3>1, <3>2 DEF ServingInv
  <2>7. ASSUME regular, NEW c \in Live' PROVE HasRow(c)'
    <3>1. CASE c = r
      BY <2>1, <2>5, <3>1 DEF HasRow
    <3>2. CASE c # r
      <4>1. c \in Live /\ c \in Requests \ {r}
        BY <2>3, <2>7, <3>2 DEF Live
      <4>2. HasRow(c)
        BY <2>1, <2>7, <4>1, CallGoesOn DEF Suspended
      <4> QED
        BY <2>1, <2>4, <2>5, <4>1, <4>2 DEF HasRow, Others
    <3> QED
      BY <3>1, <3>2
  <2> QED
    BY <2>1, <2>4, <2>6, <2>7, CallGoesOn, OneCall DEF Suspended
<1>2. CASE StoreRemain(r)
  <2> DEFINE l == loc[r]
  <2>1. /\ pc[r] = "store" /\ loc' = loc /\ today' = today /\ regular' = regular
        /\ contracting' = contracting /\ imported' = imported
    BY <1>2 DEF StoreRemain
  <2>2. Books' = Books /\ Live' = Live
    BY <2>1 DEF Books, Imported, Importations, Taken, QuantityImported, QuantityTaken, Live
  <2>3. l \in Local /\ l.day \in Days /\ l.value \in Int /\ l.taken \in Nat
    BY DEF TypeOK, Local
  <2>4. ASSUME regular
        PROVE  /\ InFlight \subseteq {r}
               /\ \A d \in Rows' : d <= today'
               /\ \A c \in Live' : HasRow(c)'
               /\ pc'[r] \in Suspended => ServingInv(r)'
               /\ pc'[r] \notin Suspended => Books' = Last'
    <3>1. /\ InFlight \subseteq {r} /\ \A c \in Live : HasRow(c)
          /\ l.day <= today /\ (\A d \in Rows : d <= l.day) /\ (\A d \in Rows : d <= today)
          /\ l.row \/ l.day \notin Rows
          /\ \/ l.op \in {"create", "import"} /\ Books = l.value
             \/ TargetRead(l) /\ l.quantity \in Nat /\ Books + l.taken - l.quantity = l.value
      BY <2>1, <2>4, CallGoesOn DEF ServingInv, Suspended
    <3>2. remain' = [remain EXCEPT ![l.day] = l.value] /\ pc'[r] = AfterStore(l.op)
      BY <1>2, <2>3, <3>1 DEF StoreRemain, Goto, TypeOK, Rows
    <3>3. Rows' = Rows \cup {l.day} /\ remain'[l.day] = l.value
      BY <2>3, <3>2, NullAssumption DEF Rows, TypeOK
    <3>4. l.day <= l.day
      BY <2>3 DEF Days
    <3>5. LastRow' = l.day
      <4>1. \A e \in Rows' : e <= l.day
        BY <3>1, <3>3, <3>4
      <4>2. LastRow' \in Rows' /\ l.day <= LastRow'
        <5>1. Rows' \in SUBSET Days /\ Rows' # {}
          BY <2>3, <3>3 DEF Rows
        <5> QED
          BY <3>3, <5>1, LastOfDays DEF LastRow
      <4> QED
        BY <2>3, <4>1, <4>2 DEF Rows, Days
    <3>6. Last' = l.value
      BY <3>3, <3>5 DEF Last
    <3>7. \A d \in Rows' : d <= today'
      BY <2>1, <3>1, <3>3
    <3>8. \A c \in Live' : HasRow(c)'
      BY <2>1, <2>2, <3>1, <3>3 DEF HasRow, Live, InFlight, Suspended
    <3>9. CASE l.op \in {"create", "import"} /\ Books = l.value
      BY <2>2, <3>1, <3>2, <3>6, <3>7, <3>8, <3>9 DEF AfterStore, Suspended
    <3>10. CASE TargetRead(l) /\ l.quantity \in Nat /\ Books + l.taken - l.quantity = l.value
      <4>1. pc'[r] = "save"
        BY <3>2, <3>10 DEF AfterStore, TargetRead
      <4>2. TargetRead(loc[r])'
        BY <2>1, <2>2, <3>10 DEF TargetRead
      <4>3. l.quantity # NoAmount /\ Books' + l.taken - l.quantity = Last'
        BY <2>2, <3>6, <3>10, AmountAssumption
      <4> QED
        BY <2>1, <3>1, <3>7, <3>8, <4>1, <4>2, <4>3 DEF ServingInv, Suspended
    <3> QED
      BY <3>1, <3>9, <3>10
  <2> QED
    BY <2>1, <2>4, OneCall
<1>3. CASE SaveContracting(r)
  <2> DEFINE l == loc[r]
             c == loc[r].target
             row == Saved(contracting[c], l)
  <2>1. /\ pc[r] = "save" /\ loc' = loc /\ today' = today /\ regular' = regular
        /\ remain' = remain /\ imported' = imported
        /\ pc'[r] \in {"done", "failed"}
        /\ c \in Live => contracting' = [contracting EXCEPT ![c] = row]
    BY <1>3 DEF SaveContracting, Goto, TypeOK
  <2>2. Rows' = Rows
    BY <2>1 DEF Rows
  <2>3. Last' = Last
    BY <2>1, <2>2 DEF Last, LastRow
  <2>4. ASSUME regular
        PROVE  /\ InFlight \subseteq {r}
               /\ \A d \in Rows' : d <= today'
               /\ \A x \in Live' : HasRow(x)'
               /\ Books' = Last'
    <3>1. /\ InFlight \subseteq {r} /\ \A x \in Live : HasRow(x)
          /\ \A d \in Rows : d <= today
          /\ TargetRead(l)
          /\ IF l.quantity = NoAmount THEN Books = Last ELSE Books + l.taken - l.quantity = Last
      BY <2>1, <2>4, CallGoesOn DEF ServingInv, Suspended
    <3>2. /\ c \in Live /\ c \in Requests /\ contracting[c] \in Contracting /\ l \in Local
          /\ contracting[c].state = "live" /\ contracting[c].quantity \in Nat
      BY <3>1 DEF TargetRead, Live, TypeOK, Contracting
    <3>3. l.taken = contracting[c].quantity /\ l.day = today /\ contracting[c].day = today
      BY <3>1 DEF TargetRead
    <3>4. \A x \in Live : contracting[x].day \in Rows
      BY <2>1, <3>1 DEF HasRow, InFlight, Suspended, Live
    <3>5. CASE l.op = "remove"
      <4>1. row \in Contracting /\ row.state = "deleted"
        BY <3>2, <3>5 DEF Saved, Contracting
      <4> HIDE DEF row
      <4>2. Books' = Books + contracting[c].quantity /\ Live' = Live \ {c}
        BY <2>1, <3>2, <4>1, ContractingDeleted
      <4>3. l.quantity = 0 /\ l.quantity # NoAmount
        BY <3>1, <3>5, AmountAssumption DEF TargetRead
      <4>4. Books' = Last'
        BY <1>a, <2>3, <3>1, <3>2, <3>3, <4>2, <4>3
      <4>5. \A x \in Live' : HasRow(x)'
        BY <2>1, <2>2, <3>2, <3>4, <4>2 DEF HasRow, TypeOK, Live
      <4> QED
        BY <2>1, <2>2, <3>1, <4>4, <4>5
    <3>6. CASE l.op = "update"
      <4>0. l.to = today /\ l.to \in Days
        BY <3>1, <3>2, <3>6 DEF TargetRead, Local
      <4>1. /\ row \in Contracting /\ row.state = "live" /\ row.day = today
            /\ row.quantity = IF l.quantity = NoAmount THEN contracting[c].quantity ELSE l.quantity
        BY <3>2, <3>6, <4>0 DEF Saved, Contracting, Local
      <4>2. row.quantity \in Nat
        BY <4>1 DEF Contracting
      <4> HIDE DEF row
      <4>3. Books' = Books + contracting[c].quantity - row.quantity /\ Live' = Live
        BY <2>1, <3>2, <4>1, ContractingChanged
      <4>4. Books' = Last'
        BY <1>a, <2>3, <3>1, <3>2, <3>3, <4>1, <4>2, <4>3
      <4>5. \A x \in Live' : contracting'[x].day \in Rows
        BY <2>1, <3>2, <3>3, <3>4, <4>1, <4>3 DEF TypeOK, Live
      <4> QED
        BY <2>1, <2>2, <3>1, <4>4, <4>5 DEF HasRow
    <3> QED
      BY <3>1, <3>5, <3>6 DEF TargetRead
  <2> QED
    BY <2>1, <2>4, OneCall DEF Suspended
<1>4. CASE Abort(r)
  BY <1>4 DEF Abort, RegularInv
<1> QED
  BY <1>1, <1>2, <1>3, <1>4

\* A new day begins between two calls.
LEMMA RegularDay ==
    ASSUME TypeOK, RegularInv, NextDay
    PROVE  RegularInv'
<1>1. /\ UNCHANGED tables /\ pc' = pc /\ loc' = loc /\ today' = today + 1
      /\ regular' => regular /\ InFlight = {}
  BY DEF NextDay, Regular
<1>2. Books' = Books /\ Last' = Last /\ Live' = Live /\ Rows' = Rows /\ contracting' = contracting
  BY <1>1, TablesStay DEF tables
<1>3. InFlight' = InFlight
  BY <1>1 DEF InFlight
<1>4. ASSUME NEW d \in Rows, d <= today PROVE d <= today'
  BY <1>1, <1>4 DEF Rows, Days, TypeOK
<1> QED
  BY <1>1, <1>2, <1>3, <1>4 DEF RegularInv, HasRow

\* A step that changes nothing.
LEMMA RegularStutter ==
    ASSUME RegularInv, UNCHANGED vars
    PROVE  RegularInv'
<1>1. /\ UNCHANGED tables /\ pc' = pc /\ loc' = loc /\ today' = today /\ regular' = regular
      /\ imported' = imported
  BY DEF vars, tables
<1>2. Books' = Books /\ Last' = Last /\ Live' = Live /\ Rows' = Rows /\ contracting' = contracting
  BY <1>1, TablesStay DEF tables
<1>3. InFlight' = InFlight
  BY <1>1 DEF InFlight
<1> QED
  BY <1>1, <1>2, <1>3 DEF RegularInv, HasRow, ServingInv, TargetRead

-----------------------------------------------------------------------------
(* No remain falls below zero without an import below zero.                *)

\* Importations are never changed.
LEMMA ReturnsStay ==
    ASSUME TypeOK, \A x \in Requests : RequestInv(x), [Next]_vars, NoReturns'
    PROVE  NoReturns
<1>1. ASSUME NEW r \in Requests, NEW q \in Imports, ImportMaterial(r, q)
      PROVE  NoReturns
  <2>1. ~imported[r].made
    BY <1>1 DEF ImportMaterial, Starts, RequestInv
  <2>2. \A i \in Requests \ {r} : imported'[i] = imported[i]
    BY <1>1 DEF ImportMaterial, TypeOK
  <2> QED
    BY <2>1, <2>2 DEF NoReturns, Importations
<1>2. ASSUME ~\E r \in Requests, q \in Imports : ImportMaterial(r, q)
      PROVE  imported' = imported
  <2>1. ASSUME NEW r \in Requests, Call(r) PROVE imported' = imported
    BY <1>2, <2>1 DEF Call, CreateContracting, UpdateContracting, RemoveContracting, Record, Reset, tables
  <2>2. ASSUME NEW r \in Requests, Continue(r) \/ Abort(r) PROVE imported' = imported
    BY <2>2 DEF Continue, ReadLastRemain, InsertContracting, ReadLastRow, ReadCurrent, SaveContracting,
       ReadYesterday, ReadImports, ReadContracted, FindRow, StoreRemain, Abort, tables
  <2> QED
    BY <2>1, <2>2 DEF Next, NextDay, vars, tables
<1> QED
  BY <1>1, <1>2 DEF NoReturns, Importations

\* A step of r that writes no remain and has worked out none below zero.
LEMMA BackedBy ==
    ASSUME BackedInv, NEW r \in Requests, Others(r), remain' = remain, NoReturns' => NoReturns,
           NoReturns => (pc'[r] \in {"insert", "find", "store"} => loc'[r].value >= 0)
    PROVE  BackedInv'
<1>1. Rows' = Rows
  BY DEF Rows
<1> QED
  BY <1>1 DEF BackedInv, Others

LEMMA BackedStep ==
    ASSUME TypeOK, \A x \in Requests : RequestInv(x), BackedInv, [Next]_vars
    PROVE  BackedInv'
<1>a. NoReturns' => NoReturns
  BY ReturnsStay
<1>b. \A r \in Requests : loc[r] \in Local
  BY DEF TypeOK
<1>1. ASSUME NEW r \in Requests, Others(r), Call(r) PROVE BackedInv'
  <2>1. ASSUME NEW c \in Requests, Record(r, c) PROVE BackedInv'
    <3>1. PICK left \in 0..contracting[c].quantity :
            loc' = [loc EXCEPT ![r] = [loc[r] EXCEPT !.op = "record", !.day = contracting[c].day, !.value = left]]
      BY <2>1 DEF Record
    <3>2. contracting[c].quantity \in Nat
      BY DEF TypeOK, Contracting
    <3>3. left >= 0
      BY <3>2
    <3>4. loc'[r].value = left
      BY <1>b, <3>1 DEF TypeOK, Local
    <3>5. remain' = remain
      BY <2>1 DEF Record, tables
    <3> QED
      BY <1>1, <1>a, <3>3, <3>4, <3>5, BackedBy
  <2>2. ASSUME ~\E c \in Requests : Record(r, c)
        PROVE  remain' = remain /\ pc'[r] \notin {"insert", "find", "store"}
    BY <1>1, <2>2 DEF Call, CreateContracting, ImportMaterial, UpdateContracting, RemoveContracting, Reset,
       Goto, TypeOK, tables
  <2> QED
    BY <1>1, <1>a, <2>1, <2>2, BackedBy
<1>2. ASSUME NEW r \in Requests, Others(r), ReadLastRemain(r) PROVE BackedInv'
  <2>1. remain' = remain /\ pc[r] = "last" /\ pc'[r] \in {"insert", "rejected"}
    BY <1>2 DEF ReadLastRemain, Goto, TypeOK, tables
  <2>2. pc'[r] = "insert" => /\ Rows # {} /\ loc[r].quantity <= remain[LastRow]
                             /\ loc'[r].value = remain[LastRow] - loc[r].quantity
    BY <1>2, <1>b DEF ReadLastRemain, Sufficient, Goto, TypeOK, Local
  <2>3. loc[r].quantity \in Nat
    BY <2>1 DEF RequestInv
  <2>4. pc'[r] = "insert" => loc'[r].value >= 0
    BY <2>2, <2>3, LastRowIsLast
  <2> QED
    BY <1>2, <1>a, <2>1, <2>4, BackedBy
<1>3. ASSUME NEW r \in Requests, Others(r), ReadLastRow(r) PROVE BackedInv'
  <2>1. remain' = remain /\ imported[r].made
    BY <1>3 DEF ReadLastRow, RequestInv, tables
  <2>2. loc'[r].value = IF Rows # {} THEN remain[LastRow] + imported[r].quantity ELSE imported[r].quantity
    BY <1>3, <1>b DEF ReadLastRow, TypeOK, Local
  <2>3. imported[r].quantity \in Int
    BY DEF TypeOK, Importation
  <2>4. NoReturns => imported[r].quantity >= 0 /\ (Rows # {} => remain[LastRow] >= 0)
    BY <2>1, LastRowIsLast DEF NoReturns, Importations, BackedInv
  <2>5. NoReturns => loc'[r].value >= 0
    BY <2>2, <2>3, <2>4, LastRowIsLast
  <2> QED
    BY <1>3, <1>a, <2>1, <2>5, BackedBy
<1>4. ASSUME NEW r \in Requests, Others(r), ReadCurrent(r) PROVE BackedInv'
  <2> DEFINE l == loc[r]
             n == OldRemain(loc[r]) - loc[r].quantity
  <2>1. remain' = remain /\ pc[r] = "current"
    BY <1>4 DEF ReadCurrent, tables
  <2>2. \/ pc'[r] \in {"save", "rejected"}
        \/ loc'[r].value = n /\ (l.op = "update" => l.quantity <= OldRemain(l))
    <3>1. \/ Goto(r, "save")
          \/ Goto(r, "rejected")
          \/ /\ ~(l.op = "update" /\ ~(l.quantity <= OldRemain(l)))
             /\ loc' = [loc EXCEPT ![r] = [l EXCEPT !.row = (remain[l.day] # NoRow), !.value = n]]
      BY <1>4, Zenon DEF ReadCurrent, Sufficient
    <3>2. pc'[r] \in {"save", "rejected"} \/ ~(l.op = "update" /\ ~(l.quantity <= OldRemain(l)))
      BY <3>1 DEF Goto, TypeOK
    <3>3. pc'[r] \in {"save", "rejected"} \/ loc'[r] = [l EXCEPT !.row = (remain[l.day] # NoRow), !.value = n]
      BY <3>1 DEF Goto, TypeOK
    <3> HIDE DEF n
    <3>4. pc'[r] \in {"save", "rejected"} \/ loc'[r].value = n
      BY <1>b, <3>3 DEF Local
    <3> QED
      BY <3>2, <3>4
  <2>3. /\ l.quantity \in Nat /\ l.taken \in Nat /\ l.day \in Days
        /\ l.op = "update" \/ (l.op = "remove" /\ l.quantity = 0)
    BY <1>b, <2>1 DEF RequestInv, Local
  <2>4. OldRemain(l) \in Int
    BY <2>3 DEF OldRemain, TypeOK
  <2>5. NoReturns => OldRemain(l) >= 0
    BY <2>3 DEF OldRemain, BackedInv, Rows, TypeOK
  <2>6. NoReturns => pc'[r] \in {"save", "rejected"} \/ loc'[r].value >= 0
    BY <2>2, <2>3, <2>4, <2>5
  <2> QED
    BY <1>4, <1>a, <2>1, <2>6, BackedBy
<1>5. ASSUME NEW r \in Requests, Others(r), ReadContracted(r) PROVE BackedInv'
  <2> DEFINE taken == QuantityTaken(LiveOn(loc[r].day))
  <2>1. LiveOn(loc[r].day) \in SUBSET Requests
    BY DEF LiveOn, Live
  <2>2. taken \in Nat /\ loc[r].base \in Int
    BY <1>b, <2>1, SumTypes DEF Local
  <2>3. remain' = remain /\ loc'[r].value = IF taken > loc[r].base THEN 0 ELSE loc[r].base - taken
    BY <1>5, <1>b DEF ReadContracted, TypeOK, Local, tables
  <2> HIDE DEF taken
  <2>4. loc'[r].value >= 0
    BY <2>2, <2>3
  <2> QED
    BY <1>5, <1>a, <2>3, <2>4, BackedBy
<1>6. ASSUME NEW r \in Requests, Others(r), InsertContracting(r) \/ FindRow(r) PROVE BackedInv'
  <2>1. remain' = remain /\ pc[r] \in {"insert", "find"} /\ loc'[r].value = loc[r].value
    BY <1>6, <1>b DEF InsertContracting, FindRow, TypeOK, Local, tables
  <2> QED
    BY <1>6, <1>a, <2>1, BackedBy DEF BackedInv
<1>7. ASSUME NEW r \in Requests, Others(r), StoreRemain(r) PROVE BackedInv'
  <2>1. /\ pc[r] = "store" /\ pc'[r] \notin {"insert", "find", "store"}
        /\ remain' = remain \/ remain' = [remain EXCEPT ![loc[r].day] = loc[r].value]
    BY <1>7 DEF StoreRemain, AfterStore, Goto, TypeOK
  <2>2. \A d \in Days : remain'[d] = remain[d] \/ remain'[d] = loc[r].value
    BY <2>1 DEF TypeOK
  <2>3. loc' = loc /\ Rows' \subseteq Days /\ (NoReturns => loc[r].value >= 0)
    BY <1>7, <2>1 DEF StoreRemain, Rows, BackedInv
  <2>4. ASSUME NoReturns, NEW d \in Rows' PROVE remain'[d] >= 0
    BY <2>2, <2>3, <2>4 DEF BackedInv, Rows
  <2> QED
    BY <1>7, <1>a, <2>1, <2>3, <2>4 DEF BackedInv, Others
<1>8. ASSUME NEW r \in Requests, Others(r),
             SaveContracting(r) \/ ReadYesterday(r) \/ ReadImports(r) \/ Abort(r)
      PROVE  BackedInv'
  <2>1. remain' = remain /\ pc'[r] \notin {"insert", "find", "store"}
    BY <1>8 DEF SaveContracting, ReadYesterday, ReadImports, Abort, Goto, TypeOK, tables
  <2> QED
    BY <1>8, <1>a, <2>1, BackedBy
<1>9. CASE NextDay \/ UNCHANGED vars
  <2>1. remain' = remain /\ pc' = pc /\ loc' = loc
    BY <1>9 DEF NextDay, vars, tables
  <2> QED
    BY <1>a, <2>1 DEF BackedInv, Rows
<1> QED
  BY <1>1, <1>2, <1>3, <1>4, <1>5, <1>6, <1>7, <1>8, <1>9, StepEffect DEF Next, Continue

-----------------------------------------------------------------------------
(* The theorems.                                                           *)

LEMMA InitInvariant == Init => IInv
<1> SUFFICES ASSUME Init PROVE IInv
  OBVIOUS
<1>1. TypeOK
  <2>1. 1 \in Days /\ 0 \in 0..LastDay
    BY DayAssumption DEF Days
  <2> QED
    BY <2>1 DEF Init, TypeOK, Contracting, Importation, Labels, Local, Suspended
<1>2. \A r \in Requests : RequestInv(r)
  BY DEF Init, RequestInv
<1>3. RegularInv
  <2>1. Rows = {} /\ Live = {} /\ InFlight = {} /\ {i \in Requests : imported[i].made} = {}
    BY DEF Init, Rows, Live, InFlight, Suspended
  <2>2. Imported = 0 /\ Taken = 0
    BY <2>1, TotalOfNone DEF Imported, Importations, Taken, QuantityImported, QuantityTaken
  <2>3. Books = Last
    BY <2>1, <2>2 DEF Books, Last
  <2> QED
    BY <2>1, <2>3 DEF RegularInv
<1>4. BackedInv
  BY DEF Init, BackedInv, Rows
<1> QED
  BY <1>1, <1>2, <1>3, <1>4 DEF IInv

LEMMA Inductive == IInv /\ [Next]_vars => IInv'
<1> SUFFICES ASSUME IInv, [Next]_vars PROVE IInv'
  OBVIOUS
<1>1. TypeOK' /\ \A r \in Requests : RequestInv(r)'
  BY TypeStep, RequestStep DEF IInv
<1>2. ASSUME NEW r \in Requests, Call(r) \/ Continue(r) \/ Abort(r)
      PROVE  RegularInv'
  <2>1. Others(r)
    BY <1>2, StepEffect DEF IInv
  <2> QED
    BY <1>1, <1>2, <2>1, RegularCall, RegularRead, RegularWrite DEF IInv, Continue
<1>3. RegularInv'
  BY <1>2, RegularDay, RegularStutter DEF IInv, Next
<1>4. BackedInv'
  BY BackedStep DEF IInv
<1> QED
  BY <1>1, <1>3, <1>4 DEF IInv

\* The inductive invariant holds in every state.
THEOREM Invariant == Spec => []IInv
  BY InitInvariant, Inductive, PTL DEF Spec

\* However calls overlap and fail, the tables and the requests keep to their
\* types, imports of whatever sign included: no contracting is negative, nor
\* does it lose its quantity in an update that leaves it out.
THEOREM TypeCorrect == Spec => []TypeOK
<1>1. IInv => TypeOK
  BY DEF IInv
<1> QED
  BY <1>1, Invariant, PTL

\* A remain below zero goes back to an import below zero, for any quantities,
\* any number of days and of calls that overlap and fail (create, update,
\* remove, importMaterial, resetRemainForDate).
THEOREM RemainsAreBacked == Spec => []RemainIsBacked
<1>1. IInv => RemainIsBacked
  <2> SUFFICES ASSUME IInv, NEW d \in Rows, remain[d] < 0
               PROVE  \E i \in Importations : imported[i].quantity < 0
    BY DEF RemainIsBacked
  <2>1. remain[d] \in Int
    BY DEF IInv, TypeOK, Rows
  <2>2. ~NoReturns
    BY <2>1 DEF IInv, BackedInv
  <2>3. PICK i \in Importations : ~(imported[i].quantity >= 0)
    BY <2>2 DEF NoReturns
  <2>4. imported[i].quantity \in Int
    BY DEF IInv, TypeOK, Importations, Importation
  <2> QED
    BY <2>3, <2>4
<1> QED
  BY <1>1, Invariant, PTL

\* Between regular calls the last remain is what was imported less what was
\* taken out, for any number of calls and days (create, update, remove,
\* importMaterial).
THEOREM BalanceAlwaysAgrees == Spec => []BalanceAgrees
<1>1. IInv => BalanceAgrees
  BY DEF IInv, RegularInv, BalanceAgrees, Books, Last, LastRow
<1> QED
  BY <1>1, Invariant, PTL
=============================================================================
