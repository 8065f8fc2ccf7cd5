------------------------------ MODULE Inventory ------------------------------
(***************************************************************************)
(* The stock of one material (Backend/src/contracting/                     *)
(* contracting.service.ts, material/material.service.ts): imports from     *)
(* suppliers, contractings (what staff take out for a selling day) and the *)
(* daily remain, a running balance with one row per day.                   *)
(*                                                                         *)
(* No handler opens a transaction: the remain is read by one await and     *)
(* written back by a later one.  As in OrderPayment a request is a process *)
(* whose steps are its awaits.  Every handler selects its rows by          *)
(* materialId, so that other materials do not matter.                      *)
(*                                                                         *)
(* Quantities are counted in a unit that is small enough for every one to  *)
(* be a whole number: contractings are integers, imports and remains may   *)
(* be fractions.  An import may be negative as well.                       *)
(*                                                                         *)
(* Stock-taking by hand (material-remain.service.ts) is left out.          *)
(***************************************************************************)
EXTENDS Integers, FiniteSets, FiniteSetsExt, Sums

CONSTANTS
    Requests,      \* HTTP requests, which also name the rows they create
    Amounts,       \* quantities of contractings in requests
    Imports,       \* quantities of importations in requests
    LastDay,       \* bound: days are 1..LastDay
    MaxInFlight,   \* bound: requests being served at the same time
    MayFail,       \* TRUE if an await may reject
    Ops,           \* handlers that are called
    NoRow, NoAmount, NoRequest

OpNames == {"create", "import", "update", "remove", "reset", "record"}

ASSUME RequestAssumption == IsFiniteSet(Requests)

ASSUME AmountAssumption == Amounts \subseteq Nat /\ NoAmount \notin Int

\* ImportMaterialDto asks for a number, of whatever sign.
ASSUME ImportAssumption == Imports \subseteq Int

ASSUME DayAssumption == LastDay \in Nat \ {0}

ASSUME NullAssumption == NoRow \notin Int /\ NoRequest \notin Requests

VARIABLES
    today,         \* the current date
    remain,        \* table material_remains: the row of each day
    contracting,   \* table contractings: the row that each request created
    imported,      \* table material_importations: the row that each request created
    pc,            \* the await that each request is suspended on
    loc,           \* local variables of each request
    regular        \* history: only complete calls about today so far, one at a time

vars == <<today, remain, contracting, imported, pc, loc, regular>>

-----------------------------------------------------------------------------
(* Types.                                                                  *)

Days == 1..LastDay

Contracting == [state : {"none", "live", "deleted"}, day : Days, quantity : Nat]

Importation == [made : BOOLEAN, day : Days, quantity : Int]

\* The awaits, by the handler that they belong to.
Suspended == {"last", "insert",                       \* create
              "lastRow",                              \* importMaterial
              "current", "save",                      \* update, remove
              "yesterday", "imports", "contracted",   \* resetRemainForDate
              "find", "store"}                        \* the row of a day

Labels == {"idle", "done", "rejected", "failed"} \cup Suspended

Local == [op : OpNames \cup {"none"},
          target : Requests \cup {NoRequest},         \* the contracting that is changed
          day : Days, quantity : Nat \cup {NoAmount},
          taken : Nat,                                \* its quantity as read
          to : Days,                                  \* the day it is moved to
          base : Int, since : 0..LastDay,             \* resetRemainForDate: the old remain
          row : BOOLEAN, value : Int]                 \* the remain to be written

TypeOK ==
    /\ today \in Days
    /\ remain \in [Days -> Int \cup {NoRow}]
    /\ contracting \in [Requests -> Contracting]
    /\ imported \in [Requests -> Importation]
    /\ pc \in [Requests -> Labels]
    /\ loc \in [Requests -> Local]
    /\ regular \in BOOLEAN

Init ==
    /\ today = 1
    /\ remain = [d \in Days |-> NoRow]
    /\ contracting = [r \in Requests |-> [state |-> "none", day |-> 1, quantity |-> 0]]
    /\ imported = [r \in Requests |-> [made |-> FALSE, day |-> 1, quantity |-> 0]]
    /\ pc = [r \in Requests |-> "idle"]
    /\ loc = [r \in Requests |->
                [op |-> "none", target |-> NoRequest, day |-> 1, quantity |-> 0, taken |-> 0, to |-> 1,
                 base |-> 0, since |-> 0, row |-> FALSE, value |-> 0]]
    /\ regular = TRUE

-----------------------------------------------------------------------------
(* Helpers.                                                                *)

InFlight == {r \in Requests : pc[r] \in Suspended}

Live == {c \in Requests : contracting[c].state = "live"}

LiveOn(d) == {c \in Live : contracting[c].day = d}

\* The days that have a row, and those before d.
Rows == {d \in Days : remain[d] # NoRow}

RowsBefore(d) == {e \in Rows : e < d}

\* A mutant of LastRow: the order of the rows is ascending.
FirstRow == Min(Rows)

\* The most recent row, regardless of date.
LastRow == Max(Rows)

\* What some importations and what some contractings add up to.
QuantityImported(S) == Total([i \in Requests |-> imported[i].quantity], S)

QuantityTaken(S) == Total([c \in Requests |-> contracting[c].quantity], S)

Goto(r, label) == pc' = [pc EXCEPT ![r] = label]

\* A call of handler op begins.
Starts(r, op) == pc[r] = "idle" /\ op \in Ops /\ Cardinality(InFlight) < MaxInFlight

\* Calls are regular that are about today and begin when no other is served.
Regular(b) == regular' = (regular /\ b /\ InFlight = {})

tables == <<remain, contracting, imported>>

-----------------------------------------------------------------------------
(* The row of a day.                                                       *)

\* create, resetRemainForDate and the recording look for the row once more ...
FindRow(r) ==
    /\ pc[r] = "find"
    /\ loc' = [loc EXCEPT ![r].row = remain[loc[r].day] # NoRow]
    /\ Goto(r, "store")
    /\ UNCHANGED <<tables, today, regular>>

\* Where a handler goes on after the remain is written.
AfterStore(op) == IF op \in {"update", "remove"} THEN "save" ELSE "done"

\* ... it updates the row, or creates it, which a unique key refuses if there
\* is one by now.
StoreRemain(r) ==
    LET l == loc[r] IN
    /\ pc[r] = "store"
    /\ IF l.row \/ remain[l.day] = NoRow
       THEN /\ remain' = [remain EXCEPT ![l.day] = l.value]
            /\ Goto(r, AfterStore(l.op))
       ELSE /\ remain' = remain
            /\ Goto(r, "failed")
    /\ UNCHANGED <<contracting, imported, loc, today, regular>>

-----------------------------------------------------------------------------
(* create.                                                                 *)

\* One contracting a day.
DayIsFree(d) == LiveOn(d) = {}

CreateContracting(r, d, q) ==
    /\ Starts(r, "create")
    /\ DayIsFree(d)
    /\ loc' = [loc EXCEPT ![r] = [@ EXCEPT !.op = "create", !.day = d, !.quantity = q]]
    /\ Goto(r, "last")
    /\ Regular(d = today)
    /\ UNCHANGED <<tables, today>>

\* A mutant of Sufficient: the quantity is not validated.
AlwaysSufficient(q, n) == TRUE

\* The quantity must not exceed the last remain, of whatever day.
Sufficient(q, n) == q <= n

ReadLastRemain(r) ==
    LET q == loc[r].quantity IN
    /\ pc[r] = "last"
    /\ IF Rows # {} /\ Sufficient(q, remain[LastRow])
       THEN /\ loc' = [loc EXCEPT ![r].value = remain[LastRow] - q]
            /\ Goto(r, "insert")
       ELSE loc' = loc /\ Goto(r, "rejected")
    /\ UNCHANGED <<tables, today, regular>>

InsertContracting(r) ==
    /\ pc[r] = "insert"
    /\ contracting' = [contracting EXCEPT ![r] =
                         [state |-> "live", day |-> loc[r].day, quantity |-> loc[r].quantity]]
    /\ Goto(r, "find")
    /\ UNCHANGED <<remain, imported, loc, today, regular>>

-----------------------------------------------------------------------------
(* importMaterial.                                                         *)

ImportMaterial(r, q) ==
    /\ Starts(r, "import")
    /\ imported' = [imported EXCEPT ![r] = [made |-> TRUE, day |-> today, quantity |-> q]]
    /\ loc' = [loc EXCEPT ![r].op = "import"]
    /\ Goto(r, "lastRow")
    /\ Regular(TRUE)
    /\ UNCHANGED <<remain, contracting, today>>

\* The last remain grows; without any, today gets the first.
ReadLastRow(r) ==
    LET q == imported[r].quantity IN
    /\ pc[r] = "lastRow"
    /\ loc' = [loc EXCEPT ![r] =
                 IF Rows # {}
                 THEN [@ EXCEPT !.day = LastRow, !.row = TRUE, !.value = remain[LastRow] + q]
                 ELSE [@ EXCEPT !.day = today, !.row = FALSE, !.value = q]]
    /\ Goto(r, "store")
    /\ UNCHANGED <<tables, today, regular>>

-----------------------------------------------------------------------------
(* update and remove.                                                      *)

\* The contracting is read; a call without a quantity leaves the remain alone.
UpdateContracting(r, c, q, d) ==
    /\ Starts(r, "update")
    /\ c \in Live
    /\ loc' = [loc EXCEPT ![r] = [@ EXCEPT !.op = "update", !.target = c, !.quantity = q,
                 !.day = contracting[c].day, !.to = d, !.taken = contracting[c].quantity]]
    /\ Goto(r, IF q = NoAmount THEN "save" ELSE "current")
    /\ Regular(contracting[c].day = today /\ d = today)
    /\ UNCHANGED <<tables, today>>

RemoveContracting(r, c) ==
    /\ Starts(r, "remove")
    /\ c \in Live
    /\ loc' = [loc EXCEPT ![r] = [@ EXCEPT !.op = "remove", !.target = c, !.quantity = 0,
                 !.day = contracting[c].day, !.taken = contracting[c].quantity]]
    /\ Goto(r, "current")
    /\ Regular(contracting[c].day = today)
    /\ UNCHANGED <<tables, today>>

\* What the remain was before the contracting.  A missing row counts as zero.
OldRemain(l) == (IF remain[l.day] = NoRow THEN 0 ELSE remain[l.day]) + l.taken

\* The remain of the contracting's own day is read.  update must not make it
\* negative and may write a missing row, remove does not.
ReadCurrent(r) ==
    LET l == loc[r]
        row == remain[l.day] # NoRow
    IN
    /\ pc[r] = "current"
    /\ CASE l.op = "remove" /\ ~row -> loc' = loc /\ Goto(r, "save")
         [] l.op = "update" /\ ~Sufficient(l.quantity, OldRemain(l)) ->
              loc' = loc /\ Goto(r, "rejected")
         [] OTHER -> /\ loc' = [loc EXCEPT ![r] = [@ EXCEPT !.row = row,
                                  !.value = OldRemain(l) - l.quantity]]
                     /\ Goto(r, "store")
    /\ UNCHANGED <<tables, today, regular>>

\* A mutant of Saved: a quantity that is left out is written, too.
SavedAsSent(c, l) ==
    IF l.op = "remove" THEN [c EXCEPT !.state = "deleted"]
    ELSE [c EXCEPT !.day = l.to, !.quantity = l.quantity]

\* The contracting itself is written last.
Saved(c, l) ==
    IF l.op = "remove" THEN [c EXCEPT !.state = "deleted"]
    ELSE [c EXCEPT !.day = l.to, !.quantity = IF l.quantity = NoAmount THEN @ ELSE l.quantity]

SaveContracting(r) ==
    LET c == loc[r].target IN
    /\ pc[r] = "save"
    /\ IF c \in Live
       THEN /\ contracting' = [contracting EXCEPT ![c] = Saved(@, loc[r])]
            /\ Goto(r, "done")
       ELSE contracting' = contracting /\ Goto(r, "failed")
    /\ UNCHANGED <<remain, imported, loc, today, regular>>

-----------------------------------------------------------------------------
(* resetRemainForDate and calculateRemaining with autoRecord.              *)

Reset(r, d) ==
    /\ Starts(r, "reset")
    /\ LiveOn(d) # {}
    /\ loc' = [loc EXCEPT ![r] = [@ EXCEPT !.op = "reset", !.day = d]]
    /\ Goto(r, "yesterday")
    /\ Regular(FALSE)
    /\ UNCHANGED <<tables, today>>

ReadYesterday(r) ==
    LET rows == RowsBefore(loc[r].day) IN
    /\ pc[r] = "yesterday"
    /\ loc' = [loc EXCEPT ![r] =
                 IF rows # {} THEN [@ EXCEPT !.base = remain[Max(rows)], !.since = Max(rows)]
                              ELSE [@ EXCEPT !.base = 0, !.since = 0]]
    /\ Goto(r, "imports")
    /\ UNCHANGED <<tables, today, regular>>

ReadImports(r) ==
    LET new == {i \in Requests : /\ imported[i].made
                                 /\ loc[r].since <= imported[i].day
                                 /\ imported[i].day < loc[r].day}
    IN
    /\ pc[r] = "imports"
    /\ loc' = [loc EXCEPT ![r].base = @ + QuantityImported(new)]
    /\ Goto(r, "contracted")
    /\ UNCHANGED <<tables, today, regular>>

ReadContracted(r) ==
    LET taken == QuantityTaken(LiveOn(loc[r].day)) IN
    /\ pc[r] = "contracted"
    /\ loc' = [loc EXCEPT ![r].value = IF taken > loc[r].base THEN 0 ELSE loc[r].base - taken]
    /\ Goto(r, "find")
    /\ UNCHANGED <<tables, today, regular>>

\* What is left of a contracting, by the orders of the day, becomes the remain.
\* Each turn of the loop over the contractings of a day is a call of its own.
Record(r, c) ==
    /\ Starts(r, "record")
    /\ c \in Live
    /\ \E left \in 0..contracting[c].quantity :
         loc' = [loc EXCEPT ![r] =
                   [@ EXCEPT !.op = "record", !.day = contracting[c].day, !.value = left]]
    /\ Goto(r, "find")
    /\ Regular(FALSE)
    /\ UNCHANGED <<tables, today>>

-----------------------------------------------------------------------------

NextDay ==
    /\ today < LastDay
    /\ today' = today + 1
    /\ Regular(TRUE)
    /\ UNCHANGED <<tables, pc, loc>>

\* The await that r is suspended on rejects.
Abort(r) ==
    /\ MayFail
    /\ pc[r] \in Suspended
    /\ Goto(r, "failed")
    /\ regular' = FALSE
    /\ UNCHANGED <<tables, loc, today>>

Continue(r) ==
    \/ ReadLastRemain(r) \/ InsertContracting(r)
    \/ ReadLastRow(r)
    \/ ReadCurrent(r) \/ SaveContracting(r)
    \/ ReadYesterday(r) \/ ReadImports(r) \/ ReadContracted(r)
    \/ FindRow(r) \/ StoreRemain(r)

Call(r) ==
    \/ \E d \in Days, q \in Amounts : CreateContracting(r, d, q)
    \/ \E q \in Imports : ImportMaterial(r, q)
    \/ \E c \in Requests, q \in Amounts \cup {NoAmount}, d \in Days : UpdateContracting(r, c, q, d)
    \/ \E c \in Requests : RemoveContracting(r, c) \/ Record(r, c)
    \/ \E d \in Days : Reset(r, d)

Next == NextDay \/ \E r \in Requests : Call(r) \/ Continue(r) \/ Abort(r)

Spec == Init /\ [][Next]_vars

-----------------------------------------------------------------------------
(* Properties.                                                             *)

Importations == {i \in Requests : imported[i].made}

Imported == QuantityImported(Importations)

Taken == QuantityTaken(Live)

\* The running balance agrees with the books: between regular calls the last
\* remain is what was imported less what was taken out (create, update, remove,
\* importMaterial).
BalanceAgrees ==
    regular /\ InFlight = {} =>
        Imported - Taken = IF Rows = {} THEN 0 ELSE remain[Max(Rows)]

\* Taking out never makes a remain negative, on whatever day: one below zero
\* goes back to an import below zero, although the remain is read by one await
\* and written by a later one (create, update, remove, resetRemainForDate).
RemainIsBacked ==
    (\E d \in Rows : remain[d] < 0) => \E i \in Importations : imported[i].quantity < 0

=============================================================================
