-------------------------- MODULE OrderBoardProofs --------------------------
(***************************************************************************)
(* Proofs about OrderBoard, for any number of orders, requests, screens    *)
(* and fetches: what nobody missed and nothing overtook is right, on the   *)
(* kitchen lists and on the badges.                                        *)
(***************************************************************************)
EXTENDS OrderBoard, SumProofs, SequenceTheorems, FiniteSetTheorems, TLAPS

-----------------------------------------------------------------------------
(* The inductive invariant: what the lists hear.                           *)

\* No notice of a change is still to be sent or taken by list s.
HeardAll(s) ==
    /\ \A r \in Requests : pc[r] \notin {"rest", "count", "send"}
    /\ ~silent
    /\ notices[s] = 0

\* Answers that were overtaken were asked for before all others.
OvertakenFirst ==
    \A s \in Lists : \A i, j \in DOMAIN fetches[s] :
        i < j /\ fetches[s][j].overtaken => fetches[s][i].overtaken

\* The answer that was asked for last is still to come and will be right, or
\* has come.
ListComes(s) ==
    LET q == fetches[s] IN
    IF q # <<>> /\ ~q[Len(q)].overtaken
    THEN q[Len(q)].answered => q[Len(q)].view = OpenOrders
    ELSE s \in late \/ shown[s] = OpenOrders

ListFollows == \A s \in (Lists \cap open) \ lost : HeardAll(s) => ListComes(s)

-----------------------------------------------------------------------------
(* The inductive invariant: what the badges hear.                          *)

\* No request that has changed an order is still to count.
AllCounted == \A r \in Requests : pc[r] \notin {"rest", "count"}

\* Those that have counted and not sent are waiting to send, each once.
CountedWait ==
    /\ \A i \in DOMAIN counted : pc[counted[i]] = "send"
    /\ \A i, j \in DOMAIN counted : counted[i] = counted[j] => i = j

\* Whoever counted after a fresh one is fresh, and unless something went
\* unannounced all are.
FreshLast ==
    /\ \A i, j \in DOMAIN counted : i < j /\ loc[counted[i]].fresh => loc[counted[j]].fresh
    /\ ~silent => \A i \in DOMAIN counted : loc[counted[i]].fresh
    /\ \A r \in Requests : pc[r] = "send" /\ loc[r].fresh =>
           ~silent \/ \E i \in DOMAIN counted : counted[i] = r

\* The last count is right when no request is still to count.
LastCountIsRight ==
    AllCounted /\ counted # <<>> /\ loc[counted[Len(counted)]].fresh =>
        loc[counted[Len(counted)]].count = OpenCount

\* Of the numbers on their way the last that no other overtook is right.
NewestIsRight(q) ==
    \E i \in DOMAIN q : /\ ~q[i].overtaken /\ q[i].count = OpenCount
                        /\ \A j \in DOMAIN q : j > i => q[j].overtaken

\* What a badge shows, or will show after its first fetch, is right, unless it
\* missed something.
ShownIsRight(b) ==
    \/ b \in late \/ b \in lost \/ badge[b] = OpenCount
    \/ /\ ~initial[b].overtaken
       /\ \/ initial[b].state = "asked"
          \/ initial[b].state = "answered" /\ initial[b].count = OpenCount

\* The badge has the right number, or will get it.
BadgeComes(b) ==
    \/ NewestIsRight(inbox[b])
    \/ ShownIsRight(b) /\ \A i \in DOMAIN inbox[b] : inbox[b][i].overtaken

\* All changes were counted, and all counts sent.
AllSent == AllCounted /\ ~silent /\ counted = <<>>

BadgeFollows == \A b \in Badges \cap open : AllSent => BadgeComes(b)

\* What is written is the status that was asked for, or that there is no order.
WritesAreMeant == \A r \in Requests : pc[r] = "write" => loc[r].to # "new"

\* Nothing is sent to a badge that is not mounted or not connected, and until its
\* first fetch has come or been overtaken it shows nothing.
BadgesBegin ==
    \A b \in Badges :
        /\ b \notin online => inbox[b] = <<>>
        /\ b \notin open =>
               inbox[b] = <<>> /\ ~initial[b].overtaken /\ initial[b].state = "none"
        /\ ~initial[b].overtaken /\ (b \in open => initial[b].state # "none") =>
               badge[b] = NoCount /\ b \notin late

IInv ==
    /\ TypeOK
    /\ WritesAreMeant
    /\ OvertakenFirst
    /\ ListFollows
    /\ CountedWait
    /\ FreshLast
    /\ LastCountIsRight
    /\ BadgeFollows
    /\ BadgesBegin

-----------------------------------------------------------------------------
(* Sequences.                                                              *)

\* What is left when the element at place i is taken out.
LEMMA RemoveAtIs ==
    ASSUME NEW S, NEW q \in Seq(S), NEW i \in 1..Len(q)
    PROVE  /\ RemoveAt(q, i) \in Seq(S)
           /\ Len(RemoveAt(q, i)) = Len(q) - 1
           /\ \A j \in 1..(Len(q) - 1) :
                  RemoveAt(q, i)[j] = IF j < i THEN q[j] ELSE q[j + 1]
<1> DEFINE front == SubSeq(q, 1, i - 1)
           back == SubSeq(q, i + 1, Len(q))
<1>1. Len(q) \in Nat /\ i \in Int /\ i >= 1 /\ i <= Len(q) /\ \A j \in 1..Len(q) : q[j] \in S
  BY LenProperties, ElementOfSeq
<1>2. /\ front \in Seq(S) /\ Len(front) = i - 1
      /\ \A j \in 1..(i - 1) : front[j] = q[j]
  <2>1. \A j \in 1..(i - 1) : q[j] \in S
    BY <1>1
  <2>2. /\ front \in Seq(S) /\ Len(front) = IF 1 <= i - 1 THEN i - 1 - 1 + 1 ELSE 0
        /\ \A j \in 1..(i - 1 - 1 + 1) : front[j] = q[1 + j - 1]
    BY <1>1, <2>1, SubSeqProperties
  <2> QED
    BY <1>1, <2>2
<1>3. /\ back \in Seq(S) /\ Len(back) = Len(q) - i
      /\ \A j \in 1..(Len(q) - i) : back[j] = q[i + j]
  <2>1. \A j \in (i + 1)..Len(q) : q[j] \in S
    BY <1>1
  <2>2. /\ back \in Seq(S)
        /\ Len(back) = IF i + 1 <= Len(q) THEN Len(q) - (i + 1) + 1 ELSE 0
        /\ \A j \in 1..(Len(q) - (i + 1) + 1) : back[j] = q[(i + 1) + j - 1]
    BY <1>1, <2>1, SubSeqProperties
  <2> QED
    BY <1>1, <2>2
<1> HIDE DEF front, back
<1>4. /\ front \o back \in Seq(S)
      /\ Len(front \o back) = Len(front) + Len(back)
      /\ \A j \in 1..(Len(front) + Len(back)) :
             (front \o back)[j] = IF j <= Len(front) THEN front[j] ELSE back[j - Len(front)]
  BY <1>2, <1>3, ConcatProperties
<1>5. RemoveAt(q, i) = front \o back
  BY DEF RemoveAt, front, back
<1>6. ASSUME NEW j \in 1..(Len(q) - 1)
      PROVE  (front \o back)[j] = IF j < i THEN q[j] ELSE q[j + 1]
  <2>1. CASE j < i
    BY <1>1, <1>2, <1>3, <1>4, <2>1
  <2>2. CASE ~(j < i)
    <3>1. j - Len(front) \in 1..(Len(q) - i) /\ ~(j <= Len(front))
      BY <1>1, <1>2, <2>2
    <3>2. (front \o back)[j] = back[j - Len(front)]
      BY <1>1, <1>2, <1>3, <1>4, <3>1
    <3>3. i + (j - Len(front)) = j + 1
      BY <1>1, <1>2
    <3> QED
      BY <1>3, <2>2, <3>1, <3>2, <3>3
  <2> QED
    BY <2>1, <2>2
<1>7. (front \o back) \in Seq(S) /\ Len(front \o back) = Len(q) - 1
  BY <1>1, <1>2, <1>3, <1>4
<1> QED
  BY <1>5, <1>6, <1>7

\* The place of the only occurrence of r.
LEMMA PlaceIs ==
    ASSUME NEW S, NEW q \in Seq(S), NEW r, NEW k \in 1..Len(q), q[k] = r,
           \A j \in 1..Len(q) : q[j] = r => j = k
    PROVE  /\ {j \in 1..Len(q) : q[j] = r} # {}
           /\ Min({j \in 1..Len(q) : q[j] = r}) = k
<1>1. Len(q) \in Nat
  BY LenProperties
<1>2. {j \in 1..Len(q) : q[j] = r} = {k}
  OBVIOUS
<1>3. Min({k}) = k
  BY <1>1 DEF Min
<1> QED
  BY <1>2, <1>3

\* What comes after place k.
LEMMA AfterIs ==
    ASSUME NEW S, NEW q \in Seq(S), NEW k \in 1..Len(q)
    PROVE  LET p == SubSeq(q, 1 + k, Len(q))
           IN  /\ p \in Seq(S) /\ Len(p) = Len(q) - k
               /\ \A j \in 1..(Len(q) - k) : p[j] = q[k + j]
<1> DEFINE p == SubSeq(q, 1 + k, Len(q))
<1>1. Len(q) \in Nat /\ k \in Int /\ k >= 1 /\ k <= Len(q) /\ \A j \in 1..Len(q) : q[j] \in S
  BY LenProperties, ElementOfSeq
<1>2. \A j \in (1 + k)..Len(q) : q[j] \in S
  BY <1>1
<1>3. /\ p \in Seq(S)
      /\ Len(p) = IF 1 + k <= Len(q) THEN Len(q) - (1 + k) + 1 ELSE 0
      /\ \A j \in 1..(Len(q) - (1 + k) + 1) : p[j] = q[(1 + k) + j - 1]
  BY <1>1, <1>2, SubSeqProperties
<1> HIDE DEF p
<1>4. /\ p \in Seq(S) /\ Len(p) = Len(q) - k
      /\ \A j \in 1..(Len(q) - k) : p[j] = q[k + j]
  BY <1>1, <1>3
<1> QED
  BY <1>4 DEF p

\* The order that is to be shown is one of the list.
LEMMA FirstIsThere ==
    ASSUME NEW T \in SUBSET Orders, T # {}
    PROVE  FirstOf(T) \in T
<1>1. IsFiniteSet(Orders) /\ Orders \subseteq Int
  BY BoundAssumption, FS_Interval DEF Orders
<1>2. IsFiniteSet(T) /\ T \in SUBSET Int
  BY <1>1, FS_Subset
<1>3. \E o \in T : \A x \in T : o <= x
  BY <1>2, LeastExists
<1> QED
  BY <1>3 DEF FirstOf

\* Two counts agree when the same orders are open.
LEMMA CountIsBounded == TypeOK => OpenCount \in 0..MaxOrders
<1>1. IsFiniteSet(Orders) /\ Cardinality(Orders) = MaxOrders
  BY BoundAssumption, FS_Interval DEF Orders
<1>2. Cardinality({o \in Orders : IsOpen(o)}) <= Cardinality(Orders)
      /\ IsFiniteSet({o \in Orders : IsOpen(o)})
  BY <1>1, FS_Subset
<1>3. Cardinality({o \in Orders : IsOpen(o)}) \in Nat
  BY <1>2, FS_CardinalityType
<1> QED
  BY <1>1, <1>2, <1>3, BoundAssumption DEF OpenCount

-----------------------------------------------------------------------------
(* Rows.                                                                   *)

\* A request that begins.
LEMMA CallKept ==
    ASSUME NEW row \in Local, NEW o \in Orders, NEW to \in OrderStatus \cup {"new", "deleted"}
    PROVE  LET new == [row EXCEPT !.order = o, !.to = to]
           IN  /\ new \in Local
               /\ new.order = o /\ new.to = to /\ new.list = row.list
               /\ new.others = row.others /\ new.count = row.count /\ new.fresh = row.fresh
BY DEF Local

\* A request that a list makes.
LEMMA ClickKept ==
    ASSUME NEW row \in Local, NEW o \in Orders, NEW to \in OrderStatus \cup {"new", "deleted"},
           NEW s \in Lists, NEW others \in SUBSET Orders
    PROVE  LET new == [row EXCEPT !.order = o, !.to = to, !.list = s, !.others = others]
           IN  /\ new \in Local
               /\ new.order = o /\ new.to = to /\ new.list = s
               /\ new.others = others /\ new.count = row.count /\ new.fresh = row.fresh
BY DEF Local

\* A request that counts, sends, or is no longer waited for.
LEMMA CountKept ==
    ASSUME NEW row \in Local, NEW n \in 0..MaxOrders, NEW fresh \in BOOLEAN
    PROVE  LET new == [row EXCEPT !.count = n, !.fresh = fresh]
           IN  /\ new \in Local
               /\ new.order = row.order /\ new.to = row.to /\ new.list = row.list
               /\ new.others = row.others /\ new.count = n /\ new.fresh = fresh
BY DEF Local

LEMMA RowFields ==
    ASSUME NEW row \in Local
    PROVE  /\ [row EXCEPT !.list = NoList] \in Local
           /\ [row EXCEPT !.list = NoList].count = row.count
           /\ [row EXCEPT !.list = NoList].fresh = row.fresh
           /\ [row EXCEPT !.list = NoList].to = row.to
           /\ [row EXCEPT !.fresh = FALSE] \in Local
           /\ [row EXCEPT !.fresh = FALSE].count = row.count
           /\ [row EXCEPT !.fresh = FALSE].fresh = FALSE
           /\ [row EXCEPT !.fresh = FALSE].to = row.to
           /\ \A o \in Orders : /\ [row EXCEPT !.order = o] \in Local
                                /\ [row EXCEPT !.order = o].count = row.count
                                /\ [row EXCEPT !.order = o].fresh = row.fresh
           /\ row.count \in 0..MaxOrders /\ row.fresh \in BOOLEAN /\ row.others \subseteq Orders
           /\ row.to \in OrderStatus \cup {"new", "deleted"}
BY DEF Local

\* The answer of a fetch.
LEMMA AnswerKept ==
    ASSUME NEW f \in Fetch, NEW v \in Views
    PROVE  LET new == [f EXCEPT !.answered = TRUE, !.view = v]
           IN  new \in Fetch /\ new.answered /\ new.view = v /\ new.overtaken = f.overtaken
BY DEF Fetch

\* A fetch may be overtaken.
LEMMA OvertakenKept ==
    ASSUME NEW f \in Fetch, NEW late_ \in BOOLEAN
    PROVE  LET new == [f EXCEPT !.overtaken = @ \/ late_]
           IN  /\ new \in Fetch /\ new.answered = f.answered /\ new.view = f.view
               /\ new.overtaken = (f.overtaken \/ late_)
<1>1. f.overtaken \in BOOLEAN
  BY DEF Fetch
<1>2. (f.overtaken \/ late_) \in BOOLEAN
  BY <1>1
<1> QED
  BY <1>2 DEF Fetch

-----------------------------------------------------------------------------
(* The fetches of a list.                                                  *)

\* One more is waited for, which is the last and has not been answered.
LEMMA AskIs ==
    ASSUME NEW s \in Lists, NEW auto \in BOOLEAN, NEW r \in Requests \cup {NoRequest},
           fetches \in [Lists -> Seq(Fetch)], Ask(s, auto, r)
    PROVE  /\ fetches' \in [Lists -> Seq(Fetch)]
           /\ \A x \in Lists \ {s} : fetches'[x] = fetches[x]
           /\ Len(fetches'[s]) = Len(fetches[s]) + 1
           /\ \A j \in 1..Len(fetches[s]) : fetches'[s][j] = fetches[s][j]
           /\ ~fetches'[s][Len(fetches'[s])].answered
           /\ ~fetches'[s][Len(fetches'[s])].overtaken
<1> DEFINE f == [answered |-> FALSE, view |-> [o \in Orders |-> "closed"], auto |-> auto,
                 by |-> r, overtaken |-> FALSE]
<1>1. f \in Fetch /\ ~f.answered /\ ~f.overtaken
  <2>1. [o \in Orders |-> "closed"] \in Views
    BY DEF Views
  <2> QED
    BY <2>1 DEF Fetch
<1>2. fetches' = [fetches EXCEPT ![s] = Append(@, f)]
  BY DEF Ask
<1> HIDE DEF f
<1>3. PICK q \in Seq(Fetch) : q = fetches[s]
  OBVIOUS
<1>4. /\ Append(q, f) \in Seq(Fetch) /\ Len(Append(q, f)) = Len(q) + 1
      /\ \A j \in 1..Len(q) : Append(q, f)[j] = q[j]
      /\ Append(q, f)[Len(q) + 1] = f
  BY <1>1, AppendProperties
<1>5. fetches'[s] = Append(q, f) /\ \A x \in Lists \ {s} : fetches'[x] = fetches[x]
  BY <1>2, <1>3
<1>6. fetches' \in [Lists -> Seq(Fetch)]
  BY <1>2, <1>3, <1>4
<1> QED
  BY <1>1, <1>3, <1>4, <1>5, <1>6

\* Answer i is shown: those that were asked for before it are overtaken.
LEMMA WithoutAnswerIs ==
    ASSUME NEW q \in Seq(Fetch), NEW i \in 1..Len(q)
    PROVE  /\ WithoutAnswer(q, i) \in Seq(Fetch)
           /\ Len(WithoutAnswer(q, i)) = Len(q) - 1
           /\ \A j \in 1..(Len(q) - 1) :
                  LET f == WithoutAnswer(q, i)[j]
                  IN  IF j < i
                      THEN f.overtaken
                      ELSE /\ f.answered = q[j + 1].answered /\ f.view = q[j + 1].view
                           /\ f.overtaken = q[j + 1].overtaken
<1> DEFINE p == [j \in DOMAIN q |-> [q[j] EXCEPT !.overtaken = @ \/ j < i]]
<1>1. Len(q) \in Nat /\ DOMAIN q = 1..Len(q) /\ \A j \in 1..Len(q) : q[j] \in Fetch
  BY LenProperties, ElementOfSeq
<1>2. ASSUME NEW j \in 1..Len(q)
      PROVE  /\ p[j] \in Fetch /\ p[j].answered = q[j].answered /\ p[j].view = q[j].view
             /\ p[j].overtaken = (q[j].overtaken \/ j < i)
  <2>1. (j < i) \in BOOLEAN /\ q[j] \in Fetch
    BY <1>1
  <2>2. PICK before \in BOOLEAN : before = (j < i)
    BY <2>1
  <2>3. p[j] = [q[j] EXCEPT !.overtaken = @ \/ before]
    BY <1>1, <2>2
  <2> HIDE DEF p
  <2>4. /\ p[j] \in Fetch /\ p[j].answered = q[j].answered /\ p[j].view = q[j].view
        /\ p[j].overtaken = (q[j].overtaken \/ before)
    BY <2>1, <2>3, OvertakenKept
  <2> QED
    BY <2>2, <2>4
<1>3. p \in [1..Len(q) -> Fetch]
  BY <1>1, <1>2
<1>4. p \in Seq(Fetch)
  BY <1>1, <1>3, SeqDef
<1>5. Len(p) = Len(q)
  BY <1>1, <1>3, <1>4, LenProperties
<1>6. WithoutAnswer(q, i) = RemoveAt(p, i)
  BY DEF WithoutAnswer
<1> HIDE DEF p
<1>7. /\ RemoveAt(p, i) \in Seq(Fetch) /\ Len(RemoveAt(p, i)) = Len(q) - 1
      /\ \A j \in 1..(Len(q) - 1) :
             RemoveAt(p, i)[j] = IF j < i THEN p[j] ELSE p[j + 1]
  BY <1>4, <1>5, RemoveAtIs
<1>8. ASSUME NEW j \in 1..(Len(q) - 1), j < i
      PROVE  RemoveAt(p, i)[j].overtaken
  <2>1. j \in 1..Len(q) /\ RemoveAt(p, i)[j] = p[j]
    BY <1>1, <1>7, <1>8
  <2>2. p[j].overtaken = (q[j].overtaken \/ j < i)
    BY <1>2, <2>1
  <2> QED
    BY <1>8, <2>1, <2>2
<1>9. ASSUME NEW j \in 1..(Len(q) - 1), ~(j < i)
      PROVE  /\ RemoveAt(p, i)[j].answered = q[j + 1].answered
             /\ RemoveAt(p, i)[j].view = q[j + 1].view
             /\ RemoveAt(p, i)[j].overtaken = q[j + 1].overtaken
  <2>1. j + 1 \in 1..Len(q) /\ ~(j + 1 < i)
    BY <1>1, <1>9
  <2>2. RemoveAt(p, i)[j] = p[j + 1] /\ q[j + 1].overtaken \in BOOLEAN
    BY <1>1, <1>7, <1>9, <2>1 DEF Fetch
  <2> QED
    BY <1>2, <2>1, <2>2
<1> QED
  BY <1>6, <1>7, <1>8, <1>9

-----------------------------------------------------------------------------
(* Types.                                                                  *)

LEMMA GotoIs ==
    ASSUME NEW r \in Requests, NEW label \in Labels, pc \in [Requests -> Labels], Goto(r, label)
    PROVE  /\ pc' \in [Requests -> Labels] /\ pc'[r] = label
           /\ \A x \in Requests \ {r} : pc'[x] = pc[x]
BY DEF Goto

\* The answer to a query is a view.
LEMMA OpenOrdersIsView == TypeOK => OpenOrders \in Views
BY DEF TypeOK, OpenOrders, Views, IsOnPage, IsOpen

\* A request changes the orders or goes on.
LEMMA ServeTypes ==
    ASSUME TypeOK, WritesAreMeant, NEW r \in Requests,
           \/ \E o \in Orders : Create(r, o) \/ RemoveOrder(r, o) \/ \E t \in Targets : UpdateStatus(r, o, t)
           \/ BroadcastNewOrder(r) \/ WriteOrder(r) \/ FinishStatus(r) \/ CountOrders(r)
    PROVE  TypeOK'
<1> USE DEF server, listVars, badgeVars
<1>0. loc[r] \in Local
  BY DEF TypeOK
<1>1. ASSUME NEW o \in Orders, Create(r, o) PROVE TypeOK'
  <2>1. pc' \in [Requests -> Labels]
    BY <1>1, GotoIs DEF Create, TypeOK, Labels, Suspended
  <2>2. loc' \in [Requests -> Local]
    BY <1>0, <1>1, RowFields DEF Create, TypeOK
  <2>3. status' \in [Orders -> OrderStatus \cup {"absent", "deleted"}]
    BY <1>1 DEF Create, TypeOK, OrderStatus
  <2> QED
    BY <1>1, <2>1, <2>2, <2>3 DEF Create, TypeOK
<1>2. ASSUME NEW o \in Orders, RemoveOrder(r, o) PROVE TypeOK'
  <2>1. pc' \in [Requests -> Labels]
    BY <1>2, GotoIs DEF RemoveOrder, TypeOK, Labels, Suspended
  <2>2. loc' \in [Requests -> Local]
    BY <1>0, <1>2, CallKept DEF RemoveOrder, TypeOK
  <2> QED
    BY <1>2, <2>1, <2>2 DEF RemoveOrder, TypeOK
<1>3. ASSUME NEW o \in Orders, NEW t \in Targets, UpdateStatus(r, o, t) PROVE TypeOK'
  <2>1. pc' \in [Requests -> Labels]
    BY <1>3, GotoIs DEF UpdateStatus, TypeOK, Labels, Suspended
  <2>2. loc' \in [Requests -> Local]
    <3>1. t \in OrderStatus \cup {"new", "deleted"}
      BY TargetAssumption
    <3> QED
      BY <1>0, <1>3, <3>1, CallKept DEF UpdateStatus, TypeOK
  <2> QED
    BY <1>3, <2>1, <2>2 DEF UpdateStatus, TypeOK
<1>4. CASE BroadcastNewOrder(r)
  <2>1. pc' \in [Requests -> Labels]
    BY <1>4, GotoIs DEF BroadcastNewOrder, TypeOK, Labels, Suspended
  <2>2. notices' \in [Lists -> Nat] /\ lost' \subseteq Screens
    BY <1>4 DEF BroadcastNewOrder, NoticeToLists, Missing, Screens, TypeOK
  <2> QED
    BY <1>4, <2>1, <2>2 DEF BroadcastNewOrder, TypeOK
<1>5. CASE WriteOrder(r)
  <2>1. pc' \in [Requests -> Labels]
    BY <1>5, GotoIs DEF WriteOrder, AfterWrite, TypeOK, Labels, Suspended
  <2>2. status' \in [Orders -> OrderStatus \cup {"absent", "deleted"}]
    <3>1. CASE Exists(loc[r].order)
      <4>1. pc[r] = "write" /\ loc[r].to \in OrderStatus \cup {"new", "deleted"}
        BY <1>0, <1>5, RowFields DEF WriteOrder
      <4>2. loc[r].to # "new"
        BY <4>1 DEF WritesAreMeant
      <4> QED
        BY <1>5, <3>1, <4>1, <4>2 DEF WriteOrder, TypeOK
    <3>2. CASE ~Exists(loc[r].order)
      BY <1>5, <3>2 DEF WriteOrder, TypeOK
    <3> QED
      BY <3>1, <3>2
  <2> QED
    BY <1>5, <2>1, <2>2 DEF WriteOrder, TypeOK
<1>6. CASE FinishStatus(r)
  <2>1. pc' \in [Requests -> Labels]
    BY <1>6, GotoIs DEF FinishStatus, TypeOK, Labels, Suspended
  <2> QED
    BY <1>6, <2>1 DEF FinishStatus, TypeOK
<1>7. CASE CountOrders(r)
  <2>1. pc' \in [Requests -> Labels]
    BY <1>7, GotoIs DEF CountOrders, TypeOK, Labels, Suspended
  <2>2. loc' \in [Requests -> Local]
    <3>1. PICK n \in 0..MaxOrders : n = OpenCount
      BY CountIsBounded
    <3>2. loc' = [loc EXCEPT ![r] = [@ EXCEPT !.count = n, !.fresh = TRUE]]
      BY <1>7, <3>1 DEF CountOrders
    <3> QED
      BY <1>0, <3>2, CountKept DEF TypeOK
  <2>3. counted' \in Seq(Requests)
    BY <1>7, AppendProperties DEF CountOrders, TypeOK
  <2> QED
    BY <1>7, <2>1, <2>2, <2>3 DEF CountOrders, TypeOK
<1> QED
  BY <1>1, <1>2, <1>3, <1>4, <1>5, <1>6, <1>7

\* Whoever sends is forgotten with those that counted before.
LEMMA SentIs ==
    ASSUME TypeOK, CountedWait, NEW r \in Requests, SendCount(r), r \in Range(counted)
    PROVE  \E k \in 1..Len(counted) :
               /\ counted[k] = r
               /\ counted' \in Seq(Requests) /\ Len(counted') = Len(counted) - k
               /\ \A j \in 1..(Len(counted) - k) : counted'[j] = counted[k + j]
<1>1. PICK q \in Seq(Requests) : q = counted
  BY DEF TypeOK
<1>2. DOMAIN q = 1..Len(q)
  BY LenProperties
<1>3. PICK k \in 1..Len(q) : q[k] = r
  BY <1>1, <1>2 DEF Range
<1>4. SelectInSeq(q, LAMBDA x : x = r) = k
  <2>1. \A j \in 1..Len(q) : q[j] = r => j = k
    BY <1>1, <1>2, <1>3 DEF CountedWait
  <2>2. /\ {j \in 1..Len(q) : q[j] = r} # {}
        /\ Min({j \in 1..Len(q) : q[j] = r}) = k
    BY <1>3, <2>1, PlaceIs
  <2> QED
    BY <2>2 DEF SelectInSeq
<1>5. counted' = SubSeq(q, 1 + k, Len(q))
  BY <1>1, <1>4 DEF SendCount
<1>6. LET p == SubSeq(q, 1 + k, Len(q))
      IN  /\ p \in Seq(Requests) /\ Len(p) = Len(q) - k
          /\ \A j \in 1..(Len(q) - k) : p[j] = q[k + j]
  BY AfterIs
<1> QED
  BY <1>1, <1>3, <1>5, <1>6

\* A number is sent to the badges that are connected.
LEMMA SendsIs ==
    ASSUME NEW n \in Number, inbox \in [Badges -> Seq(Number)], NumberToBadges(n)
    PROVE  /\ inbox' \in [Badges -> Seq(Number)]
           /\ \A b \in Badges \ (open \cap online) : inbox'[b] = inbox[b]
           /\ \A b \in Badges \cap open \cap online :
                  /\ Len(inbox'[b]) = Len(inbox[b]) + 1
                  /\ \A j \in 1..Len(inbox[b]) : inbox'[b][j] = inbox[b][j]
                  /\ inbox'[b][Len(inbox[b]) + 1] = n
<1>1. ASSUME NEW b \in Badges
      PROVE  /\ Append(inbox[b], n) \in Seq(Number)
             /\ Len(Append(inbox[b], n)) = Len(inbox[b]) + 1
             /\ \A j \in 1..Len(inbox[b]) : Append(inbox[b], n)[j] = inbox[b][j]
             /\ Append(inbox[b], n)[Len(inbox[b]) + 1] = n
  <2>1. PICK q \in Seq(Number) : q = inbox[b]
    OBVIOUS
  <2> QED
    BY <2>1, AppendProperties
<1>2. \A b \in Badges : inbox'[b] = IF b \in open \cap online THEN Append(inbox[b], n) ELSE inbox[b]
  BY DEF NumberToBadges
<1>3. inbox' \in [Badges -> Seq(Number)]
  BY <1>1 DEF NumberToBadges
<1> QED
  BY <1>1, <1>2, <1>3

\* The number that r sends.
Sent(r) == [count |-> loc[r].count, overtaken |-> r \notin Range(counted)]

LEMMA SentIsNumber ==
    ASSUME TypeOK, NEW r \in Requests
    PROVE  /\ Sent(r) \in Number /\ Sent(r).count = loc[r].count
           /\ Sent(r).overtaken = (r \notin Range(counted))
<1>1. loc[r] \in Local
  BY DEF TypeOK
<1> QED
  BY <1>1, RowFields DEF Sent, Number

LEMMA SendTypes ==
    ASSUME TypeOK, CountedWait, NEW r \in Requests, SendCount(r)
    PROVE  TypeOK'
<1> USE DEF server, listVars, badgeVars
<1>1. pc' \in [Requests -> Labels]
  BY GotoIs DEF SendCount, TypeOK, Labels, Suspended
<1>2. loc' \in [Requests -> Local]
  <2>1. loc[r] \in Local /\ 0 \in 0..MaxOrders
    BY BoundAssumption DEF TypeOK
  <2> QED
    BY <2>1, CountKept DEF SendCount, TypeOK
<1>3. counted' \in Seq(Requests)
  BY SentIs DEF SendCount, TypeOK
<1>4. inbox' \in [Badges -> Seq(Number)]
  BY SentIsNumber, SendsIs DEF SendCount, Sent, TypeOK
<1>5. notices' \in [Lists -> Nat] /\ lost' \subseteq Screens
  BY DEF SendCount, NoticeToLists, Missing, TypeOK
<1>6. silent' \in BOOLEAN
  <2>1. silent \in BOOLEAN /\ loc[r].fresh \in BOOLEAN
    BY RowFields DEF TypeOK
  <2> QED
    BY <2>1 DEF SendCount
<1> QED
  BY <1>1, <1>2, <1>3, <1>4, <1>5, <1>6 DEF SendCount, TypeOK

LEMMA AbortTypes ==
    ASSUME TypeOK, NEW r \in Requests, Abort(r)
    PROVE  TypeOK'
<1> USE DEF server, listVars, badgeVars
<1>1. pc' \in [Requests -> Labels]
  BY GotoIs DEF Abort, TypeOK, Labels, Suspended
<1>2. loc' \in [Requests -> Local] /\ silent' \in BOOLEAN
  <2>1. CASE pc[r] = "write"
    BY <2>1 DEF Abort, TypeOK
  <2>2. CASE pc[r] # "write"
    <3>1. \A x \in Requests : [loc[x] EXCEPT !.fresh = FALSE] \in Local
      BY RowFields DEF TypeOK
    <3> QED
      BY <2>2, <3>1 DEF Abort
  <2> QED
    BY <2>1, <2>2
<1> QED
  BY <1>1, <1>2 DEF Abort, TypeOK

\* What is selected afterwards.
LEMMA SelectionIs ==
    ASSUME TypeOK, NEW s \in Lists, NEW f \in Fetch
    PROVE  Selection(s, f) \in Orders \cup {NoOrder}
<1>1. CASE f.by # NoRequest /\ loc[f.by].to \in {"completed", "canceled"}
  <2>1. f.by \in Requests
    BY <1>1 DEF Fetch
  <2>2. PICK T \in SUBSET Orders : T = loc[f.by].others
    BY <2>1, RowFields DEF TypeOK
  <2>3. T # {} => FirstOf(T) \in T
    BY FirstIsThere
  <2>4. Selection(s, f) = IF T # {} THEN FirstOf(T) ELSE NoOrder
    BY <1>1, <2>2 DEF Selection
  <2> QED
    BY <2>3, <2>4
<1>2. CASE ~(f.by # NoRequest /\ loc[f.by].to \in {"completed", "canceled"})
  <2>1. Listed(f.view) \subseteq Orders
    BY DEF Listed
  <2>2. selected[s] \in Orders \cup {NoOrder}
    BY DEF TypeOK
  <2> QED
    BY <1>2, <2>1, <2>2, FirstIsThere DEF Selection
<1> QED
  BY <1>1, <1>2

LEMMA ListTypes ==
    ASSUME TypeOK, NEW s \in Lists,
           ListStep(s) \/ User(s) \/ \E i \in DOMAIN fetches[s] : FailFetch(s, i)
    PROVE  TypeOK'
<1> USE DEF server, listVars, badgeVars
<1>0. PICK q \in Seq(Fetch) : q = fetches[s]
  BY DEF TypeOK
<1>0a. Len(q) \in Nat /\ DOMAIN q = 1..Len(q) /\ \A j \in 1..Len(q) : q[j] \in Fetch
  BY LenProperties, ElementOfSeq
<1>1. CASE OpenList(s)
  BY <1>1, AskIs DEF OpenList, Screens, TypeOK
<1>2. CASE TakeNotice(s)
  <2>1. notices' \in [Lists -> Nat]
    BY <1>2 DEF TakeNotice, TypeOK
  <2>2. fetches' \in [Lists -> Seq(Fetch)]
    BY <1>2, AskIs DEF TakeNotice, TypeOK
  <2> QED
    BY <1>2, <2>1, <2>2 DEF TakeNotice, TypeOK
<1>3. ASSUME NEW i \in DOMAIN fetches[s], AnswerFetch(s, i) PROVE TypeOK'
  <2>1. [q[i] EXCEPT !.answered = TRUE, !.view = OpenOrders] \in Fetch
    BY <1>0, <1>0a, OpenOrdersIsView, AnswerKept
  <2>2. [q EXCEPT ![i] = [@ EXCEPT !.answered = TRUE, !.view = OpenOrders]] \in Seq(Fetch)
    BY <1>0, <1>0a, <2>1, ExceptSeq
  <2> QED
    BY <1>0, <1>3, <2>2 DEF AnswerFetch, TypeOK
<1>4. ASSUME NEW i \in DOMAIN fetches[s], ShowOrders(s, i) PROVE TypeOK'
  <2>1. WithoutAnswer(q, i) \in Seq(Fetch) /\ q[i] \in Fetch /\ q[i].view \in Views
    BY <1>0, <1>0a, WithoutAnswerIs DEF Fetch
  <2>2. fetches' \in [Lists -> Seq(Fetch)] /\ shown' \in [Lists -> Views]
    BY <1>0, <1>4, <2>1 DEF ShowOrders, TypeOK
  <2>3. selected' \in [Lists -> Orders \cup {NoOrder}]
    BY <1>0, <1>4, <2>1, SelectionIs DEF ShowOrders, TypeOK
  <2> QED
    BY <1>4, <2>2, <2>3 DEF ShowOrders, Screens, TypeOK
<1>5. ASSUME NEW i \in DOMAIN fetches[s], FailFetch(s, i) PROVE TypeOK'
  <2>1. RemoveAt(q, i) \in Seq(Fetch) /\ q[i] \in Fetch /\ [q[i] EXCEPT !.auto = FALSE] \in Fetch
    <3>1. RemoveAt(q, i) \in Seq(Fetch)
      BY <1>0, <1>0a, RemoveAtIs
    <3>2. q[i] \in Fetch
      BY <1>0, <1>0a
    <3> QED
      BY <3>1, <3>2 DEF Fetch
  <2>2. fetches' \in [Lists -> Seq(Fetch)]
    BY <1>0, <1>5, <2>1 DEF FailFetch, TypeOK
  <2>3. selected' \in [Lists -> Orders \cup {NoOrder}]
    <3>1. Selection(s, [q[i] EXCEPT !.auto = FALSE]) \in Orders \cup {NoOrder}
      BY <2>1, SelectionIs
    <3> QED
      BY <1>0, <1>5, <3>1 DEF FailFetch, TypeOK
  <2> QED
    BY <1>5, <2>2, <2>3 DEF FailFetch, Screens, TypeOK
<1>6. ASSUME NEW o \in Orders, Select(s, o) PROVE TypeOK'
  BY <1>6 DEF Select, TypeOK
<1>7. ASSUME NEW r \in Requests, NEW to \in OrderStatus, ClickStatus(s, r, to) PROVE TypeOK'
  <2>1. pc' \in [Requests -> Labels]
    BY <1>7, GotoIs DEF ClickStatus, TypeOK, Labels, Suspended
  <2>2. loc' \in [Requests -> Local]
    <3>1. PICK o \in Orders, others \in SUBSET Orders :
              o = selected[s] /\ others = Listed(shown[s]) \ {o}
      BY <1>7 DEF ClickStatus, Listed
    <3>2. loc' = [loc EXCEPT ![r] = [@ EXCEPT !.order = o, !.to = to, !.list = s,
                                              !.others = others]]
      BY <1>7, <3>1 DEF ClickStatus
    <3>3. PICK l \in Local : l = loc[r]
      BY DEF TypeOK
    <3>4. [l EXCEPT !.order = o, !.to = to, !.list = s, !.others = others] \in Local
      BY ClickKept
    <3> QED
      BY <3>2, <3>3, <3>4 DEF TypeOK
  <2> QED
    BY <1>7, <2>1, <2>2 DEF ClickStatus, TypeOK
<1>8. ASSUME NEW r \in Requests, FinishClick(s, r) PROVE TypeOK'
  <2>1. loc' \in [Requests -> Local]
    BY <1>8, RowFields DEF FinishClick, TypeOK
  <2>2. fetches' \in [Lists -> Seq(Fetch)] /\ lost' \subseteq Screens
    BY <1>8, AskIs DEF FinishClick, TypeOK
  <2> QED
    BY <1>8, <2>1, <2>2 DEF FinishClick, TypeOK
<1> QED
  BY <1>1, <1>2, <1>3, <1>4, <1>5, <1>6, <1>7, <1>8 DEF ListStep, User

\* The first fetch of a badge.
LEMMA FirstKept ==
    ASSUME NEW f \in FirstFetch, NEW n \in 0..MaxOrders
    PROVE  /\ [f EXCEPT !.state = "asked"] \in FirstFetch
           /\ [f EXCEPT !.state = "none"] \in FirstFetch
           /\ [f EXCEPT !.overtaken = TRUE] \in FirstFetch
           /\ [f EXCEPT !.state = "answered", !.count = n] \in FirstFetch
           /\ [f EXCEPT !.state = "answered", !.count = n].state = "answered"
           /\ [f EXCEPT !.state = "answered", !.count = n].count = n
           /\ [f EXCEPT !.state = "answered", !.count = n].overtaken = f.overtaken
           /\ f.count \in 0..MaxOrders
BY DEF FirstFetch

LEMMA BadgeTypes ==
    ASSUME TypeOK, NEW b \in Badges, BadgeStep(b) \/ OpenBadge(b) \/ FailFirstCount(b)
    PROVE  TypeOK'
<1> USE DEF server, listVars, badgeVars
<1>0. initial[b] \in FirstFetch /\ 0 \in 0..MaxOrders
  BY BoundAssumption DEF TypeOK
<1>1. CASE OpenBadge(b)
  BY <1>0, <1>1, FirstKept DEF OpenBadge, Screens, TypeOK
<1>2. CASE AnswerCount(b)
  <2>1. PICK n \in 0..MaxOrders : n = OpenCount
    BY CountIsBounded
  <2>2. initial' = [initial EXCEPT ![b] = [@ EXCEPT !.state = "answered", !.count = n]]
    BY <1>2, <2>1 DEF AnswerCount
  <2>3. initial' \in [Badges -> FirstFetch]
    BY <1>0, <2>2, FirstKept DEF TypeOK
  <2> QED
    BY <1>2, <2>3 DEF AnswerCount, TypeOK
<1>3. CASE ShowFirstCount(b)
  <2>1. initial' \in [Badges -> FirstFetch]
    BY <1>0, <1>3, FirstKept DEF ShowFirstCount, TypeOK
  <2>2. badge' \in [Badges -> 0..MaxOrders \cup {NoCount}] /\ late' \subseteq Screens
    BY <1>0, <1>3, FirstKept DEF ShowFirstCount, Shows, Screens, TypeOK
  <2> QED
    BY <1>3, <2>1, <2>2 DEF ShowFirstCount, TypeOK
<1>4. CASE FailFirstCount(b)
  <2>1. initial' \in [Badges -> FirstFetch]
    BY <1>0, <1>4, FirstKept DEF FailFirstCount, TypeOK
  <2>2. badge' \in [Badges -> 0..MaxOrders \cup {NoCount}] /\ lost' \subseteq Screens
    BY <1>0, <1>4 DEF FailFirstCount, Screens, TypeOK
  <2> QED
    BY <1>4, <2>1, <2>2 DEF FailFirstCount, TypeOK
<1>5. CASE TakeNumber(b)
  <2>1. PICK q \in Seq(Number) : q = inbox[b] /\ q # <<>>
    BY <1>5 DEF TakeNumber, TypeOK
  <2>2. Head(q) \in Number /\ Tail(q) \in Seq(Number)
    BY <2>1, HeadTailProperties
  <2>3. initial' \in [Badges -> FirstFetch]
    BY <1>0, <1>5, FirstKept DEF TakeNumber, TypeOK
  <2>4. /\ badge' \in [Badges -> 0..MaxOrders \cup {NoCount}] /\ late' \subseteq Screens
        /\ lost' \subseteq Screens
    BY <1>5, <2>1, <2>2 DEF TakeNumber, Shows, Number, Screens, TypeOK
  <2>5. inbox' \in [Badges -> Seq(Number)]
    BY <1>5, <2>1, <2>2 DEF TakeNumber, TypeOK
  <2> QED
    BY <1>5, <2>3, <2>4, <2>5 DEF TakeNumber, TypeOK
<1> QED
  BY <1>1, <1>2, <1>3, <1>4, <1>5 DEF BadgeStep

LEMMA ConnectionTypes ==
    ASSUME TypeOK, NEW s \in Screens, Disconnect(s) \/ Reconnect(s)
    PROVE  TypeOK'
<1> USE DEF server, listVars, badgeVars
<1>1. CASE Disconnect(s)
  <2>1. notices' \in [Lists -> Nat]
    BY <1>1 DEF Disconnect, TypeOK
  <2>2. inbox' \in [Badges -> Seq(Number)]
    <3>1. <<>> \in Seq(Number)
      BY EmptySeq
    <3> QED
      BY <1>1, <3>1 DEF Disconnect, TypeOK
  <2>3. drops' \in 0..MaxDrops
    BY <1>1, BoundAssumption DEF Disconnect, TypeOK
  <2>4. online' \subseteq Screens /\ lost' \subseteq Screens
    BY <1>1 DEF Disconnect, TypeOK
  <2> QED
    BY <1>1, <2>1, <2>2, <2>3, <2>4 DEF Disconnect, TypeOK
<1>2. CASE Reconnect(s)
  BY <1>2 DEF Reconnect, TypeOK
<1> QED
  BY <1>1, <1>2

LEMMA TypesKept == TypeOK /\ WritesAreMeant /\ CountedWait /\ [Next]_vars => TypeOK'
<1> SUFFICES ASSUME TypeOK, WritesAreMeant, CountedWait, [Next]_vars PROVE TypeOK'
  OBVIOUS
<1>1. ASSUME NEW r \in Requests, Call(r) \/ Serve(r) \/ Abort(r) PROVE TypeOK'
  BY <1>1, ServeTypes, SendTypes, AbortTypes DEF Call, Serve
<1>2. ASSUME NEW s \in Lists, ListStep(s) \/ User(s) PROVE TypeOK'
  BY <1>2, ListTypes
<1>3. ASSUME NEW b \in Badges, BadgeStep(b) \/ OpenBadge(b) PROVE TypeOK'
  BY <1>3, BadgeTypes
<1>4. CASE Network
  BY <1>4, ListTypes, BadgeTypes, ConnectionTypes DEF Network
<1>5. CASE UNCHANGED vars
  BY <1>5 DEF vars, server, listVars, badgeVars, TypeOK
<1> QED
  BY <1>1, <1>2, <1>3, <1>4, <1>5 DEF Next

-----------------------------------------------------------------------------
(* The requests.                                                           *)

\* What the screens and the connections do changes neither an order nor what a
\* request goes by.
ServerKept ==
    /\ status' = status /\ pc' = pc /\ counted' = counted /\ silent' = silent
    /\ loc' \in [Requests -> Local]
    /\ \A r \in Requests : /\ loc'[r].to = loc[r].to /\ loc'[r].count = loc[r].count
                           /\ loc'[r].fresh = loc[r].fresh

LEMMA ScreensKeepServer ==
    ASSUME TypeOK,
           \/ \E s \in Lists : \/ ListStep(s) \/ OpenList(s) \/ \E o \in Orders : Select(s, o)
                               \/ \E i \in DOMAIN fetches[s] : FailFetch(s, i)
           \/ \E b \in Badges : BadgeStep(b) \/ OpenBadge(b) \/ FailFirstCount(b)
           \/ \E s \in Screens : Disconnect(s) \/ Reconnect(s)
           \/ UNCHANGED vars
    PROVE  ServerKept
<1>1. ASSUME UNCHANGED server PROVE ServerKept
  BY <1>1 DEF server, ServerKept, TypeOK
<1>2. ASSUME NEW s \in Lists, NEW r \in Requests, FinishClick(s, r) PROVE ServerKept
  <2>1. loc' = [loc EXCEPT ![r] = [@ EXCEPT !.list = NoList]]
    BY <1>2 DEF FinishClick
  <2>2. /\ [loc[r] EXCEPT !.list = NoList] \in Local
        /\ [loc[r] EXCEPT !.list = NoList].to = loc[r].to
        /\ [loc[r] EXCEPT !.list = NoList].count = loc[r].count
        /\ [loc[r] EXCEPT !.list = NoList].fresh = loc[r].fresh
    BY RowFields DEF TypeOK
  <2>3. /\ loc' \in [Requests -> Local] /\ loc'[r] = [loc[r] EXCEPT !.list = NoList]
        /\ \A x \in Requests \ {r} : loc'[x] = loc[x]
    BY <2>1, <2>2 DEF TypeOK
  <2>4. status' = status /\ pc' = pc /\ counted' = counted /\ silent' = silent
    BY <1>2 DEF FinishClick
  <2> QED
    BY <2>2, <2>3, <2>4 DEF ServerKept
<1>3. ASSUME NEW s \in Lists, ListStep(s) PROVE ServerKept
  <2>1. ASSUME NEW i \in DOMAIN fetches[s], AnswerFetch(s, i) \/ ShowOrders(s, i) PROVE ServerKept
    BY <1>1, <2>1 DEF AnswerFetch, ShowOrders
  <2> QED
    BY <1>1, <1>2, <1>3, <2>1 DEF ListStep, TakeNotice
<1>4. ASSUME NEW s \in Lists, \/ OpenList(s) \/ \E o \in Orders : Select(s, o)
                              \/ \E i \in DOMAIN fetches[s] : FailFetch(s, i)
      PROVE  ServerKept
  BY <1>1, <1>4 DEF OpenList, Select, FailFetch
<1>5. ASSUME NEW b \in Badges, BadgeStep(b) \/ OpenBadge(b) \/ FailFirstCount(b) PROVE ServerKept
  BY <1>1, <1>5 DEF BadgeStep, AnswerCount, ShowFirstCount, TakeNumber, OpenBadge, FailFirstCount
<1>6. ASSUME NEW s \in Screens, Disconnect(s) \/ Reconnect(s) PROVE ServerKept
  BY <1>1, <1>6 DEF Disconnect, Reconnect
<1>7. CASE UNCHANGED vars
  BY <1>1, <1>7 DEF vars
<1> QED
  BY <1>3, <1>4, <1>5, <1>6, <1>7

\* A request begins: it has written, or is about to.
LEMMA BeginIs ==
    ASSUME TypeOK, NEW r \in Requests,
           Call(r) \/ \E s \in Lists, to \in OrderStatus : ClickStatus(s, r, to)
    PROVE  /\ pc[r] = "idle" /\ pc' \in [Requests -> Labels]
           /\ pc'[r] = "rest" \/ (pc'[r] = "write" /\ status' = status /\ loc'[r].to # "new")
           /\ \A x \in Requests \ {r} : pc'[x] = pc[x] /\ loc'[x] = loc[x]
           /\ loc'[r].count = loc[r].count /\ loc'[r].fresh = loc[r].fresh
           /\ counted' = counted /\ silent' = silent
           /\ UNCHANGED <<listVars, badgeVars, open, online, lost, late>>
<1> USE DEF listVars, badgeVars
<1>0. loc[r] \in Local /\ loc \in [Requests -> Local] /\ pc \in [Requests -> Labels]
  BY DEF TypeOK
<1> DEFINE Begun ==
        /\ pc[r] = "idle" /\ pc' \in [Requests -> Labels]
        /\ pc'[r] = "rest" \/ (pc'[r] = "write" /\ status' = status /\ loc'[r].to # "new")
        /\ \A x \in Requests \ {r} : pc'[x] = pc[x] /\ loc'[x] = loc[x]
        /\ loc'[r].count = loc[r].count /\ loc'[r].fresh = loc[r].fresh
        /\ counted' = counted /\ silent' = silent
        /\ UNCHANGED <<listVars, badgeVars, open, online, lost, late>>
<1>1. ASSUME NEW o \in Orders, Create(r, o) PROVE Begun
  <2>1. pc' \in [Requests -> Labels] /\ pc'[r] = "rest" /\ \A x \in Requests \ {r} : pc'[x] = pc[x]
    BY <1>0, <1>1, GotoIs DEF Create, Labels, Suspended
  <2>2. /\ loc'[r] = [loc[r] EXCEPT !.order = o] /\ \A x \in Requests \ {r} : loc'[x] = loc[x]
        /\ loc'[r].count = loc[r].count /\ loc'[r].fresh = loc[r].fresh
    BY <1>0, <1>1, RowFields DEF Create
  <2>3. /\ pc[r] = "idle" /\ counted' = counted /\ silent' = silent
        /\ UNCHANGED <<listVars, badgeVars, open, online, lost, late>>
    BY <1>1 DEF Create, Starts
  <2> QED
    BY <2>1, <2>2, <2>3
<1>2. ASSUME NEW o \in Orders, NEW to \in (OrderStatus \cup {"new", "deleted"}) \ {"new"},
             loc' = [loc EXCEPT ![r] = [@ EXCEPT !.order = o, !.to = to]]
      PROVE  /\ loc'[r].to # "new" /\ \A x \in Requests \ {r} : loc'[x] = loc[x]
             /\ loc'[r].count = loc[r].count /\ loc'[r].fresh = loc[r].fresh
  <2>1. loc'[r] = [loc[r] EXCEPT !.order = o, !.to = to] /\ \A x \in Requests \ {r} : loc'[x] = loc[x]
    BY <1>0, <1>2
  <2>2. LET new == [loc[r] EXCEPT !.order = o, !.to = to]
        IN  new.to = to /\ new.count = loc[r].count /\ new.fresh = loc[r].fresh
    BY <1>0 DEF Local
  <2> QED
    BY <2>1, <2>2
<1>3. ASSUME Goto(r, "write")
      PROVE  pc' \in [Requests -> Labels] /\ pc'[r] = "write" /\ \A x \in Requests \ {r} : pc'[x] = pc[x]
  BY <1>0, <1>3, GotoIs DEF Labels, Suspended
<1>4. ASSUME NEW o \in Orders, RemoveOrder(r, o) PROVE Begun
  <2>1. "deleted" \in (OrderStatus \cup {"new", "deleted"}) \ {"new"}
    OBVIOUS
  <2>2. /\ loc'[r].to # "new" /\ \A x \in Requests \ {r} : loc'[x] = loc[x]
        /\ loc'[r].count = loc[r].count /\ loc'[r].fresh = loc[r].fresh
    BY <1>2, <1>4, <2>1 DEF RemoveOrder
  <2> QED
    BY <1>3, <1>4, <2>2 DEF RemoveOrder, Starts
<1>5. ASSUME NEW o \in Orders, NEW t \in Targets, UpdateStatus(r, o, t) PROVE Begun
  <2>1. t \in (OrderStatus \cup {"new", "deleted"}) \ {"new"}
    BY TargetAssumption DEF OrderStatus
  <2> QED
    BY <1>2, <1>3, <1>5, <2>1 DEF UpdateStatus, Starts
<1>6. ASSUME NEW s \in Lists, NEW to \in OrderStatus, ClickStatus(s, r, to) PROVE Begun
  <2>1. PICK o \in Orders, others \in SUBSET Orders :
            o = selected[s] /\ others = Listed(shown[s]) \ {o}
    BY <1>6 DEF ClickStatus, Listed
  <2>2. loc' = [loc EXCEPT ![r] = [@ EXCEPT !.order = o, !.to = to, !.list = s,
                                            !.others = others]]
    BY <1>6, <2>1 DEF ClickStatus
  <2>3. /\ loc'[r].to = to /\ \A x \in Requests \ {r} : loc'[x] = loc[x]
        /\ loc'[r].count = loc[r].count /\ loc'[r].fresh = loc[r].fresh
    <3>1. /\ loc'[r] = [loc[r] EXCEPT !.order = o, !.to = to, !.list = s, !.others = others]
          /\ \A x \in Requests \ {r} : loc'[x] = loc[x]
      BY <1>0, <2>2
    <3>2. LET new == [loc[r] EXCEPT !.order = o, !.to = to, !.list = s, !.others = others]
          IN  new.to = to /\ new.count = loc[r].count /\ new.fresh = loc[r].fresh
      BY <1>0 DEF Local
    <3> QED
      BY <3>1, <3>2
  <2>4. to # "new"
    BY DEF OrderStatus
  <2> QED
    BY <1>3, <1>6, <2>3, <2>4 DEF ClickStatus, Starts
<1> HIDE DEF Begun
<1>7. Begun
  BY <1>1, <1>4, <1>5, <1>6 DEF Call
<1> QED
  BY <1>7 DEF Begun

\* A request begins, or goes on without counting: whoever changes an order is
\* still to count.
Proceeds(r) ==
    /\ pc' \in [Requests -> Labels]
    /\ pc[r] \notin {"send", "done", "failed"} /\ pc'[r] # "send"
    /\ \A x \in Requests \ {r} : pc'[x] = pc[x] /\ loc'[x] = loc[x]
    /\ loc'[r].count = loc[r].count /\ loc'[r].fresh = loc[r].fresh
    /\ pc'[r] = "write" => loc'[r].to # "new"
    /\ counted' = counted /\ silent' = silent
    /\ status' = status \/ pc'[r] \in {"rest", "count"}
    /\ notices' = notices \/ pc'[r] \in {"rest", "count"}
    /\ pc[r] \in {"rest", "count"} => pc'[r] \in {"rest", "count"}
    /\ UNCHANGED <<fetches, shown, badgeVars, open, online, late>>
    /\ lost \subseteq lost'

LEMMA RequestsProceed ==
    ASSUME TypeOK, WritesAreMeant, NEW r \in Requests,
           \/ Call(r) \/ BroadcastNewOrder(r) \/ FinishStatus(r) \/ WriteOrder(r)
           \/ Abort(r) /\ pc[r] = "write"
           \/ \E s \in Lists, to \in OrderStatus : ClickStatus(s, r, to)
    PROVE  Proceeds(r)
<1>0. pc \in [Requests -> Labels]
  BY DEF TypeOK
<1>1. CASE Call(r) \/ \E s \in Lists, to \in OrderStatus : ClickStatus(s, r, to)
  BY <1>1, BeginIs DEF Proceeds, listVars
<1>2. CASE BroadcastNewOrder(r)
  <2>1. /\ pc[r] = "rest" /\ pc' \in [Requests -> Labels] /\ pc'[r] = "count"
        /\ \A x \in Requests \ {r} : pc'[x] = pc[x]
    BY <1>0, <1>2, GotoIs DEF BroadcastNewOrder, Labels, Suspended
  <2> QED
    BY <1>2, <2>1 DEF BroadcastNewOrder, Proceeds
<1>3. CASE FinishStatus(r)
  <2>1. /\ pc[r] = "rest" /\ pc' \in [Requests -> Labels] /\ pc'[r] = "count"
        /\ \A x \in Requests \ {r} : pc'[x] = pc[x]
    BY <1>0, <1>3, GotoIs DEF FinishStatus, Labels, Suspended
  <2> QED
    BY <1>3, <2>1 DEF FinishStatus, listVars, Proceeds
<1>4. CASE WriteOrder(r)
  <2>1. /\ pc[r] = "write" /\ pc' \in [Requests -> Labels]
        /\ \/ pc'[r] \in {"rest", "count"}
           \/ pc'[r] = "failed" /\ status' = status
        /\ \A x \in Requests \ {r} : pc'[x] = pc[x]
    BY <1>0, <1>4, GotoIs DEF WriteOrder, AfterWrite, Labels, Suspended
  <2> QED
    BY <1>4, <2>1 DEF WriteOrder, listVars, Proceeds
<1>5. CASE Abort(r) /\ pc[r] = "write"
  <2>1. /\ pc' \in [Requests -> Labels] /\ pc'[r] = "failed"
        /\ \A x \in Requests \ {r} : pc'[x] = pc[x]
    BY <1>0, <1>5, GotoIs DEF Abort, Labels, Suspended
  <2> QED
    BY <1>5, <2>1 DEF Abort, listVars, Proceeds
<1> QED
  BY <1>1, <1>2, <1>3, <1>4, <1>5

\* What counting changes.
LEMMA CountIs ==
    ASSUME TypeOK, NEW r \in Requests, CountOrders(r)
    PROVE  /\ pc[r] = "count" /\ pc'[r] = "send" /\ \A x \in Requests \ {r} : pc'[x] = pc[x]
           /\ loc'[r].count = OpenCount /\ loc'[r].fresh /\ loc'[r].to = loc[r].to
           /\ \A x \in Requests \ {r} : loc'[x] = loc[x]
           /\ counted' \in Seq(Requests) /\ Len(counted') = Len(counted) + 1
           /\ \A j \in 1..Len(counted) : counted'[j] = counted[j]
           /\ counted'[Len(counted) + 1] = r
           /\ silent' = silent /\ status' = status /\ lost' = lost
<1>1. pc[r] = "count" /\ pc'[r] = "send" /\ \A x \in Requests \ {r} : pc'[x] = pc[x]
  BY GotoIs DEF CountOrders, TypeOK, Labels, Suspended
<1>2. PICK n \in 0..MaxOrders : n = OpenCount
  BY CountIsBounded
<1>3. PICK row \in Local : row = loc[r]
  BY DEF TypeOK
<1>4. LET new == [row EXCEPT !.count = n, !.fresh = TRUE]
      IN  new.count = n /\ new.fresh = TRUE /\ new.to = row.to
  BY CountKept
<1>5. /\ loc'[r] = [row EXCEPT !.count = n, !.fresh = TRUE]
      /\ \A x \in Requests \ {r} : loc'[x] = loc[x]
  BY <1>2, <1>3 DEF CountOrders, TypeOK
<1>6. loc'[r].count = OpenCount /\ loc'[r].fresh /\ loc'[r].to = loc[r].to
  BY <1>2, <1>3, <1>4, <1>5
<1>7. PICK q \in Seq(Requests) : q = counted
  BY DEF TypeOK
<1>8. /\ counted' \in Seq(Requests) /\ Len(counted') = Len(q) + 1
      /\ \A j \in 1..Len(q) : counted'[j] = q[j]
      /\ counted'[Len(q) + 1] = r
  BY <1>7, AppendProperties DEF CountOrders
<1> QED
  BY <1>1, <1>5, <1>6, <1>7, <1>8 DEF CountOrders

\* What sending changes.
LEMMA SendIs ==
    ASSUME TypeOK, NEW r \in Requests, SendCount(r)
    PROVE  /\ pc[r] = "send" /\ pc'[r] = "done" /\ \A x \in Requests \ {r} : pc'[x] = pc[x]
           /\ ~loc'[r].fresh /\ \A x \in Requests \ {r} : loc'[x] = loc[x]
           /\ silent' = (silent /\ ~loc[r].fresh) /\ status' = status
           /\ r \notin Range(counted) => counted' = counted
<1>1. pc[r] = "send" /\ pc'[r] = "done" /\ \A x \in Requests \ {r} : pc'[x] = pc[x]
  BY GotoIs DEF SendCount, TypeOK, Labels, Suspended
<1>2. PICK row \in Local : row = loc[r]
  BY DEF TypeOK
<1>3. 0 \in 0..MaxOrders
  BY BoundAssumption
<1>4. LET new == [row EXCEPT !.count = 0, !.fresh = FALSE] IN new.fresh = FALSE
  BY <1>3, CountKept
<1>5. /\ loc'[r] = [row EXCEPT !.count = 0, !.fresh = FALSE]
      /\ \A x \in Requests \ {r} : loc'[x] = loc[x]
  BY <1>2 DEF SendCount, TypeOK
<1> QED
  BY <1>1, <1>4, <1>5 DEF SendCount

\* What is not announced is what was counted by nobody who is still to send.
LEMMA AbortIs ==
    ASSUME TypeOK, NEW r \in Requests, Abort(r), pc[r] # "write"
    PROVE  /\ pc[r] \in {"rest", "count"} /\ pc'[r] \in {"done", "failed"}
           /\ \A x \in Requests \ {r} : pc'[x] = pc[x]
           /\ silent' /\ \A x \in Requests : ~loc'[x].fresh /\ loc'[x].to = loc[x].to
           /\ counted' = counted /\ lost' = lost
<1>1. pc[r] \in {"rest", "count"}
  BY DEF Abort
<1>2. pc'[r] \in {"done", "failed"} /\ \A x \in Requests \ {r} : pc'[x] = pc[x]
  BY GotoIs DEF Abort, TypeOK, Labels, Suspended
<1>3. ASSUME NEW x \in Requests PROVE ~loc'[x].fresh /\ loc'[x].to = loc[x].to
  <2>1. PICK row \in Local : row = loc[x]
    BY DEF TypeOK
  <2>2. loc'[x] = [row EXCEPT !.fresh = FALSE]
    BY <1>1, <2>1 DEF Abort
  <2>3. [row EXCEPT !.fresh = FALSE].fresh = FALSE /\ [row EXCEPT !.fresh = FALSE].to = row.to
    BY RowFields
  <2> QED
    BY <2>1, <2>2, <2>3
<1> QED
  BY <1>1, <1>2, <1>3 DEF Abort

\* The ways in which a step may concern the requests.
RequestSteps ==
    \E r \in Requests :
        Proceeds(r) \/ CountOrders(r) \/ SendCount(r) \/ (Abort(r) /\ pc[r] # "write")

LEMMA StepsAre ==
    ASSUME TypeOK, WritesAreMeant, [Next]_vars
    PROVE  RequestSteps \/ ServerKept
<1>1. ASSUME NEW r \in Requests, Call(r) \/ Serve(r) \/ Abort(r) PROVE RequestSteps
  BY <1>1, RequestsProceed DEF Serve, RequestSteps
<1>2. ASSUME NEW s \in Lists, ListStep(s) \/ User(s) PROVE RequestSteps \/ ServerKept
  <2>1. ASSUME NEW r \in Requests, NEW to \in OrderStatus, ClickStatus(s, r, to) PROVE RequestSteps
    BY <2>1, RequestsProceed DEF RequestSteps
  <2> QED
    BY <1>2, <2>1, ScreensKeepServer DEF User
<1>3. ASSUME NEW b \in Badges, BadgeStep(b) \/ OpenBadge(b) PROVE ServerKept
  BY <1>3, ScreensKeepServer
<1>4. CASE Network
  BY <1>4, ScreensKeepServer DEF Network
<1>5. CASE UNCHANGED vars
  BY <1>5, ScreensKeepServer
<1> QED
  BY <1>1, <1>2, <1>3, <1>4, <1>5 DEF Next

LEMMA WritesStep == TypeOK /\ WritesAreMeant /\ [Next]_vars => WritesAreMeant'
<1> SUFFICES ASSUME TypeOK, WritesAreMeant, [Next]_vars PROVE WritesAreMeant'
  OBVIOUS
<1>1. CASE ServerKept
  BY <1>1 DEF ServerKept, WritesAreMeant
<1>2. ASSUME NEW r \in Requests, Proceeds(r) PROVE WritesAreMeant'
  BY <1>2 DEF Proceeds, WritesAreMeant
<1>3. ASSUME NEW r \in Requests, CountOrders(r) PROVE WritesAreMeant'
  BY <1>3, CountIs DEF WritesAreMeant
<1>4. ASSUME NEW r \in Requests, SendCount(r) PROVE WritesAreMeant'
  BY <1>4, SendIs DEF WritesAreMeant
<1>5. ASSUME NEW r \in Requests, Abort(r), pc[r] # "write" PROVE WritesAreMeant'
  BY <1>5, AbortIs DEF WritesAreMeant
<1> QED
  BY <1>1, <1>2, <1>3, <1>4, <1>5, StepsAre DEF RequestSteps

\* The places of counted.
LEMMA Places ==
    ASSUME TypeOK
    PROVE  /\ Len(counted) \in Nat /\ DOMAIN counted = 1..Len(counted)
           /\ \A i \in DOMAIN counted : counted[i] \in Requests
           /\ counted # <<>> <=> Len(counted) > 0
<1>1. PICK q \in Seq(Requests) : q = counted
  BY DEF TypeOK
<1>2. Len(q) \in Nat /\ DOMAIN q = 1..Len(q) /\ \A i \in 1..Len(q) : q[i] \in Requests
  BY LenProperties, ElementOfSeq
<1>3. q # <<>> <=> Len(q) > 0
  BY EmptySeq
<1> QED
  BY <1>1, <1>2, <1>3

LEMMA PlacesLater ==
    ASSUME TypeOK'
    PROVE  /\ Len(counted') \in Nat /\ DOMAIN counted' = 1..Len(counted')
           /\ counted' # <<>> <=> Len(counted') > 0
<1>1. PICK q \in Seq(Requests) : q = counted'
  BY DEF TypeOK
<1>2. Len(q) \in Nat /\ DOMAIN q = 1..Len(q)
  BY LenProperties
<1>3. q # <<>> <=> Len(q) > 0
  BY EmptySeq
<1> QED
  BY <1>1, <1>2, <1>3

LEMMA CountedStep == TypeOK /\ TypeOK' /\ WritesAreMeant /\ CountedWait /\ [Next]_vars => CountedWait'
<1> SUFFICES ASSUME TypeOK, TypeOK', WritesAreMeant, CountedWait, [Next]_vars PROVE CountedWait'
  OBVIOUS
<1>0. /\ Len(counted) \in Nat /\ DOMAIN counted = 1..Len(counted)
      /\ DOMAIN counted' = 1..Len(counted')
  BY Places, PlacesLater
<1>1. CASE ServerKept
  BY <1>1 DEF ServerKept, CountedWait
<1>2. ASSUME NEW r \in Requests, Proceeds(r) PROVE CountedWait'
  BY <1>2, Places DEF Proceeds, CountedWait
<1>3. ASSUME NEW r \in Requests, CountOrders(r) PROVE CountedWait'
  <2>1. /\ pc[r] = "count" /\ pc'[r] = "send" /\ \A x \in Requests \ {r} : pc'[x] = pc[x]
        /\ Len(counted') = Len(counted) + 1
        /\ \A j \in 1..Len(counted) : counted'[j] = counted[j]
        /\ counted'[Len(counted) + 1] = r
    BY <1>3, CountIs
  <2>2. \A i \in 1..Len(counted) : counted[i] \in Requests \ {r} /\ pc[counted[i]] = "send"
    BY <1>0, <2>1, Places DEF CountedWait
  <2>3. \A i \in 1..Len(counted') : i \in 1..Len(counted) \/ i = Len(counted) + 1
    BY <1>0, <2>1
  <2>4. \A i \in 1..Len(counted') : pc'[counted'[i]] = "send"
    BY <2>1, <2>2, <2>3
  <2>5. \A i, j \in 1..Len(counted') : counted'[i] = counted'[j] => i = j
    BY <1>0, <2>1, <2>2, <2>3 DEF CountedWait
  <2> QED
    BY <1>0, <2>4, <2>5 DEF CountedWait
<1>4. ASSUME NEW r \in Requests, SendCount(r) PROVE CountedWait'
  <2>1. pc[r] = "send" /\ \A x \in Requests \ {r} : pc'[x] = pc[x]
    BY <1>4, SendIs
  <2>2. CASE r \in Range(counted)
    <3>1. PICK k \in 1..Len(counted) :
              /\ counted[k] = r /\ Len(counted') = Len(counted) - k
              /\ \A j \in 1..(Len(counted) - k) : counted'[j] = counted[k + j]
      BY <1>4, <2>2, SentIs
    <3>2. ASSUME NEW j \in 1..(Len(counted) - k)
          PROVE  k + j \in 1..Len(counted) /\ k + j # k
      BY <1>0
    <3>3. ASSUME NEW j \in 1..(Len(counted) - k)
          PROVE  counted'[j] \in Requests \ {r} /\ pc[counted'[j]] = "send"
      BY <1>0, <3>1, <3>2, Places DEF CountedWait
    <3>4. ASSUME NEW i \in 1..(Len(counted) - k), NEW j \in 1..(Len(counted) - k),
                 counted'[i] = counted'[j]
          PROVE  i = j
      <4>1. counted[k + i] = counted[k + j]
        BY <3>1, <3>4
      <4>2. k + i = k + j
        BY <1>0, <3>2, <4>1 DEF CountedWait
      <4> QED
        BY <1>0, <4>2
    <3> QED
      BY <1>0, <2>1, <3>1, <3>3, <3>4 DEF CountedWait
  <2>3. CASE r \notin Range(counted)
    <3>1. counted' = counted
      BY <1>4, <2>3, SendIs
    <3>2. \A i \in DOMAIN counted : counted[i] \in Requests \ {r}
      BY <2>3, Places DEF Range
    <3> QED
      BY <2>1, <3>1, <3>2 DEF CountedWait
  <2> QED
    BY <2>2, <2>3
<1>5. ASSUME NEW r \in Requests, Abort(r), pc[r] # "write" PROVE CountedWait'
  <2>1. \A i \in DOMAIN counted : counted[i] \in Requests \ {r}
    BY <1>5, AbortIs, Places DEF CountedWait
  <2> QED
    BY <1>5, <2>1, AbortIs DEF CountedWait
<1> QED
  BY <1>1, <1>2, <1>3, <1>4, <1>5, StepsAre DEF RequestSteps

LEMMA FreshStep ==
    TypeOK /\ TypeOK' /\ WritesAreMeant /\ CountedWait /\ FreshLast /\ [Next]_vars => FreshLast'
<1> SUFFICES ASSUME TypeOK, TypeOK', WritesAreMeant, CountedWait, FreshLast, [Next]_vars
             PROVE  FreshLast'
  OBVIOUS
<1>0. /\ Len(counted) \in Nat /\ DOMAIN counted = 1..Len(counted)
      /\ DOMAIN counted' = 1..Len(counted')
      /\ \A i \in 1..Len(counted) : counted[i] \in Requests /\ pc[counted[i]] = "send"
      /\ \A r \in Requests : loc[r].fresh \in BOOLEAN
      /\ silent \in BOOLEAN
  <2>1. \A r \in Requests : loc[r].fresh \in BOOLEAN
    BY RowFields DEF TypeOK
  <2> QED
    BY <2>1, Places, PlacesLater DEF CountedWait, TypeOK
<1>1. CASE ServerKept
  BY <1>0, <1>1 DEF ServerKept, FreshLast
<1>2. ASSUME NEW r \in Requests, Proceeds(r) PROVE FreshLast'
  <2>1. \A i \in 1..Len(counted) : counted[i] \in Requests \ {r}
    BY <1>0, <1>2 DEF Proceeds
  <2> QED
    BY <1>0, <1>2, <2>1 DEF Proceeds, FreshLast
<1>3. ASSUME NEW r \in Requests, CountOrders(r) PROVE FreshLast'
  <2>1. /\ pc[r] = "count" /\ \A x \in Requests \ {r} : pc'[x] = pc[x] /\ loc'[x] = loc[x]
        /\ loc'[r].fresh /\ silent' = silent
        /\ Len(counted') = Len(counted) + 1
        /\ \A j \in 1..Len(counted) : counted'[j] = counted[j]
        /\ counted'[Len(counted) + 1] = r
    BY <1>3, CountIs
  <2>2. \A i \in 1..Len(counted) : counted'[i] \in Requests \ {r}
    BY <1>0, <2>1
  <2>3. \A i \in 1..Len(counted') : i \in 1..Len(counted) \/ i = Len(counted) + 1
    BY <1>0, <2>1
  <2>4. ASSUME NEW i \in 1..Len(counted'), NEW j \in 1..Len(counted'),
               i < j, loc'[counted'[i]].fresh
        PROVE  loc'[counted'[j]].fresh
    <3>1. CASE j = Len(counted) + 1
      BY <2>1, <3>1
    <3>2. CASE j \in 1..Len(counted)
      <4>1. i \in 1..Len(counted)
        BY <1>0, <2>4, <3>2
      <4>2. /\ counted'[i] = counted[i] /\ loc'[counted[i]] = loc[counted[i]]
            /\ counted'[j] = counted[j] /\ loc'[counted[j]] = loc[counted[j]]
        BY <2>1, <2>2, <3>2, <4>1
      <4>3. loc[counted[i]].fresh
        BY <2>4, <4>2
      <4> QED
        BY <1>0, <2>4, <3>2, <4>1, <4>2, <4>3 DEF FreshLast
    <3> QED
      BY <2>3, <3>1, <3>2
  <2>5. ~silent' => \A i \in 1..Len(counted') : loc'[counted'[i]].fresh
    BY <1>0, <2>1, <2>2, <2>3 DEF FreshLast
  <2>6. Len(counted) + 1 \in 1..Len(counted') /\ \A i \in 1..Len(counted) : i \in 1..Len(counted')
    BY <1>0, <2>1
  <2>7. ASSUME NEW x \in Requests, pc'[x] = "send", loc'[x].fresh
        PROVE  ~silent' \/ \E i \in 1..Len(counted') : counted'[i] = x
    BY <1>0, <2>1, <2>6, <2>7 DEF FreshLast
  <2> QED
    BY <1>0, <2>4, <2>5, <2>7 DEF FreshLast
<1>4. ASSUME NEW r \in Requests, SendCount(r) PROVE FreshLast'
  <2>1. /\ pc[r] = "send" /\ pc'[r] = "done"
        /\ \A x \in Requests \ {r} : pc'[x] = pc[x] /\ loc'[x] = loc[x]
        /\ silent' = (silent /\ ~loc[r].fresh)
    BY <1>4, SendIs
  <2>2. CASE r \in Range(counted)
    <3>1. PICK k \in 1..Len(counted) :
              /\ counted[k] = r /\ Len(counted') = Len(counted) - k
              /\ \A j \in 1..(Len(counted) - k) : counted'[j] = counted[k + j]
      BY <1>4, <2>2, SentIs
    <3>2. ASSUME NEW j \in 1..(Len(counted) - k)
          PROVE  k + j \in 1..Len(counted) /\ k < k + j
      BY <1>0
    <3>3. ASSUME NEW j \in 1..(Len(counted) - k)
          PROVE  counted'[j] = counted[k + j] /\ counted[k + j] \in Requests \ {r}
      <4>1. PICK i \in 1..Len(counted) : i = k + j /\ k < i
        BY <3>2
      <4>2. counted[i] # counted[k] /\ counted[i] \in Requests
        BY <1>0, <4>1 DEF CountedWait
      <4>3. counted'[j] = counted[k + j] /\ counted[k] = r
        BY <3>1
      <4> QED
        BY <4>1, <4>2, <4>3
    <3>4. ASSUME NEW j \in 1..(Len(counted) - k)
          PROVE  loc'[counted'[j]] = loc[counted[k + j]]
      BY <2>1, <3>3
    <3>5. ASSUME NEW i \in 1..(Len(counted) - k), NEW j \in 1..(Len(counted) - k),
                 i < j, loc'[counted'[i]].fresh
          PROVE  loc'[counted'[j]].fresh
      <4>1. k + i < k + j /\ k + i \in 1..Len(counted) /\ k + j \in 1..Len(counted)
        BY <1>0, <3>2, <3>5
      <4>2. loc[counted[k + i]].fresh
        BY <3>4, <3>5
      <4>3. loc[counted[k + j]].fresh
        BY <1>0, <4>1, <4>2 DEF FreshLast
      <4> QED
        BY <3>4, <4>3
    <3>6. ASSUME ~silent', NEW j \in 1..(Len(counted) - k)
          PROVE  loc'[counted'[j]].fresh
      <4>1. loc[counted[k + j]].fresh
        <5>1. CASE loc[r].fresh
          BY <1>0, <3>1, <3>2, <5>1 DEF FreshLast
        <5>2. CASE ~silent
          BY <1>0, <3>2, <5>2 DEF FreshLast
        <5> QED
          BY <1>0, <2>1, <3>6, <5>1, <5>2
      <4> QED
        BY <3>4, <4>1
    <3>7. ASSUME NEW x \in Requests, pc'[x] = "send", loc'[x].fresh, silent'
          PROVE  \E j \in 1..(Len(counted) - k) : counted'[j] = x
      <4>1. x # r /\ pc[x] = "send" /\ loc[x].fresh /\ silent /\ ~loc[r].fresh
        BY <1>0, <2>1, <3>7
      <4>2. PICK i \in 1..Len(counted) : counted[i] = x
        BY <1>0, <4>1 DEF FreshLast
      <4>3. i # k /\ ~(i < k)
        BY <1>0, <3>1, <4>1, <4>2 DEF FreshLast
      <4>4. i - k \in 1..(Len(counted) - k) /\ k + (i - k) = i
        BY <1>0, <4>3
      <4> QED
        BY <3>1, <4>2, <4>4
    <3>8. DOMAIN counted' = 1..(Len(counted) - k)
      BY <1>0, <3>1
    <3> QED
      BY <3>5, <3>6, <3>7, <3>8 DEF FreshLast
  <2>3. CASE r \notin Range(counted)
    <3>1. counted' = counted
      BY <1>4, <2>3, SendIs
    <3>2. \A i \in 1..Len(counted) : counted[i] \in Requests \ {r}
      BY <1>0, <2>3 DEF Range
    <3>3. silent' = silent
      <4>1. loc[r].fresh => ~silent
        BY <1>0, <2>1, <3>2 DEF FreshLast
      <4> QED
        BY <1>0, <2>1, <4>1
    <3> QED
      BY <1>0, <2>1, <3>1, <3>2, <3>3 DEF FreshLast
  <2> QED
    BY <2>2, <2>3
<1>5. ASSUME NEW r \in Requests, Abort(r), pc[r] # "write" PROVE FreshLast'
  BY <1>0, <1>5, AbortIs DEF FreshLast
<1> QED
  BY <1>1, <1>2, <1>3, <1>4, <1>5, StepsAre DEF RequestSteps

\* The number of open orders depends on their statuses only.
LEMMA CountSame == status' = status => OpenCount' = OpenCount /\ OpenOrders' = OpenOrders
BY DEF OpenCount, OpenOrders, IsOnPage, IsOpen

\* Who is still to count, after a step.
LEMMA AllCountedLater ==
    ASSUME TypeOK, AllCounted',
           \/ ServerKept
           \/ \E r \in Requests : Proceeds(r) \/ SendCount(r)
    PROVE  AllCounted /\ status' = status
<1>1. CASE ServerKept
  BY <1>1 DEF ServerKept, AllCounted
<1>2. ASSUME NEW r \in Requests, Proceeds(r) PROVE AllCounted /\ status' = status
  BY <1>2 DEF Proceeds, AllCounted
<1>3. ASSUME NEW r \in Requests, SendCount(r) PROVE AllCounted /\ status' = status
  BY <1>3, SendIs DEF AllCounted
<1> QED
  BY <1>1, <1>2, <1>3

LEMMA LastStep ==
    /\ TypeOK /\ TypeOK' /\ WritesAreMeant /\ CountedWait /\ FreshLast /\ LastCountIsRight
    /\ [Next]_vars
    => LastCountIsRight'
<1> SUFFICES ASSUME TypeOK, TypeOK', WritesAreMeant, CountedWait, FreshLast, LastCountIsRight,
                    [Next]_vars
             PROVE  LastCountIsRight'
  OBVIOUS
<1>0. /\ Len(counted) \in Nat /\ DOMAIN counted = 1..Len(counted)
      /\ counted # <<>> <=> Len(counted) > 0
      /\ Len(counted') \in Nat
      /\ counted' # <<>> <=> Len(counted') > 0
      /\ \A i \in 1..Len(counted) : counted[i] \in Requests /\ pc[counted[i]] = "send"
      /\ counted # <<>> => Len(counted) \in 1..Len(counted)
  BY Places, PlacesLater DEF CountedWait
<1>1. CASE ServerKept
  BY <1>0, <1>1, CountSame, AllCountedLater DEF ServerKept, LastCountIsRight
<1>2. ASSUME NEW r \in Requests, Proceeds(r) PROVE LastCountIsRight'
  <2>1. \A i \in 1..Len(counted) : counted[i] \in Requests \ {r}
    BY <1>0, <1>2 DEF Proceeds
  <2>2. AllCounted' => AllCounted /\ status' = status
    BY <1>2, AllCountedLater
  <2>3. counted' = counted /\ \A x \in Requests \ {r} : loc'[x] = loc[x]
    BY <1>2 DEF Proceeds
  <2> QED
    BY <1>0, <2>1, <2>2, <2>3, CountSame DEF LastCountIsRight
<1>3. ASSUME NEW r \in Requests, CountOrders(r) PROVE LastCountIsRight'
  <2>1. /\ counted'[Len(counted')] = r /\ status' = status
        /\ loc'[r].count = OpenCount
    BY <1>3, CountIs
  <2> QED
    BY <2>1, CountSame DEF LastCountIsRight
<1>4. ASSUME NEW r \in Requests, SendCount(r) PROVE LastCountIsRight'
  <2>1. \A x \in Requests \ {r} : loc'[x] = loc[x]
    BY <1>4, SendIs
  <2>2. AllCounted' => AllCounted /\ status' = status
    BY <1>4, AllCountedLater
  <2>3. ASSUME counted' # <<>>
        PROVE  /\ counted # <<>> /\ counted'[Len(counted')] = counted[Len(counted)]
               /\ counted[Len(counted)] \in Requests \ {r}
    <3>1. CASE r \in Range(counted)
      <4>1. PICK k \in 1..Len(counted) :
                /\ counted[k] = r /\ Len(counted') = Len(counted) - k
                /\ \A j \in 1..(Len(counted) - k) : counted'[j] = counted[k + j]
        BY <1>4, <3>1, SentIs
      <4>2. /\ Len(counted) - k \in 1..(Len(counted) - k)
            /\ k + (Len(counted) - k) = Len(counted) /\ Len(counted) # k
            /\ Len(counted) > 0
        <5>1. Len(counted') > 0
          BY <1>0, <2>3
        <5>2. PICK n \in Nat : n = Len(counted)
          BY <1>0
        <5>3. n - k > 0 /\ k \in 1..n
          BY <4>1, <5>1, <5>2
        <5>4. n - k \in 1..(n - k) /\ k + (n - k) = n /\ n # k /\ n > 0
          BY <5>3
        <5> QED
          BY <5>2, <5>4
      <4> QED
        BY <1>0, <4>1, <4>2 DEF CountedWait
    <3>2. CASE r \notin Range(counted)
      <4>1. counted' = counted
        BY <1>4, <3>2, SendIs
      <4> QED
        BY <1>0, <2>3, <3>2, <4>1 DEF Range
    <3> QED
      BY <3>1, <3>2
  <2> QED
    BY <2>1, <2>2, <2>3, CountSame DEF LastCountIsRight
<1>5. ASSUME NEW r \in Requests, Abort(r), pc[r] # "write" PROVE LastCountIsRight'
  <2>1. counted' = counted /\ \A x \in Requests : ~loc'[x].fresh
    BY <1>5, AbortIs
  <2> QED
    BY <1>0, <2>1 DEF LastCountIsRight
<1> QED
  BY <1>1, <1>2, <1>3, <1>4, <1>5, StepsAre DEF RequestSteps

-----------------------------------------------------------------------------
(* The badges.                                                             *)

\* Nothing happens to badge b.
BadgeKept(b) ==
    /\ inbox'[b] = inbox[b] /\ initial'[b] = initial[b] /\ badge'[b] = badge[b]
    /\ b \in open' <=> b \in open
    /\ b \in late' <=> b \in late
    /\ b \in lost => b \in lost'
    /\ b \in online => b \in online'

\* The places of the numbers on their way.
LEMMA NumberPlaces ==
    ASSUME TypeOK, NEW b \in Badges
    PROVE  /\ Len(inbox[b]) \in Nat /\ DOMAIN inbox[b] = 1..Len(inbox[b])
           /\ \A i \in 1..Len(inbox[b]) : inbox[b][i] \in Number /\ inbox[b][i].overtaken \in BOOLEAN
           /\ inbox[b] # <<>> <=> Len(inbox[b]) > 0
<1>1. PICK q \in Seq(Number) : q = inbox[b]
  BY DEF TypeOK
<1>2. Len(q) \in Nat /\ DOMAIN q = 1..Len(q) /\ \A i \in 1..Len(q) : q[i] \in Number
  BY LenProperties, ElementOfSeq
<1>3. q # <<>> <=> Len(q) > 0
  BY EmptySeq
<1>4. \A n \in Number : n.overtaken \in BOOLEAN
  BY DEF Number
<1> QED
  BY <1>1, <1>2, <1>3, <1>4

\* What the lists, the other badges and other connections do leaves a badge
\* alone.
LEMMA BadgesKept ==
    ASSUME TypeOK, NEW b \in Badges,
           \/ \E s \in Lists : \/ ListStep(s) \/ User(s)
                               \/ \E i \in DOMAIN fetches[s] : FailFetch(s, i)
           \/ \E x \in Badges \ {b} : BadgeStep(x) \/ OpenBadge(x) \/ FailFirstCount(x)
           \/ \E s \in Screens : Disconnect(s) /\ s # b
           \/ \E s \in Screens : Reconnect(s)
           \/ UNCHANGED vars
    PROVE  BadgeKept(b)
<1> USE DEF badgeVars
<1>1. b \notin Lists
  BY NullAssumption
<1>2. ASSUME NEW s \in Lists, ListStep(s) PROVE BadgeKept(b)
  <2>1. CASE TakeNotice(s)
    BY <1>1, <2>1 DEF TakeNotice, BadgeKept
  <2>2. ASSUME NEW i \in DOMAIN fetches[s], AnswerFetch(s, i) \/ ShowOrders(s, i) PROVE BadgeKept(b)
    BY <1>1, <2>2 DEF AnswerFetch, ShowOrders, BadgeKept
  <2>3. ASSUME NEW r \in Requests, FinishClick(s, r) PROVE BadgeKept(b)
    BY <1>1, <2>3 DEF FinishClick, BadgeKept
  <2> QED
    BY <1>2, <2>1, <2>2, <2>3 DEF ListStep
<1>3. ASSUME NEW s \in Lists, User(s) PROVE BadgeKept(b)
  <2>1. ASSUME NEW r \in Requests, NEW to \in OrderStatus, ClickStatus(s, r, to) PROVE BadgeKept(b)
    BY <2>1 DEF ClickStatus, BadgeKept
  <2> QED
    BY <1>1, <1>3, <2>1 DEF User, OpenList, Select, BadgeKept
<1>4. ASSUME NEW s \in Lists, NEW i \in DOMAIN fetches[s], FailFetch(s, i) PROVE BadgeKept(b)
  BY <1>4 DEF FailFetch, BadgeKept
<1>5. ASSUME NEW x \in Badges \ {b}, BadgeStep(x) \/ OpenBadge(x) \/ FailFirstCount(x)
      PROVE  BadgeKept(b)
  <2>1. CASE OpenBadge(x) \/ AnswerCount(x)
    BY <1>5, <2>1 DEF OpenBadge, AnswerCount, TypeOK, BadgeKept
  <2>2. CASE ShowFirstCount(x)
    BY <1>5, <2>2 DEF ShowFirstCount, Shows, TypeOK, BadgeKept
  <2>3. CASE FailFirstCount(x)
    BY <1>5, <2>3 DEF FailFirstCount, TypeOK, BadgeKept
  <2>4. CASE TakeNumber(x)
    BY <1>5, <2>4 DEF TakeNumber, Shows, TypeOK, BadgeKept
  <2> QED
    BY <1>5, <2>1, <2>2, <2>3, <2>4 DEF BadgeStep
<1>6. ASSUME NEW s \in Screens, Disconnect(s), s # b PROVE BadgeKept(b)
  BY <1>6 DEF Disconnect, TypeOK, BadgeKept
<1>7. ASSUME NEW s \in Screens, Reconnect(s) PROVE BadgeKept(b)
  BY <1>7 DEF Reconnect, BadgeKept
<1>8. CASE UNCHANGED vars
  BY <1>8 DEF vars, BadgeKept
<1> QED
  BY <1>2, <1>3, <1>4, <1>5, <1>6, <1>7, <1>8

\* The ways in which a step may concern badge b.
LEMMA BadgeCases ==
    ASSUME TypeOK, WritesAreMeant, NEW b \in Badges, [Next]_vars
    PROVE  \/ RequestSteps
           \/ ServerKept /\ BadgeKept(b)
           \/ ServerKept /\ (BadgeStep(b) \/ OpenBadge(b) \/ FailFirstCount(b) \/ Disconnect(b))
<1>1. ASSUME NEW r \in Requests, Call(r) \/ Serve(r) \/ Abort(r) PROVE RequestSteps
  BY <1>1, RequestsProceed DEF Serve, RequestSteps
<1>2. ASSUME NEW s \in Lists, ListStep(s) \/ User(s)
      PROVE  RequestSteps \/ (ServerKept /\ BadgeKept(b))
  <2>1. ASSUME NEW r \in Requests, NEW to \in OrderStatus, ClickStatus(s, r, to) PROVE RequestSteps
    BY <2>1, RequestsProceed DEF RequestSteps
  <2>2. BadgeKept(b)
    BY <1>2, BadgesKept
  <2> QED
    BY <1>2, <2>1, <2>2, ScreensKeepServer DEF User
<1>3. ASSUME NEW x \in Badges, BadgeStep(x) \/ OpenBadge(x) \/ FailFirstCount(x)
      PROVE  /\ ServerKept
             /\ BadgeKept(b) \/ BadgeStep(b) \/ OpenBadge(b) \/ FailFirstCount(b)
  <2>1. ServerKept
    BY <1>3, ScreensKeepServer
  <2>2. CASE x = b
    BY <1>3, <2>1, <2>2
  <2>3. CASE x # b
    BY <1>3, <2>1, <2>3, BadgesKept
  <2> QED
    BY <2>2, <2>3
<1>4. ASSUME NEW s \in Screens, Disconnect(s) \/ Reconnect(s)
      PROVE  ServerKept /\ (BadgeKept(b) \/ Disconnect(b))
  BY <1>4, ScreensKeepServer, BadgesKept
<1>5. ASSUME NEW s \in Lists, NEW i \in DOMAIN fetches[s], FailFetch(s, i)
      PROVE  ServerKept /\ BadgeKept(b)
  BY <1>5, ScreensKeepServer, BadgesKept
<1>6. CASE UNCHANGED vars
  BY <1>6, ScreensKeepServer, BadgesKept
<1> QED
  BY <1>1, <1>2, <1>3, <1>4, <1>5, <1>6 DEF Next, Network

\* What requests change of a badge.
LEMMA RequestsAndBadges ==
    ASSUME TypeOK, NEW b \in Badges, NEW r \in Requests,
           Proceeds(r) \/ CountOrders(r) \/ SendCount(r) \/ Abort(r)
    PROVE  /\ initial' = initial /\ badge' = badge /\ open' = open /\ online' = online
           /\ late' = late /\ lost \subseteq lost'
           /\ inbox'[b] = inbox[b] \/ (SendCount(r) /\ b \in open \cap online)
<1>1. CASE SendCount(r)
  <2>1. b \notin open \cap online => inbox'[b] = inbox[b]
    BY <1>1, SentIsNumber, SendsIs DEF SendCount, Sent, TypeOK
  <2> QED
    BY <1>1, <2>1 DEF SendCount
<1>2. CASE Proceeds(r)
  BY <1>2 DEF Proceeds, badgeVars
<1>3. CASE CountOrders(r) \/ Abort(r)
  BY <1>3 DEF CountOrders, Abort, badgeVars
<1> QED
  BY <1>1, <1>2, <1>3

LEMMA BeginStep ==
    TypeOK /\ TypeOK' /\ WritesAreMeant /\ BadgesBegin /\ [Next]_vars => BadgesBegin'
<1> SUFFICES ASSUME TypeOK, TypeOK', WritesAreMeant, BadgesBegin, [Next]_vars, NEW b \in Badges
             PROVE  /\ b \notin online' => inbox'[b] = <<>>
                    /\ b \notin open' =>
                           inbox'[b] = <<>> /\ ~initial'[b].overtaken /\ initial'[b].state = "none"
                    /\ ~initial'[b].overtaken /\ (b \in open' => initial'[b].state # "none") =>
                           badge'[b] = NoCount /\ b \notin late'
  BY DEF BadgesBegin
<1>0. /\ b \notin online => inbox[b] = <<>>
      /\ b \notin open =>
             inbox[b] = <<>> /\ ~initial[b].overtaken /\ initial[b].state = "none"
      /\ ~initial[b].overtaken /\ (b \in open => initial[b].state # "none") =>
             badge[b] = NoCount /\ b \notin late
      /\ initial[b] \in FirstFetch
  BY DEF BadgesBegin, TypeOK
<1>1. CASE RequestSteps
  BY <1>0, <1>1, RequestsAndBadges DEF RequestSteps
<1>2. CASE BadgeKept(b)
  BY <1>0, <1>2 DEF BadgeKept
<1>3. CASE Disconnect(b)
  <2>1. /\ b \in open /\ open' = open /\ initial' = initial /\ badge' = badge /\ late' = late
        /\ inbox'[b] = <<>>
    BY <1>3 DEF Disconnect
  <2> QED
    BY <1>0, <2>1
<1>4. CASE OpenBadge(b)
  <2>1. /\ initial'[b] = [initial[b] EXCEPT !.state = "asked"] /\ b \notin open /\ b \in open'
        /\ badge' = badge /\ late' = late /\ inbox' = inbox /\ online' = online
    BY <1>4 DEF OpenBadge, TypeOK, badgeVars
  <2>2. initial'[b].overtaken = initial[b].overtaken
    BY <1>0, <2>1 DEF FirstFetch
  <2> QED
    BY <1>0, <2>1, <2>2
<1>5. CASE AnswerCount(b)
  <2>1. initial[b].state # "none" /\ UNCHANGED <<inbox, badge, open, online, late>>
    BY <1>5 DEF AnswerCount
  <2>2. initial'[b].overtaken = initial[b].overtaken
    <3>1. PICK n \in 0..MaxOrders : n = OpenCount
      BY CountIsBounded
    <3>2. initial'[b] = [initial[b] EXCEPT !.state = "answered", !.count = n]
      BY <1>5, <3>1 DEF AnswerCount, TypeOK
    <3> QED
      BY <1>0, <3>2 DEF FirstFetch
  <2> QED
    BY <1>0, <2>1, <2>2
<1>6. CASE ShowFirstCount(b) \/ FailFirstCount(b)
  <2>1. /\ initial'[b] = [initial[b] EXCEPT !.state = "none"]
        /\ initial[b].state # "none" /\ inbox' = inbox /\ open' = open /\ online' = online
    BY <1>6 DEF ShowFirstCount, FailFirstCount, TypeOK
  <2>2. initial'[b].overtaken = initial[b].overtaken /\ initial'[b].state = "none"
    BY <1>0, <2>1 DEF FirstFetch
  <2>3. b \in open
    BY <1>0, <2>1
  <2> QED
    BY <1>0, <2>1, <2>2, <2>3
<1>7. CASE TakeNumber(b)
  <2>1. initial'[b] = [initial[b] EXCEPT !.overtaken = TRUE] /\ inbox[b] # <<>> /\ open' = open
        /\ online' = online
    BY <1>7 DEF TakeNumber, TypeOK
  <2>2. initial'[b].overtaken = TRUE
    BY <1>0, <2>1 DEF FirstFetch
  <2> QED
    BY <1>0, <2>1, <2>2
<1> QED
  BY <1>1, <1>2, <1>3, <1>4, <1>5, <1>6, <1>7, BadgeCases DEF BadgeStep

\* A request sends the last count, which is right, or one that was overtaken.
LEMMA SendReaches ==
    ASSUME TypeOK, CountedWait, FreshLast, LastCountIsRight, BadgeFollows,
           NEW b \in Badges, b \in open, b \notin Missing,
           NEW r \in Requests, SendCount(r), AllSent'
    PROVE  BadgeComes(b)'
<1>0. /\ DOMAIN inbox[b] = 1..Len(inbox[b]) /\ Len(inbox[b]) \in Nat
      /\ \A r_ \in Requests : loc[r_].fresh \in BOOLEAN
      /\ Len(counted) \in Nat /\ DOMAIN counted = 1..Len(counted)
  <2>1. \A x \in Requests : loc[x].fresh \in BOOLEAN
    BY RowFields DEF TypeOK
  <2> QED
    BY <2>1, NumberPlaces, Places
<1>1. PICK n \in Number : n = Sent(r)
  BY SentIsNumber
<1>2. n.count = loc[r].count /\ n.overtaken = (r \notin Range(counted))
  BY <1>1, SentIsNumber
<1>3. /\ inbox' \in [Badges -> Seq(Number)] /\ Len(inbox'[b]) = Len(inbox[b]) + 1
      /\ \A j \in 1..Len(inbox[b]) : inbox'[b][j] = inbox[b][j]
      /\ inbox'[b][Len(inbox[b]) + 1] = n
  <2>1. NumberToBadges(n) /\ inbox \in [Badges -> Seq(Number)] /\ b \in open \cap online
    BY <1>1 DEF SendCount, Sent, Missing, TypeOK
  <2> QED
    BY <2>1, SendsIs
<1>4. DOMAIN inbox'[b] = 1..(Len(inbox[b]) + 1)
  <2>1. PICK q \in Seq(Number) : q = inbox'[b]
    BY <1>3
  <2> QED
    BY <1>3, <2>1, LenProperties
<1>5. AllCounted /\ status' = status /\ silent' = (silent /\ ~loc[r].fresh)
  BY AllCountedLater, SendIs DEF AllSent
<1>6. OpenCount' = OpenCount
  BY <1>5, CountSame
<1>7. CASE r \in Range(counted)
  <2>1. PICK k \in 1..Len(counted) :
            /\ counted[k] = r /\ Len(counted') = Len(counted) - k
    BY <1>7, SentIs
  <2>2. Len(counted') = 0
    BY DEF AllSent
  <2>3. k = Len(counted) /\ counted # <<>>
    <3>1. PICK n_ \in Nat : n_ = Len(counted)
      BY <1>0
    <3>2. n_ - k = 0 /\ k \in 1..n_
      BY <2>1, <2>2, <3>1
    <3>3. k = n_ /\ n_ > 0
      BY <3>2
    <3> QED
      BY <3>1, <3>3, Places
  <2>4. loc[r].fresh
    <3>1. ~silent \/ loc[r].fresh
      BY <1>0, <1>5 DEF AllSent
    <3> QED
      BY <1>0, <2>1, <3>1 DEF FreshLast
  <2>5. loc[r].count = OpenCount
    BY <1>5, <2>1, <2>3, <2>4 DEF LastCountIsRight
  <2>6. ~n.overtaken /\ n.count = OpenCount'
    BY <1>2, <1>6, <1>7, <2>5
  <2>7. Len(inbox[b]) + 1 \in 1..(Len(inbox[b]) + 1)
        /\ \A j \in 1..(Len(inbox[b]) + 1) : ~(j > Len(inbox[b]) + 1)
    BY <1>0
  <2> QED
    BY <1>3, <1>4, <2>6, <2>7 DEF BadgeComes, NewestIsRight
<1>8. CASE r \notin Range(counted)
  <2>1. counted' = counted
    BY <1>8, SendIs
  <2>2. ~loc[r].fresh \/ ~silent
    <3>1. pc[r] = "send"
      BY SendIs
    <3> QED
      BY <1>8, <3>1 DEF FreshLast, Range
  <2>3. AllSent
    BY <1>0, <1>5, <2>1, <2>2, SendIs DEF AllSent, TypeOK
  <2>4. BadgeComes(b)
    BY <2>3 DEF BadgeFollows
  <2>5. n.overtaken
    BY <1>2, <1>8
  <2>6. \A j \in 1..(Len(inbox[b]) + 1) : j \in 1..Len(inbox[b]) \/ j = Len(inbox[b]) + 1
    BY <1>0
  <2>7. initial' = initial /\ badge' = badge /\ late' = late /\ lost \subseteq lost'
    BY RequestsAndBadges
  <2>8. CASE NewestIsRight(inbox[b])
    <3>1. PICK i \in 1..Len(inbox[b]) : /\ ~inbox[b][i].overtaken /\ inbox[b][i].count = OpenCount
                                       /\ \A j \in 1..Len(inbox[b]) : j > i => inbox[b][j].overtaken
      BY <1>0, <2>8 DEF NewestIsRight
    <3>2. /\ i \in DOMAIN inbox'[b] /\ ~inbox'[b][i].overtaken /\ inbox'[b][i].count = OpenCount'
      BY <1>0, <1>3, <1>4, <1>6, <3>1
    <3>3. \A j \in DOMAIN inbox'[b] : j > i => inbox'[b][j].overtaken
      BY <1>3, <1>4, <2>5, <2>6, <3>1
    <3> QED
      BY <3>2, <3>3 DEF BadgeComes, NewestIsRight
  <2>9. CASE ShownIsRight(b) /\ \A i \in DOMAIN inbox[b] : inbox[b][i].overtaken
    <3>1. ShownIsRight(b)'
      BY <1>6, <2>7, <2>9 DEF ShownIsRight
    <3>2. \A j \in DOMAIN inbox'[b] : inbox'[b][j].overtaken
      BY <1>0, <1>3, <1>4, <2>5, <2>6, <2>9
    <3> QED
      BY <3>1, <3>2 DEF BadgeComes
  <2> QED
    BY <2>4, <2>8, <2>9 DEF BadgeComes
<1> QED
  BY <1>7, <1>8

\* What badge b does itself.
LEMMA BadgeReacts ==
    ASSUME TypeOK, BadgesBegin, NEW b \in Badges, b \in open => BadgeComes(b),
           status' = status,
           BadgeStep(b) \/ OpenBadge(b) \/ FailFirstCount(b) \/ Disconnect(b)
    PROVE  BadgeComes(b)'
<1>0. /\ DOMAIN inbox[b] = 1..Len(inbox[b]) /\ Len(inbox[b]) \in Nat
      /\ inbox[b] # <<>> <=> Len(inbox[b]) > 0
      /\ initial[b] \in FirstFetch /\ OpenCount' = OpenCount /\ OpenCount \in 0..MaxOrders
      /\ initial[b].overtaken \in BOOLEAN
  <2>1. initial[b] \in FirstFetch
    BY DEF TypeOK
  <2> QED
    BY <2>1, NumberPlaces, CountSame, CountIsBounded DEF FirstFetch
<1>1. CASE OpenBadge(b)
  <2>1. /\ initial'[b] = [initial[b] EXCEPT !.state = "asked"] /\ b \notin open /\ inbox' = inbox
    BY <1>1 DEF OpenBadge, TypeOK
  <2>2. initial'[b].state = "asked" /\ initial'[b].overtaken = initial[b].overtaken
    BY <1>0, <2>1 DEF FirstFetch
  <2>3. ~initial[b].overtaken /\ inbox'[b] = <<>>
    BY <2>1 DEF BadgesBegin
  <2>4. DOMAIN inbox'[b] = {}
    BY <2>3
  <2> QED
    BY <2>2, <2>3, <2>4 DEF BadgeComes, ShownIsRight
<1>2. CASE FailFirstCount(b)
  <2>1. inbox' = inbox /\ b \in lost' /\ initial[b].state # "none"
    BY <1>2 DEF FailFirstCount
  <2>2. b \in open
    BY <2>1 DEF BadgesBegin
  <2> QED
    BY <1>0, <2>1, <2>2 DEF BadgeComes, NewestIsRight, ShownIsRight
<1>3. ASSUME AnswerCount(b) \/ ShowFirstCount(b) PROVE b \in open
  BY <1>3 DEF AnswerCount, ShowFirstCount, BadgesBegin
<1>4. CASE AnswerCount(b)
  <2>1. PICK n \in 0..MaxOrders : n = OpenCount
    BY <1>0
  <2>2. /\ initial'[b] = [initial[b] EXCEPT !.state = "answered", !.count = n]
        /\ inbox' = inbox /\ badge' = badge /\ late' = late /\ lost' = lost
    BY <1>4, <2>1 DEF AnswerCount, TypeOK
  <2>3. /\ initial'[b].state = "answered" /\ initial'[b].overtaken = initial[b].overtaken
        /\ initial'[b].count = OpenCount
    BY <1>0, <2>1, <2>2 DEF FirstFetch
  <2> QED
    BY <1>0, <1>3, <1>4, <2>2, <2>3 DEF BadgeComes, NewestIsRight, ShownIsRight
<1>5. CASE ShowFirstCount(b)
  <2>1. /\ inbox' = inbox /\ badge'[b] = initial[b].count
        /\ initial[b].overtaken => b \in late'
        /\ initial[b].state = "answered" /\ lost' = lost
    BY <1>5 DEF ShowFirstCount, Shows, TypeOK
  <2>2. CASE NewestIsRight(inbox[b])
    BY <1>0, <2>1, <2>2 DEF BadgeComes, NewestIsRight
  <2>3. CASE ShownIsRight(b) /\ \A i \in DOMAIN inbox[b] : inbox[b][i].overtaken
    <3>1. b \in lost \/ initial[b].overtaken \/ initial[b].count = OpenCount
      <4>1. ASSUME ~initial[b].overtaken PROVE b \notin late /\ badge[b] # OpenCount
        <5>1. badge[b] = NoCount /\ b \notin late
          BY <2>1, <4>1 DEF BadgesBegin
        <5> QED
          BY <1>0, <5>1, BoundAssumption, NullAssumption
      <4> QED
        BY <2>1, <2>3, <4>1 DEF ShownIsRight
    <3> QED
      BY <1>0, <2>1, <2>3, <3>1 DEF BadgeComes, ShownIsRight
  <2> QED
    BY <1>3, <1>5, <2>2, <2>3 DEF BadgeComes
<1>6. CASE TakeNumber(b)
  <2>1. PICK q \in Seq(Number) : q = inbox[b]
    BY DEF TypeOK
  <2>2. /\ Tail(q) \in Seq(Number) /\ Len(Tail(q)) = Len(q) - 1 /\ Len(q) > 0
        /\ \A i \in 1..Len(Tail(q)) : Tail(q)[i] = q[i + 1]
        /\ DOMAIN Tail(q) = 1..Len(Tail(q)) /\ Head(q) = q[1]
    <3>1. q # <<>> /\ Len(q) > 0
      BY <1>0, <1>6, <2>1 DEF TakeNumber
    <3>2. /\ Tail(q) \in Seq(Number) /\ Len(Tail(q)) = Len(q) - 1
          /\ \A i \in 1..Len(Tail(q)) : Tail(q)[i] = q[i + 1]
      BY <3>1, HeadTailProperties
    <3>3. DOMAIN Tail(q) = 1..Len(Tail(q))
      BY <3>2, LenProperties
    <3>4. Head(q) = q[1]
      BY <3>1
    <3> QED
      BY <3>1, <3>2, <3>3, <3>4
  <2>3. /\ inbox'[b] = Tail(q) /\ badge'[b] = q[1].count
        /\ b \in late' <=> q[1].overtaken
    BY <1>6, <2>1, <2>2 DEF TakeNumber, Shows, TypeOK
  <2>4. b \in open
    BY <1>0, <2>1, <2>2 DEF BadgesBegin
  <2>5. ASSUME NEW i \in 1..Len(q), ~q[i].overtaken, q[i].count = OpenCount,
               \A j \in 1..Len(q) : j > i => q[j].overtaken
        PROVE  BadgeComes(b)'
    <3>1. CASE i = 1
      <4>1. \A j \in 1..(Len(q) - 1) : j + 1 \in 1..Len(q) /\ j + 1 > 1
        BY <1>0, <2>1
      <4>2. \A j \in DOMAIN Tail(q) : Tail(q)[j].overtaken
        BY <2>2, <2>5, <3>1, <4>1
      <4>3. badge'[b] = OpenCount'
        BY <1>0, <2>3, <2>5, <3>1
      <4> QED
        BY <2>3, <4>2, <4>3 DEF BadgeComes, ShownIsRight
    <3>2. CASE i # 1
      <4>1. i - 1 \in 1..(Len(q) - 1) /\ (i - 1) + 1 = i
        BY <1>0, <2>1, <3>2
      <4>2. /\ i - 1 \in DOMAIN Tail(q) /\ ~Tail(q)[i - 1].overtaken
            /\ Tail(q)[i - 1].count = OpenCount'
        BY <1>0, <2>2, <2>5, <4>1
      <4>3. ASSUME NEW j \in DOMAIN Tail(q), j > i - 1 PROVE Tail(q)[j].overtaken
        <5>1. j + 1 \in 1..Len(q) /\ j + 1 > i
          BY <1>0, <2>1, <2>2, <4>3
        <5> QED
          BY <2>2, <2>5, <5>1
      <4> QED
        BY <2>3, <4>2, <4>3 DEF BadgeComes, NewestIsRight
    <3> QED
      BY <3>1, <3>2
  <2>6. ASSUME \A i \in 1..Len(q) : q[i].overtaken PROVE BadgeComes(b)'
    <3>1. \A j \in 1..(Len(q) - 1) : j + 1 \in 1..Len(q)
      BY <1>0, <2>1
    <3>2. \A j \in DOMAIN Tail(q) : Tail(q)[j].overtaken
      BY <2>2, <2>6, <3>1
    <3>3. b \in late'
      BY <1>0, <2>1, <2>2, <2>3, <2>6
    <3> QED
      BY <2>3, <3>2, <3>3 DEF BadgeComes, ShownIsRight
  <2> QED
    BY <1>0, <2>1, <2>4, <2>5, <2>6 DEF BadgeComes, NewestIsRight
<1>7. CASE Disconnect(b)
  <2>1. /\ initial' = initial /\ badge' = badge /\ late' = late /\ b \in open
        /\ lost \subseteq lost'
    BY <1>7 DEF Disconnect
  <2>2. CASE inbox'[b] = inbox[b]
    BY <1>0, <2>1, <2>2 DEF BadgeComes, NewestIsRight, ShownIsRight
  <2>3. CASE inbox'[b] # inbox[b]
    <3>1. inbox'[b] = <<>> /\ b \in lost'
      BY <1>7, <2>3 DEF Disconnect
    <3>2. DOMAIN inbox'[b] = {}
      BY <3>1
    <3> QED
      BY <3>1, <3>2 DEF BadgeComes, ShownIsRight
  <2> QED
    BY <2>2, <2>3
<1> QED
  BY <1>1, <1>2, <1>4, <1>5, <1>6, <1>7 DEF BadgeStep

LEMMA FollowStep ==
    /\ TypeOK /\ TypeOK' /\ WritesAreMeant /\ CountedWait /\ FreshLast /\ LastCountIsRight
    /\ BadgesBegin /\ BadgeFollows /\ [Next]_vars
    => BadgeFollows'
<1> SUFFICES ASSUME TypeOK, TypeOK', WritesAreMeant, CountedWait, FreshLast, LastCountIsRight,
                    BadgesBegin, BadgeFollows, [Next]_vars,
                    NEW b \in Badges, b \in open', AllSent'
             PROVE  BadgeComes(b)'
  BY DEF BadgeFollows
<1>1. ASSUME status' = status, BadgeKept(b), BadgeComes(b) PROVE BadgeComes(b)'
  BY <1>1, CountSame DEF BadgeKept, BadgeComes, NewestIsRight, ShownIsRight
<1>2. CASE ServerKept /\ BadgeKept(b)
  <2>1. AllSent /\ status' = status
    BY <1>2 DEF AllSent, ServerKept, AllCounted
  <2> QED
    BY <1>1, <1>2, <2>1 DEF BadgeKept, BadgeFollows
<1>3. CASE ServerKept /\ (BadgeStep(b) \/ OpenBadge(b) \/ FailFirstCount(b) \/ Disconnect(b))
  <2>1. AllSent /\ status' = status
    BY <1>3 DEF AllSent, ServerKept, AllCounted
  <2> QED
    BY <1>3, <2>1, BadgeReacts DEF BadgeFollows
<1>4. ASSUME NEW r \in Requests, Proceeds(r) PROVE BadgeComes(b)'
  <2>1. AllSent /\ status' = status
    BY <1>4, AllCountedLater DEF AllSent, Proceeds
  <2>2. BadgeKept(b) /\ b \in open
    BY <1>4 DEF Proceeds, BadgeKept, badgeVars
  <2> QED
    BY <1>1, <2>1, <2>2 DEF BadgeFollows
<1>5. ASSUME NEW r \in Requests, CountOrders(r) PROVE FALSE
  <2>1. Len(counted') = Len(counted) + 1 /\ Len(counted) \in Nat
    BY <1>5, CountIs, Places
  <2>2. Len(counted') = 0
    BY DEF AllSent
  <2>3. PICK n \in Nat : n = Len(counted)
    BY <2>1
  <2>4. n + 1 = 0
    BY <2>1, <2>2, <2>3
  <2> QED
    BY <2>4
<1>6. ASSUME NEW r \in Requests, SendCount(r) PROVE BadgeComes(b)'
  <2>1. b \in open
    BY <1>6 DEF SendCount
  <2>2. CASE b \notin Missing
    BY <1>6, <2>1, <2>2, SendReaches
  <2>3. CASE b \in Missing
    <3>1. inbox'[b] = <<>>
      BY <1>6, <2>3, RequestsAndBadges DEF Missing, BadgesBegin
    <3>2. DOMAIN inbox'[b] = {} /\ b \in lost'
      BY <1>6, <2>3, <3>1 DEF SendCount
    <3> QED
      BY <3>2 DEF BadgeComes, ShownIsRight
  <2> QED
    BY <2>2, <2>3
<1>7. ASSUME NEW r \in Requests, Abort(r), pc[r] # "write" PROVE FALSE
  BY <1>7, AbortIs DEF AllSent
<1> QED
  BY <1>2, <1>3, <1>4, <1>5, <1>6, <1>7, BadgeCases DEF RequestSteps

-----------------------------------------------------------------------------
(* The lists.                                                              *)

\* Nothing happens to list s but that an order is picked.
ListKept(s) ==
    /\ fetches'[s] = fetches[s] /\ shown'[s] = shown[s]
    /\ s \in open' <=> s \in open
    /\ s \in late' <=> s \in late
    /\ s \in lost => s \in lost'
    /\ notices'[s] = notices[s]

\* List s asks for the orders.
ListAsks(s) ==
    /\ Len(fetches'[s]) = Len(fetches[s]) + 1
    /\ \A j \in 1..Len(fetches[s]) : fetches'[s][j] = fetches[s][j]
    /\ ~fetches'[s][Len(fetches'[s])].answered
    /\ ~fetches'[s][Len(fetches'[s])].overtaken

\* The places of the fetches that list s waits for.
LEMMA FetchPlaces ==
    ASSUME TypeOK, NEW s \in Lists
    PROVE  /\ Len(fetches[s]) \in Nat /\ DOMAIN fetches[s] = 1..Len(fetches[s])
           /\ \A i \in 1..Len(fetches[s]) :
                  /\ fetches[s][i] \in Fetch /\ fetches[s][i].overtaken \in BOOLEAN
                  /\ fetches[s][i].answered \in BOOLEAN
           /\ fetches[s] # <<>> <=> Len(fetches[s]) > 0
<1>1. PICK q \in Seq(Fetch) : q = fetches[s]
  BY DEF TypeOK
<1>2. Len(q) \in Nat /\ DOMAIN q = 1..Len(q) /\ \A i \in 1..Len(q) : q[i] \in Fetch
  BY LenProperties, ElementOfSeq
<1>3. q # <<>> <=> Len(q) > 0
  BY EmptySeq
<1>4. \A f \in Fetch : f.overtaken \in BOOLEAN /\ f.answered \in BOOLEAN
  BY DEF Fetch
<1> QED
  BY <1>1, <1>2, <1>3, <1>4

LEMMA FetchPlacesLater ==
    ASSUME TypeOK', NEW s \in Lists
    PROVE  /\ Len(fetches'[s]) \in Nat /\ DOMAIN fetches'[s] = 1..Len(fetches'[s])
           /\ fetches'[s] # <<>> <=> Len(fetches'[s]) > 0
<1>1. PICK q \in Seq(Fetch) : q = fetches'[s]
  BY DEF TypeOK
<1>2. Len(q) \in Nat /\ DOMAIN q = 1..Len(q)
  BY LenProperties
<1>3. q # <<>> <=> Len(q) > 0
  BY EmptySeq
<1> QED
  BY <1>1, <1>2, <1>3

\* The ways in which a step may concern list s.
LEMMA ListCases ==
    ASSUME TypeOK, WritesAreMeant, NEW s \in Lists, [Next]_vars
    PROVE  \/ RequestSteps
           \/ ServerKept /\ ListKept(s)
           \/ ServerKept /\ (OpenList(s) \/ ListStep(s) \/ Disconnect(s)
                               \/ \E i \in DOMAIN fetches[s] : FailFetch(s, i))
<1>0. s \notin Badges /\ fetches \in [Lists -> Seq(Fetch)]
  BY NullAssumption DEF TypeOK
<1>1. ASSUME NEW r \in Requests, Call(r) \/ Serve(r) \/ Abort(r) PROVE RequestSteps
  BY <1>1, RequestsProceed DEF Serve, RequestSteps
<1>2. ASSUME NEW x \in Lists, x # s, ListStep(x) \/ OpenList(x)
                                       \/ \E i \in DOMAIN fetches[x] : FailFetch(x, i)
      PROVE  ListKept(s)
  <2>1. CASE OpenList(x) \/ TakeNotice(x)
    BY <1>0, <1>2, <2>1, AskIs DEF OpenList, TakeNotice, TypeOK, ListKept
  <2>2. ASSUME NEW i \in DOMAIN fetches[x], AnswerFetch(x, i) \/ ShowOrders(x, i) PROVE ListKept(s)
    BY <1>0, <1>2, <2>2 DEF AnswerFetch, ShowOrders, TypeOK, ListKept
  <2>3. ASSUME NEW r \in Requests, FinishClick(x, r) PROVE ListKept(s)
    BY <1>0, <1>2, <2>3, AskIs DEF FinishClick, ListKept
  <2>4. ASSUME NEW i \in DOMAIN fetches[x], FailFetch(x, i) PROVE ListKept(s)
    BY <1>0, <1>2, <2>4 DEF FailFetch, ListKept
  <2> QED
    BY <1>2, <2>1, <2>2, <2>3, <2>4 DEF ListStep
<1>3. ASSUME NEW x \in Lists, NEW o \in Orders, Select(x, o) PROVE ListKept(s)
  BY <1>3 DEF Select, ListKept
<1>4. ASSUME NEW x \in Lists, ListStep(x) \/ User(x)
      PROVE  \/ RequestSteps
             \/ ServerKept /\ (ListKept(s) \/ ListStep(s) \/ OpenList(s))
  <2>1. ASSUME NEW r \in Requests, NEW to \in OrderStatus, ClickStatus(x, r, to) PROVE RequestSteps
    BY <2>1, RequestsProceed DEF RequestSteps
  <2>2. CASE x = s
    BY <1>3, <1>4, <2>1, <2>2, ScreensKeepServer DEF User
  <2>3. CASE x # s
    BY <1>2, <1>3, <1>4, <2>1, <2>3, ScreensKeepServer DEF User
  <2> QED
    BY <2>2, <2>3
<1>5. ASSUME NEW b \in Badges, BadgeStep(b) \/ OpenBadge(b) \/ FailFirstCount(b)
      PROVE  ServerKept /\ ListKept(s)
  <2>1. ListKept(s)
    <3>1. CASE OpenBadge(b) \/ AnswerCount(b)
      BY <1>0, <3>1 DEF OpenBadge, AnswerCount, listVars, ListKept
    <3>2. CASE ShowFirstCount(b) \/ TakeNumber(b)
      BY <1>0, <3>2 DEF ShowFirstCount, TakeNumber, Shows, listVars, ListKept
    <3>3. CASE FailFirstCount(b)
      BY <1>0, <3>3 DEF FailFirstCount, listVars, ListKept
    <3> QED
      BY <1>5, <3>1, <3>2, <3>3 DEF BadgeStep
  <2> QED
    BY <1>5, <2>1, ScreensKeepServer
<1>6. ASSUME NEW x \in Screens, Disconnect(x) \/ Reconnect(x)
      PROVE  ServerKept /\ (ListKept(s) \/ Disconnect(s))
  <2>1. ASSUME Disconnect(x), x # s PROVE ListKept(s)
    BY <2>1 DEF Disconnect, ListKept
  <2>2. ASSUME Reconnect(x) PROVE ListKept(s)
    BY <2>2 DEF Reconnect, listVars, ListKept
  <2> QED
    BY <1>6, <2>1, <2>2, ScreensKeepServer
<1>7. ASSUME NEW x \in Lists, NEW i \in DOMAIN fetches[x], FailFetch(x, i)
      PROVE  ServerKept /\ (ListKept(s) \/ (x = s /\ i \in DOMAIN fetches[s]))
  BY <1>2, <1>7, ScreensKeepServer
<1>8. CASE UNCHANGED vars
  <2>1. ListKept(s)
    BY <1>8 DEF vars, listVars, ListKept
  <2> QED
    BY <1>8, <2>1, ScreensKeepServer
<1>9. CASE Network
  BY <1>5, <1>6, <1>7, <1>9 DEF Network
<1> QED
  BY <1>1, <1>4, <1>5, <1>8, <1>9 DEF Next

\* Every step of list s asks, answers, shows, or does not matter.
LEMMA ListStepIs ==
    ASSUME TypeOK, NEW s \in Lists, OpenList(s) \/ ListStep(s)
    PROVE  ListAsks(s) \/ ListKept(s) \/ \E i \in DOMAIN fetches[s] : AnswerFetch(s, i) \/ ShowOrders(s, i)
<1>0. fetches \in [Lists -> Seq(Fetch)]
  BY DEF TypeOK
<1>1. CASE OpenList(s) \/ TakeNotice(s)
  BY <1>0, <1>1, AskIs DEF OpenList, TakeNotice, ListAsks
<1>2. ASSUME NEW r \in Requests, FinishClick(s, r) PROVE ListAsks(s) \/ ListKept(s)
  <2>1. CASE pc[r] = "done"
    BY <1>0, <1>2, <2>1, AskIs DEF FinishClick, ListAsks
  <2>2. CASE pc[r] # "done"
    BY <1>2, <2>2 DEF FinishClick, ListKept
  <2> QED
    BY <2>1, <2>2
<1> QED
  BY <1>1, <1>2 DEF ListStep

\* Answers come in: the places do not change, nor who was overtaken.
LEMMA AnswerIs ==
    ASSUME TypeOK, NEW s \in Lists, NEW i \in DOMAIN fetches[s], AnswerFetch(s, i)
    PROVE  /\ Len(fetches'[s]) = Len(fetches[s])
           /\ \A j \in 1..Len(fetches[s]) :
                  /\ fetches'[s][j].overtaken = fetches[s][j].overtaken
                  /\ j # i => fetches'[s][j] = fetches[s][j]
           /\ fetches'[s][i].view = OpenOrders
<1>1. PICK q \in Seq(Fetch) : q = fetches[s]
  BY DEF TypeOK
<1>2. DOMAIN q = 1..Len(q) /\ \A j \in 1..Len(q) : q[j] \in Fetch
  BY LenProperties, ElementOfSeq
<1>3. PICK f \in Fetch : f = q[i]
  BY <1>1, <1>2
<1>4. PICK v \in Views : v = OpenOrders
  BY OpenOrdersIsView
<1>5. LET new == [f EXCEPT !.answered = TRUE, !.view = v]
      IN  new \in Fetch /\ new.view = v /\ new.overtaken = f.overtaken
  BY AnswerKept
<1>6. fetches'[s] = [q EXCEPT ![i] = [f EXCEPT !.answered = TRUE, !.view = v]]
  BY <1>1, <1>3, <1>4 DEF AnswerFetch, TypeOK
<1>7. /\ Len([q EXCEPT ![i] = [f EXCEPT !.answered = TRUE, !.view = v]]) = Len(q)
      /\ \A j \in 1..Len(q) : [q EXCEPT ![i] = [f EXCEPT !.answered = TRUE, !.view = v]][j]
                                  = IF j = i THEN [f EXCEPT !.answered = TRUE, !.view = v] ELSE q[j]
  BY <1>1, <1>2, <1>5, ExceptSeq
<1> QED
  BY <1>1, <1>2, <1>3, <1>4, <1>5, <1>6, <1>7

\* An answer is shown: those before it are overtaken, those after it move up.
LEMMA ShowIs ==
    ASSUME TypeOK, NEW s \in Lists, NEW i \in DOMAIN fetches[s], ShowOrders(s, i)
    PROVE  /\ Len(fetches'[s]) = Len(fetches[s]) - 1
           /\ \A j \in 1..(Len(fetches[s]) - 1) :
                  IF j < i
                  THEN fetches'[s][j].overtaken
                  ELSE /\ fetches'[s][j].answered = fetches[s][j + 1].answered
                       /\ fetches'[s][j].view = fetches[s][j + 1].view
                       /\ fetches'[s][j].overtaken = fetches[s][j + 1].overtaken
<1>1. PICK q \in Seq(Fetch) : q = fetches[s]
  BY DEF TypeOK
<1>2. DOMAIN q = 1..Len(q)
  BY LenProperties
<1>3. fetches'[s] = WithoutAnswer(q, i)
  BY <1>1 DEF ShowOrders, TypeOK
<1>4. /\ Len(WithoutAnswer(q, i)) = Len(q) - 1
      /\ \A j \in 1..(Len(q) - 1) :
             LET f == WithoutAnswer(q, i)[j]
             IN  IF j < i
                 THEN f.overtaken
                 ELSE /\ f.answered = q[j + 1].answered /\ f.view = q[j + 1].view
                      /\ f.overtaken = q[j + 1].overtaken
  BY <1>1, <1>2, WithoutAnswerIs, ZenonT(30)
<1> HIDE DEF WithoutAnswer
<1> QED
  BY <1>1, <1>3, <1>4

LEMMA OvertakenStep ==
    TypeOK /\ TypeOK' /\ WritesAreMeant /\ OvertakenFirst /\ [Next]_vars => OvertakenFirst'
<1> SUFFICES ASSUME TypeOK, TypeOK', WritesAreMeant, OvertakenFirst, [Next]_vars,
                    NEW s \in Lists
             PROVE  \A i, j \in DOMAIN fetches'[s] :
                        i < j /\ fetches'[s][j].overtaken => fetches'[s][i].overtaken
  BY DEF OvertakenFirst
<1>0. /\ DOMAIN fetches[s] = 1..Len(fetches[s]) /\ DOMAIN fetches'[s] = 1..Len(fetches'[s])
      /\ Len(fetches[s]) \in Nat
      /\ \A i, j \in 1..Len(fetches[s]) :
             i < j /\ fetches[s][j].overtaken => fetches[s][i].overtaken
  BY FetchPlaces, FetchPlacesLater DEF OvertakenFirst
<1>1. CASE fetches'[s] = fetches[s]
  BY <1>0, <1>1
<1>2. CASE RequestSteps
  <2>1. ASSUME NEW r \in Requests, Proceeds(r) PROVE fetches' = fetches
    BY <2>1 DEF Proceeds
  <2>2. ASSUME NEW r \in Requests, CountOrders(r) \/ Abort(r) PROVE fetches' = fetches
    BY <2>2 DEF CountOrders, Abort, listVars
  <2>3. ASSUME NEW r \in Requests, SendCount(r) PROVE fetches' = fetches
    BY <2>3 DEF SendCount
  <2> QED
    BY <1>1, <1>2, <2>1, <2>2, <2>3 DEF RequestSteps
<1>3. CASE ListKept(s)
  BY <1>1, <1>3 DEF ListKept
<1>4. CASE Disconnect(s)
  BY <1>1, <1>4 DEF Disconnect
<1>5. CASE ListAsks(s)
  <2>1. \A i \in 1..Len(fetches'[s]) :
            i \in 1..Len(fetches[s]) \/ i = Len(fetches[s]) + 1
    BY <1>0, <1>5 DEF ListAsks
  <2>2. ~fetches'[s][Len(fetches[s]) + 1].overtaken
    BY <1>5 DEF ListAsks
  <2>3. ASSUME NEW i \in 1..Len(fetches'[s]), NEW j \in 1..Len(fetches'[s]), i < j,
               fetches'[s][j].overtaken
        PROVE  fetches'[s][i].overtaken
    <3>1. j \in 1..Len(fetches[s])
      BY <2>1, <2>2, <2>3
    <3>2. i \in 1..Len(fetches[s])
      BY <1>0, <2>3, <3>1
    <3> QED
      BY <1>0, <1>5, <2>3, <3>1, <3>2 DEF ListAsks
  <2> QED
    BY <1>0, <2>3
<1>6. ASSUME NEW i \in DOMAIN fetches[s], AnswerFetch(s, i)
      PROVE  \A k, j \in DOMAIN fetches'[s] :
                 k < j /\ fetches'[s][j].overtaken => fetches'[s][k].overtaken
  BY <1>0, <1>6, AnswerIs
<1>7. ASSUME NEW i \in DOMAIN fetches[s], ShowOrders(s, i),
             NEW k \in DOMAIN fetches'[s], NEW j \in DOMAIN fetches'[s], k < j,
             fetches'[s][j].overtaken
      PROVE  fetches'[s][k].overtaken
  <2>1. k \in 1..(Len(fetches[s]) - 1) /\ j \in 1..(Len(fetches[s]) - 1)
    BY <1>0, <1>7, ShowIs
  <2>2. CASE k < i
    BY <1>7, <2>1, <2>2, ShowIs
  <2>3. CASE ~(k < i)
    <3>1. ~(j < i) /\ k + 1 \in 1..Len(fetches[s]) /\ j + 1 \in 1..Len(fetches[s]) /\ k + 1 < j + 1
      BY <1>0, <1>7, <2>1, <2>3
    <3>2. fetches'[s][j].overtaken = fetches[s][j + 1].overtaken
      BY <1>7, <2>1, <3>1, ShowIs
    <3>3. fetches'[s][k].overtaken = fetches[s][k + 1].overtaken
      BY <1>7, <2>1, <2>3, ShowIs
    <3> QED
      BY <1>0, <1>7, <3>1, <3>2, <3>3
  <2> QED
    BY <2>2, <2>3
<1>8. ASSUME NEW i \in DOMAIN fetches[s], FailFetch(s, i),
             NEW k \in DOMAIN fetches'[s], NEW j \in DOMAIN fetches'[s], k < j,
             fetches'[s][j].overtaken
      PROVE  fetches'[s][k].overtaken
  <2>1. PICK q \in Seq(Fetch) : q = fetches[s]
    BY DEF TypeOK
  <2>2. fetches'[s] = RemoveAt(q, i)
    BY <1>8, <2>1 DEF FailFetch, TypeOK
  <2>3. /\ Len(RemoveAt(q, i)) = Len(q) - 1
        /\ \A x \in 1..(Len(q) - 1) : RemoveAt(q, i)[x] = IF x < i THEN q[x] ELSE q[x + 1]
    <3>1. i \in 1..Len(q)
      BY <1>0, <2>1
    <3> QED
      BY <3>1, RemoveAtIs
  <2>4. k \in 1..(Len(q) - 1) /\ j \in 1..(Len(q) - 1)
    BY <1>0, <2>2, <2>3
  <2>5. PICK k_ \in 1..Len(q), j_ \in 1..Len(q) :
            k_ = (IF k < i THEN k ELSE k + 1) /\ j_ = (IF j < i THEN j ELSE j + 1)
    <3>1. PICK n \in Nat : n = Len(q)
      BY <1>0, <2>1
    <3>2. k \in 1..n /\ k + 1 \in 1..n /\ j \in 1..n /\ j + 1 \in 1..n
      BY <2>4, <3>1
    <3> QED
      BY <3>1, <3>2
  <2>6. k_ < j_
    BY <1>0, <1>8, <2>1, <2>4, <2>5
  <2>7. fetches'[s][k] = q[k_] /\ fetches'[s][j] = q[j_]
    BY <2>2, <2>3, <2>4, <2>5
  <2> QED
    BY <1>0, <1>8, <2>1, <2>6, <2>7
<1> QED
  BY <1>2, <1>3, <1>4, <1>5, <1>6, <1>7, <1>8, ListCases, ListStepIs

LEMMA ListsStep ==
    /\ TypeOK /\ TypeOK' /\ WritesAreMeant /\ OvertakenFirst /\ ListFollows /\ [Next]_vars
    => ListFollows'
<1> SUFFICES ASSUME TypeOK, TypeOK', WritesAreMeant, OvertakenFirst, ListFollows, [Next]_vars,
                    NEW s \in Lists, s \in open', s \notin lost', HeardAll(s)'
             PROVE  ListComes(s)'
  BY DEF ListFollows
<1>0. /\ DOMAIN fetches[s] = 1..Len(fetches[s]) /\ Len(fetches[s]) \in Nat
      /\ fetches[s] # <<>> <=> Len(fetches[s]) > 0
      /\ DOMAIN fetches'[s] = 1..Len(fetches'[s]) /\ Len(fetches'[s]) \in Nat
      /\ fetches'[s] # <<>> <=> Len(fetches'[s]) > 0
      /\ \A i \in 1..Len(fetches[s]) : fetches[s][i].overtaken \in BOOLEAN
  BY FetchPlaces, FetchPlacesLater
<1>1. ASSUME status' = status, ListKept(s), s \in open, s \notin lost, HeardAll(s)
      PROVE  ListComes(s)'
  <2>1. OpenOrders' = OpenOrders
    BY <1>1, CountSame
  <2>2. ListComes(s)
    BY <1>1 DEF ListFollows
  <2>3. PICK q, v : q = fetches[s] /\ v = OpenOrders
    OBVIOUS
  <2> QED
    BY <1>1, <2>1, <2>2, <2>3 DEF ListKept, ListComes
<1>2. CASE RequestSteps
  <2>1. ASSUME NEW r \in Requests, Proceeds(r) PROVE ListComes(s)'
    <3>1. pc'[r] \notin {"rest", "count", "send"}
      BY DEF HeardAll
    <3>2. status' = status /\ notices' = notices /\ HeardAll(s)
      BY <2>1, <3>1 DEF Proceeds, HeardAll
    <3>3. ListKept(s)
      BY <2>1, <3>2 DEF Proceeds, ListKept
    <3> QED
      BY <1>1, <2>1, <3>2, <3>3 DEF Proceeds
  <2>2. ASSUME NEW r \in Requests, CountOrders(r) PROVE FALSE
    BY <2>2, CountIs DEF HeardAll
  <2>3. ASSUME NEW r \in Requests, SendCount(r) PROVE FALSE
    <3>1. s \in open \cap online
      BY <2>3 DEF SendCount, Missing
    <3>2. notices'[s] = notices[s] + 1 /\ notices[s] \in Nat
      BY <2>3, <3>1 DEF SendCount, NoticeToLists, TypeOK
    <3> QED
      BY <3>2 DEF HeardAll
  <2>4. ASSUME NEW r \in Requests, Abort(r), pc[r] # "write" PROVE FALSE
    BY <2>4, AbortIs DEF HeardAll
  <2> QED
    BY <1>2, <2>1, <2>2, <2>3, <2>4 DEF RequestSteps
<1>3. CASE ListAsks(s)
  <2>1. fetches'[s] # <<>>
    BY <1>0, <1>3 DEF ListAsks
  <2> QED
    BY <1>3, <2>1 DEF ListAsks, ListComes
<1>4. CASE ServerKept /\ ListKept(s)
  <2>1. status' = status /\ HeardAll(s) /\ s \in open /\ s \notin lost
    BY <1>4 DEF ServerKept, ListKept, HeardAll
  <2> QED
    BY <1>1, <1>4, <2>1
<1>5. CASE ServerKept /\ Disconnect(s)
  <2>1. notices' = notices /\ lost' = lost
    BY <1>5 DEF Disconnect
  <2>2. ListKept(s)
    BY <1>5, <2>1 DEF Disconnect, ListKept
  <2> QED
    BY <1>4, <1>5, <2>2
<1>6. ASSUME NEW i \in DOMAIN fetches[s], AnswerFetch(s, i) \/ ShowOrders(s, i), ServerKept
      PROVE  status' = status /\ OpenOrders' = OpenOrders /\ ListComes(s)
  <2>1. notices' = notices /\ open' = open /\ lost' = lost
    BY <1>6 DEF AnswerFetch, ShowOrders
  <2>2. HeardAll(s) /\ status' = status
    BY <1>6, <2>1 DEF ServerKept, HeardAll
  <2> QED
    BY <2>1, <2>2, CountSame DEF ListFollows
<1>7. ASSUME NEW i \in DOMAIN fetches[s], AnswerFetch(s, i), ServerKept PROVE ListComes(s)'
  <2>1. /\ Len(fetches'[s]) = Len(fetches[s]) /\ Len(fetches[s]) \in 1..Len(fetches[s])
        /\ fetches'[s] # <<>> /\ fetches[s] # <<>>
        /\ shown' = shown /\ late' = late
    <3>1. Len(fetches[s]) > 0
      BY <1>0, <1>7
    <3>2. Len(fetches'[s]) = Len(fetches[s])
      BY <1>7, AnswerIs
    <3> QED
      BY <1>0, <1>7, <3>1, <3>2 DEF AnswerFetch
  <2>2. PICK n \in 1..Len(fetches[s]) : n = Len(fetches[s])
    BY <2>1
  <2>3. fetches'[s][n].overtaken = fetches[s][n].overtaken
    BY <1>7, AnswerIs
  <2>4. /\ n = i => fetches'[s][n].view = OpenOrders
        /\ n # i => fetches'[s][n] = fetches[s][n]
    BY <1>7, AnswerIs
  <2>5. OpenOrders' = OpenOrders /\ ListComes(s)
    BY <1>6, <1>7
  <2> QED
    BY <2>1, <2>2, <2>3, <2>4, <2>5 DEF ListComes
<1>8. ASSUME NEW i \in DOMAIN fetches[s], ShowOrders(s, i), ServerKept PROVE ListComes(s)'
  <2>1. OpenOrders' = OpenOrders /\ ListComes(s)
    BY <1>6, <1>8
  <2>2. PICK n \in Nat : n = Len(fetches[s])
    BY <1>0
  <2>3. n > 0 /\ i \in 1..n /\ fetches[s] # <<>> /\ Len(fetches'[s]) = n - 1
    BY <1>0, <1>8, <2>2, ShowIs
  <2>4. /\ fetches[s][i].answered /\ shown'[s] = fetches[s][i].view
        /\ fetches[s][i].overtaken => s \in late'
    BY <1>8 DEF ShowOrders, TypeOK
  <2>5. CASE fetches[s][n].overtaken
    <3>1. fetches[s][i].overtaken
      BY <1>0, <2>2, <2>3, <2>5 DEF OvertakenFirst
    <3>2. ASSUME n - 1 > 0 PROVE fetches'[s][n - 1].overtaken
      <4>1. n - 1 \in 1..(n - 1) /\ (n - 1) + 1 = n
        BY <3>2
      <4>2. CASE n - 1 < i
        BY <1>8, <2>2, <4>1, <4>2, ShowIs
      <4>3. CASE ~(n - 1 < i)
        BY <1>8, <2>2, <2>5, <4>1, <4>3, ShowIs
      <4> QED
        BY <4>2, <4>3
    <3> QED
      BY <1>0, <2>3, <2>4, <3>1, <3>2 DEF ListComes
  <2>6. CASE ~fetches[s][n].overtaken
    <3>1. fetches[s][n].answered => fetches[s][n].view = OpenOrders
      BY <2>1, <2>2, <2>3, <2>6 DEF ListComes
    <3>2. CASE i = n
      <4>1. shown'[s] = OpenOrders'
        BY <2>1, <2>4, <3>1, <3>2
      <4>2. ASSUME n - 1 > 0 PROVE fetches'[s][n - 1].overtaken
        <5>1. n - 1 \in 1..(n - 1) /\ n - 1 < i
          BY <3>2, <4>2
        <5> QED
          BY <1>8, <2>2, <5>1, ShowIs
      <4> QED
        BY <1>0, <2>3, <4>1, <4>2 DEF ListComes
    <3>3. CASE i # n
      <4>1. n - 1 \in 1..(n - 1) /\ ~(n - 1 < i) /\ (n - 1) + 1 = n /\ n - 1 > 0
        BY <2>3, <3>3
      <4>2. /\ fetches'[s][n - 1].answered = fetches[s][n].answered
            /\ fetches'[s][n - 1].view = fetches[s][n].view
            /\ fetches'[s][n - 1].overtaken = fetches[s][n].overtaken
        <5>1. PICK m \in 1..(n - 1) : m = n - 1 /\ m + 1 = n /\ ~(m < i)
          BY <4>1
        <5>2. /\ fetches'[s][m].answered = fetches[s][m + 1].answered
              /\ fetches'[s][m].view = fetches[s][m + 1].view
              /\ fetches'[s][m].overtaken = fetches[s][m + 1].overtaken
          BY <1>8, <2>2, <5>1, ShowIs
        <5> QED
          BY <5>1, <5>2
      <4> QED
        BY <1>0, <2>1, <2>3, <2>6, <3>1, <4>1, <4>2 DEF ListComes
    <3> QED
      BY <3>2, <3>3
  <2> QED
    BY <2>5, <2>6
<1>9. ASSUME NEW i \in DOMAIN fetches[s], FailFetch(s, i) PROVE FALSE
  BY <1>9 DEF FailFetch
<1> QED
  BY <1>2, <1>3, <1>4, <1>5, <1>7, <1>8, <1>9, ListCases, ListStepIs

-----------------------------------------------------------------------------
(* The invariant and what follows from it.                                 *)

\* The board begins with nothing open, asked for or on its way.
LEMMA InitInvariant == Init => IInv
<1> SUFFICES ASSUME Init PROVE IInv
  OBVIOUS
<1>0. counted = <<>> /\ \A b \in Badges : inbox[b] = <<>>
  BY DEF Init
<1>1. TypeOK
  <2>1. loc \in [Requests -> Local]
    <3> DEFINE row == [order |-> NoOrder, to |-> "new", list |-> NoList,
                       others |-> {}, count |-> 0, fresh |-> FALSE]
    <3>1. row \in Local
      BY BoundAssumption DEF Local
    <3> QED
      BY <3>1 DEF Init
  <2>2. initial \in [Badges -> FirstFetch]
    <3> DEFINE row == [state |-> "none", count |-> 0, overtaken |-> FALSE]
    <3>1. row \in FirstFetch
      BY BoundAssumption DEF FirstFetch
    <3> QED
      BY <3>1 DEF Init
  <2>3. fetches \in [Lists -> Seq(Fetch)] /\ inbox \in [Badges -> Seq(Number)] /\ counted \in Seq(Requests)
    <3>1. <<>> \in Seq(Fetch) /\ <<>> \in Seq(Number) /\ <<>> \in Seq(Requests)
      BY EmptySeq
    <3> QED
      BY <3>1 DEF Init
  <2>4. status \in [Orders -> OrderStatus \cup {"absent", "deleted"}]
    BY DEF Init, OrderStatus
  <2>5. pc \in [Requests -> Labels] /\ shown \in [Lists -> Views]
    BY DEF Init, Labels, Views
  <2>6. drops \in 0..MaxDrops
    BY BoundAssumption DEF Init
  <2>7. /\ open \subseteq Screens /\ online \subseteq Screens /\ notices \in [Lists -> Nat]
        /\ selected \in [Lists -> Orders \cup {NoOrder}]
        /\ badge \in [Badges -> 0..MaxOrders \cup {NoCount}]
        /\ silent \in BOOLEAN /\ lost \subseteq Screens /\ late \subseteq Screens
    BY DEF Init
  <2> QED
    BY <2>1, <2>2, <2>3, <2>4, <2>5, <2>6, <2>7 DEF TypeOK
<1>2. WritesAreMeant
  BY DEF Init, WritesAreMeant
<1>3. OvertakenFirst
  <2>1. \A s \in Lists : DOMAIN fetches[s] = {}
    <3>1. \A s \in Lists : fetches[s] = <<>>
      BY DEF Init
    <3> QED
      BY <3>1
  <2> QED
    BY <2>1 DEF OvertakenFirst
<1>4. ListFollows /\ BadgeFollows
  BY DEF Init, ListFollows, BadgeFollows
<1>5. CountedWait /\ FreshLast /\ LastCountIsRight
  <2>1. DOMAIN counted = {}
    BY <1>0
  <2>2. \A r \in Requests : pc[r] # "send"
    BY DEF Init
  <2> QED
    BY <1>0, <2>1, <2>2 DEF CountedWait, FreshLast, LastCountIsRight
<1>6. BadgesBegin
  BY <1>0 DEF Init, BadgesBegin
<1> QED
  BY <1>1, <1>2, <1>3, <1>4, <1>5, <1>6 DEF IInv

\* The inductive invariant holds for good.
THEOREM Invariant == Spec => []IInv
<1>1. IInv /\ [Next]_vars => TypeOK'
  BY TypesKept DEF IInv
<1>2. IInv /\ [Next]_vars => IInv'
  BY <1>1, WritesStep, CountedStep, FreshStep, LastStep, BeginStep, FollowStep,
     OvertakenStep, ListsStep DEF IInv
<1> QED
  BY <1>2, InitInvariant, PTL DEF Spec

\* Every variable keeps its type.
THEOREM TypeCorrect == Spec => []TypeOK
<1>1. IInv => TypeOK
  BY DEF IInv
<1> QED
  BY <1>1, Invariant, PTL

\* Once no change is being served and everything was announced, a kitchen list
\* that missed nothing since the last notice that it heard, and whose last answer
\* was not overtaken, shows the first page of open orders as they are, for a page
\* of any size and whatever the order in which the answers of its fetches came
\* (create, updateStatus, remove, fetchOrders).
THEOREM ListsAreRight == Spec => []ListIsRight
<1>1. IInv => ListIsRight
  <2> SUFFICES ASSUME IInv, NEW s \in Lists, s \in open, s \notin lost, s \notin late,
                      Settled, notices[s] = 0, fetches[s] = <<>>
               PROVE  shown[s] = OpenOrders
    BY DEF ListIsRight
  <2>1. HeardAll(s)
    BY DEF Settled, InFlight, Suspended, HeardAll
  <2>2. ListComes(s)
    BY <2>1 DEF IInv, ListFollows
  <2> QED
    BY <2>2 DEF ListComes
<1> QED
  BY <1>1, Invariant, PTL

\* Once no change is being served and everything was announced, a badge that
\* missed nothing since the last number that it took, and to which no number came
\* after one that was counted later, shows how many orders are open, in whatever order the requests counted
\* and sent (broadcastProcessOrderCount, fetchInitialCount).
THEOREM BadgesAreRight == Spec => []BadgeIsRight
<1>1. IInv => BadgeIsRight
  <2> SUFFICES ASSUME IInv, NEW b \in Badges, b \in open, b \notin lost, b \notin late,
                      Settled, inbox[b] = <<>>, initial[b].state = "none"
               PROVE  badge[b] = OpenCount
    BY DEF BadgeIsRight
  <2>1. AllCounted /\ ~silent /\ \A r \in Requests : pc[r] # "send"
    BY DEF Settled, InFlight, Suspended, AllCounted
  <2>2. counted = <<>>
    <3>1. /\ Len(counted) \in Nat /\ DOMAIN counted = 1..Len(counted)
          /\ \A i \in DOMAIN counted : counted[i] \in Requests /\ pc[counted[i]] = "send"
          /\ counted # <<>> <=> Len(counted) > 0
      BY Places DEF IInv, CountedWait
    <3>2. ASSUME counted # <<>> PROVE FALSE
      <4>1. 1 \in DOMAIN counted
        BY <3>1, <3>2
      <4> QED
        BY <2>1, <3>1, <4>1
    <3> QED
      BY <3>2
  <2>3. BadgeComes(b)
    BY <2>1, <2>2 DEF IInv, BadgeFollows, AllSent
  <2>4. ~NewestIsRight(inbox[b])
    <3>1. DOMAIN inbox[b] = {}
      OBVIOUS
    <3> QED
      BY <3>1 DEF NewestIsRight
  <2> QED
    BY <2>3, <2>4 DEF BadgeComes, ShownIsRight
<1> QED
  BY <1>1, Invariant, PTL
=============================================================================
