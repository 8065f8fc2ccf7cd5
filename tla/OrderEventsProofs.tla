-------------------------- MODULE OrderEventsProofs --------------------------
(***************************************************************************)
(* Proofs about OrderEvents, for any number of orders and any bounds: no   *)
(* accepted event is lost, the consumption queue is an at-least-once work  *)
(* queue, and no order gets more work than its completions and failures    *)
(* account for.                                                            *)
(***************************************************************************)
EXTENDS OrderEvents, FiniteSetTheorems, SequenceTheorems, TLAPS

-----------------------------------------------------------------------------
(* How often an order occurs in a queue.                                   *)

Occurrences(s, o) == Cardinality(Places(s, o))

\* The places of an order in a queue are finitely many.
LEMMA PlacesFinite ==
    ASSUME NEW s \in Seq(Orders), NEW o
    PROVE  IsFiniteSet(Places(s, o)) /\ Occurrences(s, o) \in Nat
<1>1. Len(s) \in Nat
  BY LenProperties
<1>2. IsFiniteSet(1..Len(s))
  BY <1>1, FS_Interval
<1>3. Places(s, o) \in SUBSET (1..Len(s))
  BY DEF Places
<1>4. IsFiniteSet(Places(s, o))
  BY <1>2, <1>3, FS_Subset
<1> QED
  BY <1>4, FS_CardinalityType DEF Occurrences

\* Nothing occurs in an empty queue.
LEMMA OccurrencesEmpty ==
    ASSUME NEW o
    PROVE  Occurrences(<<>>, o) = 0
<1>1. Places(<<>>, o) = {}
  BY DEF Places
<1> QED
  BY <1>1, FS_EmptySet DEF Occurrences

\* An event at the end of a queue is one more occurrence of its order.
LEMMA OccurrencesAppend ==
    ASSUME NEW s \in Seq(Orders), NEW e \in Orders, NEW o
    PROVE  Occurrences(Append(s, e), o) = Occurrences(s, o) + (IF e = o THEN 1 ELSE 0)
<1>1. /\ Len(s) \in Nat
      /\ Len(Append(s, e)) = Len(s) + 1
      /\ \A i \in 1..Len(s) : Append(s, e)[i] = s[i]
      /\ Append(s, e)[Len(s) + 1] = e
  BY AppendProperties, LenProperties
<1>2. CASE e = o
  <2>1. Places(Append(s, e), o) = Places(s, o) \cup {Len(s) + 1}
    BY <1>1, <1>2 DEF Places
  <2>2. Len(s) + 1 \notin Places(s, o)
    BY <1>1 DEF Places
  <2> QED
    BY <1>2, <2>1, <2>2, PlacesFinite, FS_AddElement DEF Occurrences
<1>3. CASE e # o
  <2>1. Places(Append(s, e), o) = Places(s, o)
    BY <1>1, <1>3 DEF Places
  <2> QED
    BY <1>3, <2>1, PlacesFinite DEF Occurrences
<1> QED
  BY <1>2, <1>3

\* So is an event at the head of a queue.
LEMMA OccurrencesCons ==
    ASSUME NEW s \in Seq(Orders), NEW e \in Orders, NEW o
    PROVE  Occurrences(<<e>> \o s, o) = Occurrences(s, o) + (IF e = o THEN 1 ELSE 0)
<1> DEFINE t == <<e>> \o s
           Moved == {i + 1 : i \in Places(s, o)}
<1>1. Len(s) \in Nat /\ <<e>> \in Seq(Orders) /\ Len(<<e>>) = 1 /\ <<e>>[1] = e
  BY LenProperties
<1>2. /\ Len(t) = Len(s) + 1
      /\ \A i \in 1..(Len(s) + 1) : t[i] = IF i <= 1 THEN <<e>>[i] ELSE s[i - 1]
  <2>1. /\ Len(t) = Len(<<e>>) + Len(s)
        /\ \A i \in 1..(Len(<<e>>) + Len(s)) :
              t[i] = IF i <= Len(<<e>>) THEN <<e>>[i] ELSE s[i - Len(<<e>>)]
    BY <1>1, ConcatProperties
  <2> QED
    BY <1>1, <2>1
<1> HIDE DEF t
<1>3. t[1] = e /\ \A i \in 1..Len(s) : t[i + 1] = s[i]
  BY <1>1, <1>2
<1>4. IsFiniteSet(Moved) /\ Cardinality(Moved) = Occurrences(s, o)
  <2> DEFINE f == [i \in Places(s, o) |-> i + 1]
  <2>1. f \in Bijection(Places(s, o), Moved)
    <3>1. f \in [Places(s, o) -> Moved]
      OBVIOUS
    <3>2. \A a, b \in Places(s, o) : f[a] = f[b] => a = b
      BY <1>1 DEF Places
    <3>3. \A m \in Moved : \E i \in Places(s, o) : f[i] = m
      OBVIOUS
    <3> QED
      BY <3>1, <3>2, <3>3 DEF Bijection, Injection, Surjection, IsInjective
  <2>2. ExistsBijection(Places(s, o), Moved)
    BY <2>1 DEF ExistsBijection
  <2> QED
    BY <2>2, PlacesFinite, FS_Bijection DEF Occurrences
<1>5. CASE e = o
  <2>1. Places(t, o) = Moved \cup {1}
    <3>1. ASSUME NEW i \in Places(t, o), i # 1 PROVE i \in Moved
      <4>1. i \in 2..(Len(s) + 1) /\ t[i] = o
        BY <1>1, <1>2, <3>1 DEF Places
      <4>2. i - 1 \in 1..Len(s) /\ s[i - 1] = o /\ i = (i - 1) + 1
        BY <1>1, <1>2, <4>1
      <4> QED
        BY <4>2 DEF Places
    <3>2. 1 \in Places(t, o)
      BY <1>1, <1>2, <1>3, <1>5 DEF Places
    <3>3. ASSUME NEW i \in Places(s, o) PROVE i + 1 \in Places(t, o)
      BY <1>1, <1>2, <1>3, <3>3 DEF Places
    <3> QED
      BY <3>1, <3>2, <3>3
  <2>2. 1 \notin Moved
    BY <1>1 DEF Places
  <2> QED
    BY <1>4, <1>5, <2>1, <2>2, FS_AddElement DEF Occurrences, t
<1>6. CASE e # o
  <2>1. Places(t, o) = Moved
    <3>1. ASSUME NEW i \in Places(t, o) PROVE i \in Moved
      <4>1. i - 1 \in Places(s, o) /\ i = (i - 1) + 1
        BY <1>1, <1>2, <1>3, <1>6, <3>1 DEF Places
      <4> QED
        BY <4>1
    <3>2. Moved \subseteq Places(t, o)
      BY <1>1, <1>2, <1>3 DEF Places
    <3> QED
      BY <3>1, <3>2
  <2>2. Occurrences(t, o) = Occurrences(s, o)
    BY <1>4, <2>1, Zenon DEF Occurrences
  <2>3. Occurrences(s, o) = Occurrences(s, o) + 0
    BY PlacesFinite
  <2> QED
    BY <1>6, <2>2, <2>3 DEF t
<1> QED
  BY <1>5, <1>6

\* Taking the head of a queue is one occurrence less.
LEMMA OccurrencesTail ==
    ASSUME NEW s \in Seq(Orders), s # <<>>, NEW o
    PROVE  /\ Head(s) \in Orders /\ Tail(s) \in Seq(Orders)
           /\ Occurrences(s, o) = Occurrences(Tail(s), o) + (IF Head(s) = o THEN 1 ELSE 0)
<1>1. Head(s) \in Orders /\ Tail(s) \in Seq(Orders)
  BY HeadTailProperties
<1>2. s = <<Head(s)>> \o Tail(s)
  OBVIOUS
<1>3. Occurrences(<<Head(s)>> \o Tail(s), o)
        = Occurrences(Tail(s), o) + (IF Head(s) = o THEN 1 ELSE 0)
  BY <1>1, OccurrencesCons
<1> QED
  BY <1>1, <1>2, <1>3, Zenon

-----------------------------------------------------------------------------
(* Updates of the tables.                                                  *)

\* One cell of a table of counters is replaced.
LEMMA CounterUpdate ==
    ASSUME NEW c \in Counter, NEW q \in Queues, NEW o \in Orders, NEW n \in Nat
    PROVE  /\ [c EXCEPT ![q][o] = n] \in Counter
           /\ \A p \in Queues, x \in Orders :
                [c EXCEPT ![q][o] = n][p][x] = IF p = q /\ x = o THEN n ELSE c[p][x]
<1> DEFINE line == [c[q] EXCEPT ![o] = n]
<1>1. line \in [Orders -> Nat] /\ \A x \in Orders : line[x] = IF x = o THEN n ELSE c[q][x]
  BY DEF Counter
<1>2. [c EXCEPT ![q][o] = n] = [c EXCEPT ![q] = line]
  OBVIOUS
<1> HIDE DEF line
<1> QED
  BY <1>1, <1>2 DEF Counter

\* The stage of one job is replaced.
LEMMA EnterUpdate ==
    ASSUME NEW q \in Queues, NEW stage \in Stages, job \in [Queues -> Job], Enter(q, stage)
    PROVE  /\ job' \in [Queues -> Job]
           /\ job'[q].stage = stage
           /\ \A p \in Queues : /\ job'[p].order = job[p].order
                                /\ job'[p].edition = job[p].edition
                                /\ p # q => job'[p] = job[p]
<1> DEFINE row == [job[q] EXCEPT !.stage = stage]
<1>1. /\ row \in Job /\ row.stage = stage /\ row.order = job[q].order
      /\ row.edition = job[q].edition
  BY DEF Job
<1>2. job' = [job EXCEPT ![q] = row]
  BY DEF Enter
<1> HIDE DEF row
<1> QED
  BY <1>1, <1>2

\* An event that is put back is an event more in its queue.
LEMMA PutBackUpdate ==
    ASSUME NEW q \in Queues, queue \in [Queues -> Seq(Orders)], job[q].order \in Orders,
           PutBack(q)
    PROVE  /\ queue' \in [Queues -> Seq(Orders)]
           /\ \A p \in Queues : p # q => queue'[p] = queue[p]
           /\ \A o : Occurrences(queue'[q], o)
                       = Occurrences(queue[q], o) + (IF job[q].order = o THEN 1 ELSE 0)
<1> DEFINE e == job[q].order
           s == queue[q]
           t == <<e>> \o s
<1>1. e \in Orders /\ s \in Seq(Orders)
  OBVIOUS
<1>2. t \in Seq(Orders)
  BY <1>1, ConcatProperties
<1>3. \A o : Occurrences(t, o) = Occurrences(s, o) + (IF e = o THEN 1 ELSE 0)
  BY <1>1, OccurrencesCons
<1>4. queue' = [queue EXCEPT ![q] = t]
  BY DEF PutBack
<1> HIDE DEF t
<1>5. queue' \in [Queues -> Seq(Orders)] /\ queue'[q] = t
      /\ \A p \in Queues : p # q => queue'[p] = queue[p]
  BY <1>2, <1>4
<1> QED
  BY <1>3, <1>5

-----------------------------------------------------------------------------
(* The inductive invariant.                                                *)

\* The process holds an event of a queue exactly while a handler runs.
JobInv == \A q \in Queues : (job[q].stage = "idle") <=> (job[q].order \notin Orders)

\* Rows are stored, or found not to be due, before the event is acknowledged,
\* and the job that has done so accounts for one time more than the
\* acknowledgements.
BatchPrecedesAck ==
    \A o \in Orders :
        acked["consumption"][o]
          + (IF job["consumption"].stage = "finished" /\ job["consumption"].order = o
             THEN 1 ELSE 0) <= batches[o] + passes[o]

\* Events tell of completions, and the items of an order only move on.
EventsFollowCompletion ==
    /\ \A q \in Queues, o \in Orders :
         outbox[q][o] > 0 \/ published[q][o] > 0 => completions[o] > 0
    /\ \A o \in Orders : completions[o] > 0 => since[o] <= order[o].edition
    /\ \A o \in Orders :
         job["consumption"].stage = "prepared" /\ job["consumption"].order = o
           => since[o] <= job["consumption"].edition

IInv ==
    /\ TypeOK
    /\ JobInv
    /\ NoEventIsLost
    /\ BatchPrecedesAck
    /\ EventsFollowCompletion
    /\ RowsFollowCompletion

\* The order is read and something is to be stored, or nothing is.
FindLines ==
    LET c == "consumption" IN
    /\ ReadOrderLines
    /\ job' = [job EXCEPT ![c] =
                 [@ EXCEPT !.stage = "prepared", !.edition = order[job[c].order].edition]]
    /\ UNCHANGED <<queue, passes>>

FindNothing ==
    LET c == "consumption" IN
    /\ ReadOrderLines
    /\ Enter(c, "finished")
    /\ passes' = [passes EXCEPT ![job[c].order] = @ + 1]
    /\ UNCHANGED queue

FindNoOrder ==
    /\ ReadOrderLines
    /\ PutBack("consumption")
    /\ job' = [job EXCEPT !["consumption"] = NoJob]
    /\ UNCHANGED passes

LEMMA ReadCases == ReadOrderLines => FindLines \/ FindNothing \/ FindNoOrder
BY DEF ReadOrderLines, FindLines, FindNothing, FindNoOrder

\* Nothing has happened before the first call.
LEMMA InitInvariant == Init => IInv
<1> SUFFICES ASSUME Init PROVE IInv
  OBVIOUS
<1>1. NoJob \in Job /\ NoJob.stage = "idle" /\ NoJob.order = NoOrder
  BY BoundAssumption DEF NoJob, Job, Stages, Editions
<1>2. TypeOK
  <2>1. order \in [Orders -> OrderRow]
    BY BoundAssumption DEF Init, OrderRow, Editions
  <2>2. NoEvents \in Counter
    BY DEF NoEvents, Counter
  <2>3. since \in [Orders -> Editions] /\ faults \in 0..MaxFaults
    BY BoundAssumption DEF Init, Editions
  <2>4. queue \in [Queues -> Seq(Orders)]
    BY EmptySeq DEF Init
  <2>5. job \in [Queues -> Job] /\ rows \subseteq Orders \X Editions
        /\ lost \subseteq Queues \X Orders
    BY <1>1 DEF Init
  <2> QED
    BY <2>1, <2>2, <2>3, <2>4, <2>5 DEF Init, TypeOK
<1>3. JobInv
  BY <1>1, NullAssumption DEF Init, JobInv
<1>4. NoEventIsLost
  <2> SUFFICES ASSUME NEW q \in Queues, NEW o \in Orders
               PROVE  published[q][o] = acked[q][o] + Waiting(q, o) + InHand(q, o)
    BY DEF NoEventIsLost
  <2>1. Waiting(q, o) = 0
    BY OccurrencesEmpty DEF Init, Waiting, Occurrences
  <2>2. InHand(q, o) = 0
    BY <1>1, NullAssumption DEF Init, InHand
  <2> QED
    BY <2>1, <2>2 DEF Init, NoEvents
<1>5. BatchPrecedesAck
  BY <1>1 DEF Init, BatchPrecedesAck, NoEvents, Queues
<1>6. EventsFollowCompletion
  BY <1>1 DEF Init, EventsFollowCompletion, NoEvents, Queues
<1>7. RowsFollowCompletion
  BY DEF Init, RowsFollowCompletion
<1> QED
  BY <1>2, <1>3, <1>4, <1>5, <1>6, <1>7 DEF IInv

-----------------------------------------------------------------------------
(* Type correctness.                                                       *)

\* Staff change an order row and, by completing an order, the counters.
LEMMA StaffType ==
    ASSUME TypeOK, JobInv, NEW o \in Orders,
           \/ \E phone \in BOOLEAN : Create(o, phone)
           \/ UpdateItems(o)
           \/ Remove(o)
           \/ \E s \in Targets : PatchStatus(o, s)
    PROVE  TypeOK' /\ JobInv'
<1> USE DEF TypeOK
<1>1. JobInv'
  BY DEF JobInv, Create, UpdateItems, Remove, PatchStatus, events
<1>2. ASSUME NEW phone \in BOOLEAN, Create(o, phone)
      PROVE  TypeOK'
  <2> DEFINE row == [order[o] EXCEPT !.status = "pending", !.phone = phone]
  <2>1. row \in OrderRow
    BY DEF OrderRow, OrderStatus
  <2>2. order' = [order EXCEPT ![o] = row]
    BY <1>2 DEF Create
  <2> HIDE DEF row
  <2>3. order' \in [Orders -> OrderRow]
    BY <2>1, <2>2
  <2> QED
    BY <1>2, <2>3 DEF Create, events, history
<1>3. ASSUME UpdateItems(o)
      PROVE  TypeOK'
  <2> DEFINE row == [order[o] EXCEPT !.edition = @ + 1]
  <2>1. order[o].edition + 1 \in Editions
    BY <1>3, BoundAssumption DEF UpdateItems, OrderRow, Editions
  <2>2. row \in OrderRow
    BY <2>1 DEF OrderRow
  <2>3. order' = [order EXCEPT ![o] = row]
    BY <1>3 DEF UpdateItems
  <2> HIDE DEF row
  <2>4. order' \in [Orders -> OrderRow]
    BY <2>2, <2>3
  <2> QED
    BY <1>3, <2>4 DEF UpdateItems, events, history
<1>4. ASSUME Remove(o)
      PROVE  TypeOK'
  <2> DEFINE row == [order[o] EXCEPT !.status = "deleted"]
  <2>1. row \in OrderRow
    BY DEF OrderRow
  <2>2. order' = [order EXCEPT ![o] = row]
    BY <1>4 DEF Remove
  <2> HIDE DEF row
  <2>3. order' \in [Orders -> OrderRow]
    BY <2>1, <2>2
  <2> QED
    BY <1>4, <2>3 DEF Remove, events, history
<1>5. ASSUME NEW s \in Targets, PatchStatus(o, s)
      PROVE  TypeOK'
  <2> DEFINE row == [order[o] EXCEPT !.status = s]
  <2>1. row \in OrderRow
    BY TargetAssumption DEF OrderRow
  <2>2. order' = [order EXCEPT ![o] = row]
    BY <1>5 DEF PatchStatus
  <2> HIDE DEF row
  <2>3. order' \in [Orders -> OrderRow]
    BY <2>1, <2>2
  <2>4. outbox' \in Counter
    <3>1. \A q \in Queues :
            [outbox[q] EXCEPT ![o] = IF q \in Notified(o, s) THEN @ + 1 ELSE @]
              \in [Orders -> Nat]
      BY DEF Counter
    <3> QED
      BY <1>5, <3>1 DEF PatchStatus, Counter
  <2>5. completions' \in [Orders -> Nat]
    BY <1>5 DEF PatchStatus
  <2>6. since' \in [Orders -> Editions]
    <3>1. order[o].edition \in Editions
      BY DEF OrderRow
    <3> QED
      BY <1>5, <3>1 DEF PatchStatus
  <2> QED
    BY <1>5, <2>3, <2>4, <2>5, <2>6 DEF PatchStatus
<1> QED
  BY <1>1, <1>2, <1>3, <1>4, <1>5

\* A queue and its handler keep to their types, and the process holds an event
\* exactly while a handler runs.
LEMMA BackgroundType ==
    ASSUME TypeOK, JobInv, NEW q \in Queues, Background(q) \/ Reject(q)
    PROVE  TypeOK' /\ JobInv'
<1> USE DEF TypeOK
<1>0. NoJob \in Job /\ NoJob.stage = "idle" /\ NoJob.order = NoOrder
  BY BoundAssumption DEF NoJob, Job, Stages, Editions
<1>1. ASSUME NEW o \in Orders, Publish(q, o)
      PROVE  TypeOK' /\ JobInv'
  <2>1. outbox[q][o] \in Nat /\ published[q][o] \in Nat /\ outbox[q][o] > 0
    BY <1>1 DEF Counter, Publish
  <2>2. outbox' \in Counter /\ published' \in Counter
    <3>0. \A n \in Nat : n + 1 \in Nat /\ (n > 0 => n - 1 \in Nat)
      OBVIOUS
    <3>1. outbox[q][o] - 1 \in Nat /\ published[q][o] + 1 \in Nat
      BY <2>1, <3>0, Zenon
    <3>2. /\ [outbox EXCEPT ![q][o] = outbox[q][o] - 1] \in Counter
          /\ [published EXCEPT ![q][o] = published[q][o] + 1] \in Counter
      BY <3>1, CounterUpdate
    <3> QED
      BY <1>1, <3>2, Zenon DEF Publish
  <2>3. Append(queue[q], o) \in Seq(Orders)
    BY AppendProperties
  <2>4. queue' \in [Queues -> Seq(Orders)]
    BY <1>1, <2>3 DEF Publish
  <2> QED
    BY <1>1, <2>2, <2>4 DEF Publish, JobInv
<1>2. ASSUME Deliver(q)
      PROVE  TypeOK' /\ JobInv'
  <2>1. Head(queue[q]) \in Orders /\ Tail(queue[q]) \in Seq(Orders)
    BY <1>2, HeadTailProperties DEF Deliver
  <2> DEFINE row == [stage |-> "delivered", order |-> Head(queue[q]), edition |-> 0]
  <2>2. 0 \in Editions /\ "delivered" \in Stages
    BY BoundAssumption DEF Editions, Stages
  <2>3. row \in Job /\ row.stage # "idle" /\ row.order \in Orders
    BY <2>1, <2>2 DEF Job
  <2>4. job' = [job EXCEPT ![q] = row]
    BY <1>2 DEF Deliver
  <2> HIDE DEF row
  <2>5. job' \in [Queues -> Job] /\ JobInv'
    BY <2>3, <2>4 DEF JobInv
  <2>6. queue' \in [Queues -> Seq(Orders)]
    BY <1>2, <2>1 DEF Deliver
  <2> QED
    BY <1>2, <2>5, <2>6 DEF Deliver, history
<1>3. ASSUME job' = [job EXCEPT ![q] = NoJob]
      PROVE  job' \in [Queues -> Job] /\ JobInv'
  BY <1>0, <1>3, NullAssumption DEF JobInv
<1>4. ASSUME Ack(q)
      PROVE  TypeOK' /\ JobInv'
  <2>1. job[q].order \in Orders
    BY <1>4 DEF JobInv, Ack, Busy
  <2>2. acked[q][job[q].order] \in Nat
    BY <2>1 DEF Counter
  <2>3. acked' \in Counter
    <3>1. acked[q][job[q].order] + 1 \in Nat
      BY <2>2
    <3>2. [acked EXCEPT ![q][job[q].order] = acked[q][job[q].order] + 1] \in Counter
      BY <2>1, <3>1, CounterUpdate
    <3> QED
      BY <1>4, <3>2, Zenon DEF Ack
  <2>4. job' = [job EXCEPT ![q] = NoJob]
    BY <1>4 DEF Ack
  <2> QED
    BY <1>3, <1>4, <2>3, <2>4 DEF Ack
<1>5. ASSUME NEW stage \in Stages \ {"idle"}, job[q].stage # "idle", Enter(q, stage)
      PROVE  job' \in [Queues -> Job] /\ JobInv'
  <2>1. /\ job' \in [Queues -> Job] /\ job'[q].stage = stage
        /\ \A p \in Queues : job'[p].order = job[p].order /\ (p # q => job'[p] = job[p])
    BY <1>5, EnterUpdate
  <2>2. job[q].order \in Orders
    BY <1>5 DEF JobInv
  <2> QED
    BY <1>5, <2>1, <2>2 DEF JobInv
<1>6. ASSUME q = "consumption", ReadOrderLines
      PROVE  TypeOK' /\ JobInv'
  <2> DEFINE o == job[q].order
  <2>1. o \in Orders /\ job[q].stage = "delivered"
    BY <1>6 DEF JobInv, ReadOrderLines, Busy
  <2>2. CASE FindLines
    <3> DEFINE row == [job[q] EXCEPT !.stage = "prepared", !.edition = order[o].edition]
    <3>1. order[o].edition \in Editions
      BY <2>1 DEF OrderRow
    <3>2. row \in Job /\ row.stage # "idle" /\ row.order = o
      BY <3>1 DEF Job, Stages
    <3>3. job' = [job EXCEPT ![q] = row] /\ UNCHANGED <<queue, passes>>
      BY <1>6, <2>2 DEF FindLines
    <3> HIDE DEF row
    <3>4. job' \in [Queues -> Job] /\ JobInv'
      BY <2>1, <3>2, <3>3 DEF JobInv
    <3> QED
      BY <1>6, <3>3, <3>4 DEF ReadOrderLines, unmoved, history
  <2>3. CASE FindNoOrder
    <3>1. PutBack(q) /\ job' = [job EXCEPT ![q] = NoJob] /\ UNCHANGED passes
      BY <1>6, <2>3 DEF FindNoOrder
    <3>2. queue' \in [Queues -> Seq(Orders)]
      BY <2>1, <3>1, PutBackUpdate
    <3> QED
      BY <1>3, <1>6, <3>1, <3>2 DEF ReadOrderLines, unmoved, history
  <2>4. CASE FindNothing
    <3>1. job' \in [Queues -> Job] /\ JobInv'
      BY <1>5, <1>6, <2>1, <2>4 DEF FindNothing, Stages
    <3>2. passes' \in [Orders -> Nat] /\ queue' = queue
      BY <1>6, <2>1, <2>4 DEF FindNothing
    <3> QED
      BY <1>6, <3>1, <3>2 DEF ReadOrderLines, unmoved, history
  <2> QED
    BY <1>6, <2>2, <2>3, <2>4, ReadCases
<1>7. ASSUME q = "consumption", StoreConsumption
      PROVE  TypeOK' /\ JobInv'
  <2>1. job[q].order \in Orders /\ job[q].stage # "idle" /\ job[q].edition \in Editions
    BY <1>7 DEF JobInv, StoreConsumption, Busy, Job
  <2>2. job' \in [Queues -> Job] /\ JobInv'
    BY <1>5, <1>7, <2>1 DEF StoreConsumption, Stages
  <2>3. /\ batches' \in [Orders -> Nat] /\ rows' \subseteq Orders \X Editions
        /\ passes' \in [Orders -> Nat]
    <3> DEFINE o == job[q].order
               row == <<o, job[q].edition>>
    <3>1. \/ /\ batches' = [batches EXCEPT ![o] = batches[o] + 1]
             /\ rows' = rows \cup {row} /\ passes' = passes
          \/ /\ passes' = [passes EXCEPT ![o] = passes[o] + 1]
             /\ batches' = batches /\ rows' = rows
      BY <1>7 DEF StoreConsumption
    <3>2. o \in Orders /\ row \in Orders \X Editions
      BY <2>1
    <3> HIDE DEF o, row
    <3>3. rows' \subseteq Orders \X Editions
      BY <3>1, <3>2
    <3>4. batches[o] + 1 \in Nat /\ passes[o] + 1 \in Nat
      BY <3>2
    <3>5. batches' \in [Orders -> Nat]
      BY <3>1, <3>2, <3>4
    <3>6. passes' \in [Orders -> Nat]
      BY <3>1, <3>2, <3>4
    <3> QED
      BY <3>3, <3>5, <3>6
  <2> QED
    BY <1>7, <2>2, <2>3 DEF StoreConsumption, unmoved, history
<1>8. ASSUME q = "emails", PrepareMail
      PROVE  TypeOK' /\ JobInv'
  <2>1. job[q].stage # "idle"
    BY <1>8 DEF PrepareMail, Busy
  <2>2. job' \in [Queues -> Job] /\ JobInv'
    <3>1. \E stage \in Stages \ {"idle"} : Enter(q, stage)
      BY <1>8 DEF PrepareMail, Stages
    <3> QED
      BY <1>5, <2>1, <3>1
  <2> QED
    BY <1>8, <2>2 DEF PrepareMail, unmoved, history
<1>9. ASSUME q = "emails", SendMail
      PROVE  TypeOK' /\ JobInv'
  <2>1. job[q].order \in Orders /\ job[q].stage # "idle"
    BY <1>9 DEF JobInv, SendMail, Busy
  <2>2. job' \in [Queues -> Job] /\ JobInv'
    BY <1>5, <1>9, <2>1 DEF SendMail, Stages
  <2>3. mails' \in [Orders -> Nat]
    BY <1>9, <2>1 DEF SendMail
  <2> QED
    BY <1>9, <2>2, <2>3 DEF SendMail, unmoved, history
<1>10. ASSUME Reject(q)
       PROVE  TypeOK' /\ JobInv'
  <2>1. job[q].order \in Orders /\ PutBack(q) /\ job' = [job EXCEPT ![q] = NoJob]
    BY <1>10 DEF JobInv, Reject
  <2>2. queue' \in [Queues -> Seq(Orders)]
    BY <2>1, PutBackUpdate
  <2>3. faults' \in 0..MaxFaults
    BY <1>10, BoundAssumption DEF Reject
  <2> QED
    BY <1>3, <1>10, <2>1, <2>2, <2>3 DEF Reject, history
<1> QED
  BY <1>1, <1>2, <1>4, <1>6, <1>7, <1>8, <1>9, <1>10 DEF Background

\* A crash leaves every queue well typed and no handler running.
LEMMA CrashType ==
    ASSUME TypeOK, JobInv, Crash
    PROVE  /\ TypeOK' /\ JobInv'
           /\ \A q \in Queues : job'[q] = NoJob
           /\ \A q \in Queues, o \in Orders :
                Occurrences(queue'[q], o) = Occurrences(queue[q], o) + InHand(q, o)
<1> USE DEF TypeOK
<1>0. NoJob \in Job /\ NoJob.stage = "idle" /\ NoJob.order = NoOrder
  BY BoundAssumption DEF NoJob, Job, Stages, Editions
<1>1. job' = [q \in Queues |-> NoJob]
  BY DEF Crash
<1>2. job' \in [Queues -> Job] /\ JobInv' /\ \A q \in Queues : job'[q] = NoJob
  BY <1>0, <1>1, NullAssumption DEF JobInv
<1>3. ASSUME NEW q \in Queues
      PROVE  /\ queue'[q] \in Seq(Orders)
             /\ \A o \in Orders :
                  Occurrences(queue'[q], o) = Occurrences(queue[q], o) + InHand(q, o)
  <2>1. CASE job[q].stage = "idle"
    <3>1. queue'[q] = queue[q] /\ \A o \in Orders : InHand(q, o) = 0
      BY <2>1 DEF Crash, JobInv, InHand
    <3>2. \A o \in Orders : Occurrences(queue[q], o) \in Nat
      BY PlacesFinite
    <3> QED
      BY <3>1, <3>2
  <2>2. CASE job[q].stage # "idle"
    <3> DEFINE e == job[q].order
               s == queue[q]
               t == <<e>> \o s
    <3>1. e \in Orders /\ s \in Seq(Orders)
      BY <2>2 DEF JobInv
    <3>2. queue'[q] = t
      BY <2>2 DEF Crash
    <3>3. t \in Seq(Orders)
      BY <3>1, ConcatProperties
    <3>4. \A o \in Orders : Occurrences(t, o) = Occurrences(s, o) + InHand(q, o)
      BY <3>1, OccurrencesCons DEF InHand
    <3> HIDE DEF t
    <3> QED
      BY <3>2, <3>3, <3>4
  <2> QED
    BY <2>1, <2>2
<1>4. queue' \in [Queues -> Seq(Orders)]
  <2>1. queue' = [q \in Queues |-> queue'[q]]
    BY DEF Crash
  <2> QED
    BY <1>3, <2>1
<1>5. NoEvents \in Counter
  BY DEF NoEvents, Counter
<1>6. faults' \in 0..MaxFaults /\ up' \in BOOLEAN /\ outbox' \in Counter
  <2>1. up' = FALSE /\ outbox' = NoEvents /\ faults' = faults + 1 /\ faults < MaxFaults
    BY DEF Crash
  <2>2. faults' \in 0..MaxFaults
    BY <2>1, BoundAssumption
  <2> QED
    BY <1>5, <2>1, <2>2, Zenon
<1>7. lost' \subseteq Queues \X Orders
  BY DEF Crash
<1> QED
  BY <1>2, <1>3, <1>4, <1>6, <1>7 DEF Crash

\* Every step keeps the tables, the queues and the handlers well typed.
LEMMA TypeStep == TypeOK /\ JobInv /\ [Next]_vars => TypeOK' /\ JobInv'
<1> SUFFICES ASSUME TypeOK, JobInv, [Next]_vars PROVE TypeOK' /\ JobInv'
  OBVIOUS
<1>1. CASE Staff
  BY <1>1, StaffType DEF Staff
<1>2. CASE \E q \in Queues : Background(q) \/ Reject(q)
  BY <1>2, BackgroundType
<1>3. CASE Crash
  BY <1>3, CrashType
<1>4. CASE Restart
  BY <1>4 DEF Restart, TypeOK, JobInv, history
<1>5. CASE UNCHANGED vars
  BY <1>5 DEF vars, TypeOK, JobInv
<1> QED
  BY <1>1, <1>2, <1>3, <1>4, <1>5 DEF Next

-----------------------------------------------------------------------------
(* No event is lost.                                                       *)

\* All counts of events are natural numbers.
LEMMA CountsAreNat ==
    ASSUME TypeOK, NEW p \in Queues, NEW x \in Orders
    PROVE  /\ published[p][x] \in Nat /\ acked[p][x] \in Nat /\ outbox[p][x] \in Nat
           /\ Waiting(p, x) \in Nat /\ InHand(p, x) \in 0..1
           /\ completions[x] \in Nat /\ batches[x] \in Nat /\ passes[x] \in Nat
<1>1. queue[p] \in Seq(Orders)
  BY DEF TypeOK
<1>2. Waiting(p, x) \in Nat
  BY <1>1, PlacesFinite DEF Waiting, Occurrences
<1> QED
  BY <1>2 DEF TypeOK, Counter, InHand

\* The balance of one queue and one order is kept by a step that adds a, b, c
\* and d to its four counts when a = b + c + d.
LEMMA BalanceKept ==
    ASSUME TypeOK, NoEventIsLost, NEW p \in Queues, NEW x \in Orders,
           NEW a \in Int, NEW b \in Int, NEW c \in Int, NEW d \in Int, a = b + c + d,
           published'[p][x] = published[p][x] + a,
           acked'[p][x] = acked[p][x] + b,
           Waiting(p, x)' = Waiting(p, x) + c,
           InHand(p, x)' = InHand(p, x) + d
    PROVE  published'[p][x] = acked'[p][x] + Waiting(p, x)' + InHand(p, x)'
<1> DEFINE P == published[p][x]
           A == acked[p][x]
           W == Waiting(p, x)
           H == InHand(p, x)
<1>1. P \in Nat /\ A \in Nat /\ W \in Nat /\ H \in 0..1
  BY CountsAreNat
<1>2. P = A + W + H
  BY DEF NoEventIsLost
<1>3. /\ published'[p][x] = P + a /\ acked'[p][x] = A + b
      /\ Waiting(p, x)' = W + c /\ InHand(p, x)' = H + d
  OBVIOUS
<1> HIDE DEF P, A, W, H
<1> QED
  BY <1>1, <1>2, <1>3

One(q, o, p, x) == IF p = q /\ x = o THEN 1 ELSE 0

\* What each step does to the counts of queue p and order x.
LEMMA BalanceStep ==
    ASSUME TypeOK, JobInv, NoEventIsLost, [Next]_vars, NEW p \in Queues, NEW x \in Orders
    PROVE  published'[p][x] = acked'[p][x] + Waiting(p, x)' + InHand(p, x)'
<1> DEFINE Kept == published'[p][x] = acked'[p][x] + Waiting(p, x)' + InHand(p, x)'
<1>t. /\ queue \in [Queues -> Seq(Orders)] /\ job \in [Queues -> Job]
      /\ published \in Counter /\ acked \in Counter /\ batches \in [Orders -> Nat]
  BY DEF TypeOK
<1>j. NoJob.order = NoOrder /\ NoJob.order # x
  BY NullAssumption DEF NoJob
<1>0. ASSUME UNCHANGED <<published, acked>>, queue'[p] = queue[p],
             job'[p].order = job[p].order
      PROVE  Kept
  <2>1. Waiting(p, x)' = Waiting(p, x) /\ InHand(p, x)' = InHand(p, x)
    BY <1>0 DEF Waiting, InHand
  <2> QED
    BY <1>0, <2>1 DEF NoEventIsLost
<1>1. CASE Staff \/ Restart \/ UNCHANGED vars
  BY <1>0, <1>1 DEF Staff, Restart, Create, UpdateItems, Remove, PatchStatus, events,
                    history, vars
<1>2. ASSUME NEW q \in Queues, NEW o \in Orders, Publish(q, o)
      PROVE  Kept
  <2>1. published'[p][x] = published[p][x] + One(q, o, p, x)
    BY <1>t, <1>2 DEF Publish, Counter, One
  <2>2. Waiting(p, x)' = Waiting(p, x) + One(q, o, p, x)
    <3>1. Occurrences(Append(queue[q], o), x)
            = Occurrences(queue[q], x) + (IF o = x THEN 1 ELSE 0)
      BY <1>t, OccurrencesAppend
    <3>2. Waiting(p, x) \in Nat
      BY CountsAreNat
    <3>3. queue'[p] = IF p = q THEN Append(queue[q], o) ELSE queue[p]
      BY <1>t, <1>2 DEF Publish
    <3> QED
      BY <3>1, <3>2, <3>3 DEF Waiting, Occurrences, One
  <2>3. acked'[p][x] = acked[p][x] + 0 /\ InHand(p, x)' = InHand(p, x) + 0
    <3>1. acked[p][x] \in Nat /\ InHand(p, x) \in 0..1
      BY CountsAreNat
    <3>2. acked' = acked /\ InHand(p, x)' = InHand(p, x)
      BY <1>2 DEF Publish, InHand
    <3> QED
      BY <3>1, <3>2
  <2>4. One(q, o, p, x) \in Int /\ One(q, o, p, x) = 0 + One(q, o, p, x) + 0
    BY DEF One
  <2> QED
    BY <2>1, <2>2, <2>3, <2>4, BalanceKept
<1>3. ASSUME NEW q \in Queues, Deliver(q)
      PROVE  Kept
  <2> DEFINE o == Head(queue[q])
             n == One(q, o, p, x)
             m == -n
  <2>1. /\ Occurrences(queue[q], x) = Occurrences(Tail(queue[q]), x) + One(q, o, q, x)
        /\ Occurrences(Tail(queue[q]), x) \in Nat
    <3>1. Tail(queue[q]) \in Seq(Orders)
      BY <1>t, <1>3, OccurrencesTail DEF Deliver
    <3>2. Occurrences(queue[q], x)
            = Occurrences(Tail(queue[q]), x) + (IF o = x THEN 1 ELSE 0)
      BY <1>t, <1>3, OccurrencesTail DEF Deliver
    <3> QED
      BY <3>1, <3>2, PlacesFinite DEF One
  <2>2. Waiting(p, x)' = Waiting(p, x) + m
    <3>1. queue'[p] = IF p = q THEN Tail(queue[q]) ELSE queue[p]
      BY <1>t, <1>3 DEF Deliver
    <3>2. Waiting(p, x) \in Nat
      BY CountsAreNat
    <3> QED
      BY <2>1, <3>1, <3>2 DEF Waiting, Occurrences, One
  <2>3. InHand(p, x)' = InHand(p, x) + n
    <3>1. job[q].order # x
      BY <1>3 DEF Deliver, JobInv
    <3>2. job'[p].order = IF p = q THEN o ELSE job[p].order
      BY <1>t, <1>3 DEF Deliver
    <3> QED
      BY <3>1, <3>2 DEF InHand, One
  <2>4. published'[p][x] = published[p][x] + 0 /\ acked'[p][x] = acked[p][x] + 0
    <3>1. published[p][x] \in Nat /\ acked[p][x] \in Nat
      BY CountsAreNat
    <3> QED
      BY <1>3, <3>1 DEF Deliver, history
  <2>5. n \in Int /\ m \in Int
        /\ 0 = 0 + m + n
    BY DEF One
  <2> HIDE DEF n, m
  <2> QED
    BY <2>2, <2>3, <2>4, <2>5, BalanceKept
<1>4. ASSUME NEW q \in Queues, Ack(q)
      PROVE  Kept
  <2> DEFINE o == job[q].order
             n == One(q, o, p, x)
             m == -n
  <2>1. o \in Orders
    BY <1>4 DEF Ack, Busy, JobInv
  <2>2. acked'[p][x] = acked[p][x] + n
    BY <1>t, <1>4, <2>1 DEF Ack, Counter, One
  <2>3. InHand(p, x)' = InHand(p, x) + m
    <3>1. job'[p].order = IF p = q THEN NoOrder ELSE job[p].order
      BY <1>t, <1>j, <1>4 DEF Ack
    <3> QED
      BY <1>j, <3>1 DEF InHand, One
  <2>4. published'[p][x] = published[p][x] + 0 /\ Waiting(p, x)' = Waiting(p, x) + 0
    <3>1. published[p][x] \in Nat /\ Waiting(p, x) \in Nat
      BY CountsAreNat
    <3>2. published' = published /\ Waiting(p, x)' = Waiting(p, x)
      BY <1>4 DEF Ack, Waiting
    <3> QED
      BY <3>1, <3>2
  <2>5. n \in Int /\ m \in Int
        /\ 0 = n + 0 + m
    BY DEF One
  <2> HIDE DEF n, m
  <2> QED
    BY <2>2, <2>3, <2>4, <2>5, BalanceKept
<1>5. ASSUME NEW q \in Queues, PutBack(q), job' = [job EXCEPT ![q] = NoJob],
             UNCHANGED <<published, acked>>, job[q].order \in Orders
      PROVE  Kept
  <2> DEFINE o == job[q].order
             n == One(q, o, p, x)
             m == -n
  <2>1. Waiting(p, x)' = Waiting(p, x) + n
    <3>1. Occurrences(queue'[q], x) = Occurrences(queue[q], x) + (IF o = x THEN 1 ELSE 0)
      BY <1>t, <1>5, PutBackUpdate
    <3>2. p # q => queue'[p] = queue[p]
      BY <1>t, <1>5, PutBackUpdate
    <3>3. Waiting(p, x) \in Nat
      BY CountsAreNat
    <3> QED
      BY <3>1, <3>2, <3>3 DEF Waiting, Occurrences, One
  <2>2. InHand(p, x)' = InHand(p, x) + m
    <3>1. job'[p].order = IF p = q THEN NoOrder ELSE job[p].order
      BY <1>t, <1>j, <1>5
    <3> QED
      BY <1>j, <3>1 DEF InHand, One
  <2>3. published'[p][x] = published[p][x] + 0 /\ acked'[p][x] = acked[p][x] + 0
    <3>1. published[p][x] \in Nat /\ acked[p][x] \in Nat
      BY CountsAreNat
    <3> QED
      BY <1>5, <3>1
  <2>4. n \in Int /\ m \in Int
        /\ 0 = 0 + n + m
    BY DEF One
  <2> HIDE DEF n, m
  <2> QED
    BY <2>1, <2>2, <2>3, <2>4, BalanceKept
<1>6. ASSUME NEW q \in Queues, NEW stage \in Stages, Enter(q, stage),
             UNCHANGED <<published, acked, queue>>
      PROVE  Kept
  <2>1. job'[p].order = job[p].order
    BY <1>t, <1>6, EnterUpdate
  <2> QED
    BY <1>0, <1>6, <2>1
<1>7. CASE ReadOrderLines
  <2> DEFINE q == "consumption"
  <2>1. q \in Queues /\ job[q].order \in Orders
    BY <1>7 DEF ReadOrderLines, Busy, JobInv, Queues
  <2>2. CASE FindLines
    <3> DEFINE row == [job[q] EXCEPT !.stage = "prepared",
                                     !.edition = order[job[q].order].edition]
    <3>0. row.order = job[q].order
      BY <1>t, <2>1 DEF Job
    <3>1. job' = [job EXCEPT ![q] = row] /\ queue' = queue
      BY <2>2 DEF FindLines
    <3> HIDE DEF row
    <3>2. job'[p].order = job[p].order
      BY <1>t, <3>0, <3>1
    <3> QED
      BY <1>0, <1>7, <3>1, <3>2 DEF ReadOrderLines, unmoved, history
  <2>3. CASE FindNoOrder
    BY <1>5, <1>7, <2>1, <2>3 DEF FindNoOrder, ReadOrderLines, unmoved, history
  <2>4. CASE FindNothing
    BY <1>6, <1>7, <2>1, <2>4 DEF FindNothing, ReadOrderLines, unmoved, history, Stages
  <2> QED
    BY <1>7, <2>2, <2>3, <2>4, ReadCases
<1>8. CASE StoreConsumption
  BY <1>6, <1>8 DEF StoreConsumption, unmoved, history, Queues, Stages
<1>9. CASE PrepareMail
  <2>1. "emails" \in Queues /\ \E stage \in Stages : Enter("emails", stage)
    BY <1>9 DEF PrepareMail, Stages, Queues
  <2> QED
    BY <1>6, <1>9, <2>1 DEF PrepareMail, unmoved, history
<1>10. CASE SendMail
  BY <1>6, <1>10 DEF SendMail, unmoved, history, Queues, Stages
<1>11. ASSUME NEW q \in Queues, Reject(q)
       PROVE  Kept
  <2>1. job[q].order \in Orders
    BY <1>11 DEF Reject, JobInv
  <2> QED
    BY <1>5, <1>11, <2>1 DEF Reject, history
<1>12. CASE Crash
  <2> DEFINE n == InHand(p, x)
             m == -n
  <2>1. Waiting(p, x)' = Waiting(p, x) + n
    BY <1>12, CrashType DEF Waiting, Occurrences
  <2>2. InHand(p, x)' = InHand(p, x) + m /\ n \in Int
    BY <1>j, <1>12, CrashType DEF InHand
  <2>3. published'[p][x] = published[p][x] + 0 /\ acked'[p][x] = acked[p][x] + 0
    <3>1. published[p][x] \in Nat /\ acked[p][x] \in Nat
      BY CountsAreNat
    <3> QED
      BY <1>12, <3>1 DEF Crash
  <2>4. m \in Int /\ 0 = 0 + n + m
    BY <2>2
  <2> HIDE DEF n, m
  <2> QED
    BY <2>1, <2>2, <2>3, <2>4, BalanceKept
<1>13. ASSUME NEW q \in Queues, Background(q)
       PROVE  Kept
  BY <1>2, <1>3, <1>4, <1>7, <1>8, <1>9, <1>10, <1>13 DEF Background
<1> QED
  BY <1>1, <1>11, <1>12, <1>13 DEF Next

-----------------------------------------------------------------------------
(* The work of the consumption queue.                                      *)

work == <<batches, rows, passes, acked["consumption"]>>

\* Only a handler that stores its rows or finds nothing to store, and an
\* acknowledgement, change what has been done; no other step brings a handler to
\* its end.
LEMMA WorkStep ==
    ASSUME TypeOK, JobInv, [Next]_vars
    PROVE  \/ UNCHANGED work /\ (job'["consumption"].stage = "finished"
                                   => job'["consumption"] = job["consumption"])
           \/ StoreConsumption
           \/ FindNothing
           \/ Ack("consumption")
<1> DEFINE c == "consumption"
           Quiet == UNCHANGED work /\ (job'[c].stage = "finished" => job'[c] = job[c])
<1>t. /\ c \in Queues /\ "emails" # c
      /\ job \in [Queues -> Job] /\ acked \in Counter
  BY DEF TypeOK, Queues
<1>j. NoJob.stage = "idle"
  BY DEF NoJob
<1>1. CASE Staff \/ Restart \/ UNCHANGED vars
  BY <1>1 DEF Staff, Restart, Create, UpdateItems, Remove, PatchStatus, events,
              history, vars, work
<1>2. ASSUME NEW q \in Queues, NEW o \in Orders, Publish(q, o)
      PROVE  Quiet
  BY <1>2 DEF Publish, work
<1>3. ASSUME NEW q \in Queues, Deliver(q)
      PROVE  Quiet
  <2>1. job'[c] = IF q = c THEN [stage |-> "delivered", order |-> Head(queue[q]),
                                 edition |-> 0]
                           ELSE job[c]
    BY <1>t, <1>3 DEF Deliver
  <2> QED
    BY <1>3, <2>1 DEF Deliver, work, history
<1>4. ASSUME NEW q \in Queues, q # c, Ack(q)
      PROVE  Quiet
  <2>1. job'[c] = job[c] /\ acked'[c] = acked[c]
    BY <1>t, <1>4 DEF Ack
  <2> QED
    BY <1>4, <2>1 DEF Ack, work
<1>5. CASE ReadOrderLines /\ ~FindNothing
  <2>1. CASE FindLines
    <3> DEFINE row == [job[c] EXCEPT !.stage = "prepared",
                                     !.edition = order[job[c].order].edition]
    <3>1. row.stage = "prepared"
      BY <1>t DEF Job
    <3>2. job' = [job EXCEPT ![c] = row] /\ UNCHANGED passes
      BY <1>5, <2>1 DEF FindLines
    <3> HIDE DEF row
    <3> QED
      BY <1>t, <1>5, <3>1, <3>2 DEF ReadOrderLines, unmoved, history, work
  <2>2. CASE FindNoOrder
    <3>1. job' = [job EXCEPT ![c] = NoJob] /\ UNCHANGED <<passes, batches, rows, acked>>
      BY <1>5, <2>2 DEF FindNoOrder, ReadOrderLines, unmoved, history
    <3> QED
      BY <1>t, <1>j, <3>1 DEF work
  <2> QED
    BY <1>5, <2>1, <2>2, ReadCases
<1>6. CASE PrepareMail \/ SendMail
  <2>1. \E stage \in Stages : Enter("emails", stage)
    BY <1>6 DEF PrepareMail, SendMail, Stages
  <2>2. job'[c] = job[c]
    BY <1>t, <2>1 DEF Enter
  <2> QED
    BY <1>6, <2>2 DEF PrepareMail, SendMail, unmoved, history, work
<1>7. ASSUME NEW q \in Queues, Reject(q)
      PROVE  Quiet
  <2>1. job'[c] = IF q = c THEN NoJob ELSE job[c]
    BY <1>t, <1>7 DEF Reject
  <2> QED
    BY <1>j, <1>7, <2>1 DEF Reject, history, work
<1>8. CASE Crash
  BY <1>t, <1>j, <1>8 DEF Crash, work
<1>9. ASSUME NEW q \in Queues, Background(q)
      PROVE  Quiet \/ StoreConsumption \/ FindNothing \/ Ack(c)
  BY <1>2, <1>3, <1>4, <1>5, <1>6, <1>9 DEF Background
<1> QED
  BY <1>1, <1>7, <1>8, <1>9 DEF Next

\* What storing the rows of an event changes.
LEMMA StoreUpdate ==
    ASSUME TypeOK, JobInv, StoreConsumption
    PROVE  LET j == job["consumption"] IN
           /\ j.order \in Orders /\ j.stage = "prepared" /\ j.edition \in Editions
           /\ \/ /\ batches' = [batches EXCEPT ![j.order] = @ + 1]
                 /\ rows' = rows \cup {<<j.order, j.edition>>} /\ passes' = passes
              \/ /\ passes' = [passes EXCEPT ![j.order] = @ + 1]
                 /\ batches' = batches /\ rows' = rows
           /\ acked' = acked /\ published' = published
           /\ job'["consumption"].stage = "finished"
           /\ job'["consumption"].order = j.order
<1>1. "consumption" \in Queues /\ job \in [Queues -> Job] /\ "finished" \in Stages
  BY DEF TypeOK, Queues, Stages
<1>2. job["consumption"].order \in Orders /\ job["consumption"].edition \in Editions
  BY <1>1 DEF StoreConsumption, Busy, JobInv, Job
<1>3. job'["consumption"].stage = "finished"
      /\ job'["consumption"].order = job["consumption"].order
  BY <1>1, EnterUpdate DEF StoreConsumption
<1> QED
  BY <1>2, <1>3 DEF StoreConsumption, Busy, unmoved, history

\* What a handler that is done with its event changes, with rows or without.
LEMMA PerformUpdate ==
    ASSUME TypeOK, JobInv, StoreConsumption \/ FindNothing
    PROVE  LET j == job["consumption"] IN
           /\ j.order \in Orders /\ j.stage \in {"delivered", "prepared"}
           /\ \A x \in Orders :
                batches'[x] + passes'[x]
                  = IF x = j.order THEN batches[x] + passes[x] + 1 ELSE batches[x] + passes[x]
           /\ acked' = acked /\ published' = published
           /\ job'["consumption"].stage = "finished"
           /\ job'["consumption"].order = j.order
<1>1. /\ "consumption" \in Queues /\ job \in [Queues -> Job] /\ "finished" \in Stages
      /\ batches \in [Orders -> Nat] /\ passes \in [Orders -> Nat]
  BY DEF TypeOK, Queues, Stages
<1>2. CASE StoreConsumption
  BY <1>1, <1>2, StoreUpdate
<1>3. CASE FindNothing
  <2>1. /\ job["consumption"].order \in Orders /\ job["consumption"].stage = "delivered"
        /\ batches' = batches /\ acked' = acked /\ published' = published
        /\ passes' = [passes EXCEPT ![job["consumption"].order] = @ + 1]
        /\ Enter("consumption", "finished")
    BY <1>1, <1>3 DEF FindNothing, ReadOrderLines, Busy, JobInv, unmoved, history
  <2>2. job'["consumption"].stage = "finished"
        /\ job'["consumption"].order = job["consumption"].order
    BY <1>1, <2>1, EnterUpdate
  <2> QED
    BY <1>1, <2>1, <2>2
<1> QED
  BY <1>2, <1>3

\* What acknowledging an event changes.
LEMMA AckUpdate ==
    ASSUME TypeOK, JobInv, Ack("consumption")
    PROVE  LET j == job["consumption"] IN
           /\ j.order \in Orders /\ j.stage = "finished"
           /\ acked'["consumption"] = [acked["consumption"] EXCEPT ![j.order] = @ + 1]
           /\ batches' = batches /\ rows' = rows /\ published' = published
           /\ passes' = passes /\ job'["consumption"] = NoJob
<1>1. "consumption" \in Queues /\ job \in [Queues -> Job] /\ acked \in Counter
  BY DEF TypeOK, Queues
<1>2. job["consumption"].order \in Orders
  BY <1>1 DEF Ack, Busy, JobInv
<1> DEFINE line == [acked["consumption"] EXCEPT ![job["consumption"].order] = @ + 1]
<1>3. acked' = [acked EXCEPT !["consumption"] = line]
  BY DEF Ack
<1> HIDE DEF line
<1>4. acked'["consumption"] = line
  BY <1>1, <1>3 DEF Counter
<1> QED
  BY <1>1, <1>2, <1>4 DEF Ack, Busy, line

\* A step keeps the batches ahead of the acknowledgements.
LEMMA BatchStep ==
    ASSUME TypeOK, JobInv, BatchPrecedesAck, [Next]_vars
    PROVE  BatchPrecedesAck'
<1> DEFINE c == "consumption"
           Credit(o) == IF job[c].stage = "finished" /\ job[c].order = o THEN 1 ELSE 0
<1>t. \A o \in Orders : acked[c][o] \in Nat /\ batches[o] \in Nat /\ passes[o] \in Nat
                        /\ acked[c][o] + Credit(o) <= batches[o] + passes[o]
  BY CountsAreNat DEF BatchPrecedesAck, Queues
<1>b. batches \in [Orders -> Nat] /\ acked[c] \in [Orders -> Nat]
  BY DEF TypeOK, Counter, Queues
<1> SUFFICES ASSUME NEW o \in Orders
             PROVE  acked'[c][o] + (IF job'[c].stage = "finished" /\ job'[c].order = o
                                    THEN 1 ELSE 0) <= batches'[o] + passes'[o]
  BY DEF BatchPrecedesAck
<1>1. CASE UNCHANGED work /\ (job'[c].stage = "finished" => job'[c] = job[c])
  <2>1. batches'[o] = batches[o] /\ passes'[o] = passes[o] /\ acked'[c][o] = acked[c][o]
    BY <1>1 DEF work
  <2>2. CASE job'[c].stage = "finished"
    BY <1>t, <1>1, <2>1, <2>2
  <2>3. CASE job'[c].stage # "finished"
    BY <1>t, <2>1, <2>3
  <2> QED
    BY <2>2, <2>3
<1>2. CASE StoreConsumption \/ FindNothing
  <2>1. /\ job[c].stage # "finished" /\ acked' = acked /\ job'[c].order = job[c].order
        /\ batches'[o] + passes'[o] = IF job[c].order = o THEN batches[o] + passes[o] + 1
                                      ELSE batches[o] + passes[o]
    BY <1>b, <1>2, PerformUpdate
  <2> QED
    BY <1>t, <2>1
<1>3. CASE Ack(c)
  <2>1. /\ job[c].stage = "finished" /\ batches' = batches /\ passes' = passes
        /\ job'[c].stage = "idle"
        /\ acked'[c][o] = IF job[c].order = o THEN acked[c][o] + 1 ELSE acked[c][o]
    BY <1>b, <1>3, AckUpdate DEF NoJob
  <2> QED
    BY <1>t, <2>1
<1> QED
  BY <1>1, <1>2, <1>3, WorkStep

-----------------------------------------------------------------------------
(* Events and rows follow completions.                                     *)

\* An order whose event the process holds has been completed.
LEMMA HeldWasCompleted ==
    ASSUME TypeOK, NoEventIsLost, EventsFollowCompletion, NEW q \in Queues,
           job[q].order \in Orders
    PROVE  completions[job[q].order] > 0
<1> DEFINE o == job[q].order
<1>1. /\ published[q][o] \in Nat /\ acked[q][o] \in Nat /\ Waiting(q, o) \in Nat
      /\ published[q][o] = acked[q][o] + Waiting(q, o) + InHand(q, o)
  BY CountsAreNat DEF NoEventIsLost
<1>2. InHand(q, o) = 1
  BY DEF InHand
<1>3. published[q][o] > 0
  BY <1>1, <1>2
<1> QED
  BY <1>3 DEF EventsFollowCompletion

\* Completions are only added, the first one notes the edition, editions only
\* grow, and an event comes from a completion.
LEMMA HistoryStep ==
    ASSUME TypeOK, [Next]_vars, NEW o \in Orders
    PROVE  /\ completions'[o] >= completions[o]
           /\ completions[o] > 0 => since'[o] = since[o]
           /\ completions[o] = 0 /\ completions'[o] > 0 => since'[o] = order'[o].edition
           /\ order'[o].edition >= order[o].edition
           /\ \A q \in Queues : /\ outbox'[q][o] > 0 => outbox[q][o] > 0 \/ completions'[o] > 0
                                /\ published'[q][o] > 0 => published[q][o] > 0
                                                            \/ outbox[q][o] > 0
<1>t. /\ order \in [Orders -> OrderRow] /\ completions \in [Orders -> Nat]
      /\ since \in [Orders -> Editions] /\ outbox \in Counter /\ published \in Counter
      /\ order[o].edition \in Nat /\ completions[o] \in Nat
  BY BoundAssumption DEF TypeOK, OrderRow, Editions
<1> DEFINE Quiet == /\ UNCHANGED <<completions, since, published>>
                    /\ order'[o].edition >= order[o].edition
                    /\ \A q \in Queues : outbox'[q][o] > 0 => outbox[q][o] > 0
<1>0. ASSUME Quiet
      PROVE  /\ completions'[o] >= completions[o]
             /\ since'[o] = since[o] /\ completions'[o] = completions[o]
  BY <1>t, <1>0
<1>1. ASSUME NEW x \in Orders, NEW phone \in BOOLEAN, Create(x, phone)
      PROVE  Quiet
  <2> DEFINE row == [order[x] EXCEPT !.status = "pending", !.phone = phone]
  <2>1. row.edition = order[x].edition
    BY <1>t DEF OrderRow
  <2>2. order' = [order EXCEPT ![x] = row]
    BY <1>1 DEF Create
  <2> HIDE DEF row
  <2>3. order'[o].edition = order[o].edition
    BY <1>t, <2>1, <2>2
  <2> QED
    BY <1>t, <1>1, <2>3 DEF Create, events, history
<1>2. ASSUME NEW x \in Orders, UpdateItems(x)
      PROVE  Quiet
  <2> DEFINE row == [order[x] EXCEPT !.edition = @ + 1]
  <2>1. row.edition = order[x].edition + 1
    BY <1>t DEF OrderRow
  <2>2. order' = [order EXCEPT ![x] = row]
    BY <1>2 DEF UpdateItems
  <2> HIDE DEF row
  <2>3. order'[o].edition >= order[o].edition
    BY <1>t, <2>1, <2>2
  <2> QED
    BY <1>2, <2>3 DEF UpdateItems, events, history
<1>3. ASSUME NEW x \in Orders, Remove(x)
      PROVE  Quiet
  <2> DEFINE row == [order[x] EXCEPT !.status = "deleted"]
  <2>1. row.edition = order[x].edition
    BY <1>t DEF OrderRow
  <2>2. order' = [order EXCEPT ![x] = row]
    BY <1>3 DEF Remove
  <2> HIDE DEF row
  <2>3. order'[o].edition = order[o].edition
    BY <1>t, <2>1, <2>2
  <2> QED
    BY <1>t, <1>3, <2>3 DEF Remove, events, history
<1>4. ASSUME NEW x \in Orders, NEW s \in Targets, PatchStatus(x, s)
      PROVE  /\ completions'[o] = IF x = o /\ s = "completed" THEN completions[o] + 1
                                                              ELSE completions[o]
             /\ since'[o] = IF x = o /\ s = "completed" /\ completions[o] = 0
                            THEN order[o].edition ELSE since[o]
             /\ order'[o].edition = order[o].edition
             /\ \A q \in Queues : outbox'[q][o] # outbox[q][o] => x = o /\ s = "completed"
             /\ published' = published
  <2> DEFINE row == [order[x] EXCEPT !.status = s]
  <2>1. row.edition = order[x].edition
    BY <1>t DEF OrderRow
  <2>2. order' = [order EXCEPT ![x] = row]
    BY <1>4 DEF PatchStatus
  <2> HIDE DEF row
  <2>3. order'[o].edition = order[o].edition
    BY <1>t, <2>1, <2>2
  <2>4. completions'[o] = IF x = o /\ s = "completed" THEN completions[o] + 1
                                                      ELSE completions[o]
    BY <1>t, <1>4 DEF PatchStatus
  <2>5. since'[o] = IF x = o /\ s = "completed" /\ completions[o] = 0
                    THEN order[o].edition ELSE since[o]
    BY <1>t, <1>4 DEF PatchStatus
  <2>6. ASSUME NEW q \in Queues, outbox'[q][o] # outbox[q][o]
        PROVE  x = o /\ s = "completed"
    <3>1. outbox'[q] = [outbox[q] EXCEPT ![x] = IF q \in Notified(x, s) THEN @ + 1 ELSE @]
      BY <1>4 DEF PatchStatus
    <3>2. outbox[q] \in [Orders -> Nat]
      BY <1>t DEF Counter
    <3> QED
      BY <2>6, <3>1, <3>2 DEF Notified
  <2> QED
    BY <1>4, <2>3, <2>4, <2>5, <2>6 DEF PatchStatus
<1>5. ASSUME NEW p \in Queues, NEW x \in Orders, Publish(p, x)
      PROVE  /\ UNCHANGED <<completions, since, order>>
             /\ \A q \in Queues : /\ outbox'[q][o] > 0 => outbox[q][o] > 0
                                  /\ published'[q][o] > 0 => published[q][o] > 0
                                                              \/ outbox[q][o] > 0
  <2>1. outbox[p][x] \in Nat /\ outbox[p][x] > 0 /\ published[p][x] \in Nat
    BY <1>t, <1>5 DEF Publish, Counter
  <2>2. \A q \in Queues : outbox'[q][o] = IF q = p /\ o = x THEN outbox[p][x] - 1
                                                            ELSE outbox[q][o]
    <3> DEFINE n == outbox[p][x] - 1
    <3>1. n \in Nat /\ outbox' = [outbox EXCEPT ![p][x] = n]
      BY <1>5, <2>1 DEF Publish
    <3> HIDE DEF n
    <3>2. \A q \in Queues, y \in Orders :
              [outbox EXCEPT ![p][x] = n][q][y] = IF q = p /\ y = x THEN n ELSE outbox[q][y]
      BY <1>t, <3>1, CounterUpdate
    <3> QED
      BY <3>1, <3>2 DEF n
  <2>3. \A q \in Queues : published'[q][o] = IF q = p /\ o = x THEN published[p][x] + 1
                                                               ELSE published[q][o]
    <3> DEFINE n == published[p][x] + 1
    <3>1. n \in Nat /\ published' = [published EXCEPT ![p][x] = n]
      BY <1>5, <2>1 DEF Publish
    <3> HIDE DEF n
    <3>2. PICK old \in Counter : old = published
      BY <1>t
    <3>3. \A q \in Queues, y \in Orders :
              [old EXCEPT ![p][x] = n][q][y] = IF q = p /\ y = x THEN n ELSE old[q][y]
      BY <3>1, <3>2, CounterUpdate
    <3> QED
      BY <3>1, <3>2, <3>3 DEF n
  <2> QED
    BY <1>5, <2>1, <2>2, <2>3 DEF Publish
<1>6. CASE Crash
  <2>1. Quiet
    BY <1>t, <1>6 DEF Crash, NoEvents
  <2> QED
    BY <1>0, <1>t, <2>1
<1>7. ASSUME UNCHANGED <<order, outbox, completions, since, published>>
      PROVE  Quiet
  BY <1>t, <1>7
<1>8. ASSUME NEW q \in Queues, Reject(q) \/ Deliver(q) \/ Ack(q)
      PROVE  Quiet
  BY <1>7, <1>8 DEF Reject, Deliver, Ack, history
<1>9. CASE ReadOrderLines \/ StoreConsumption \/ PrepareMail \/ SendMail \/ Restart
           \/ UNCHANGED vars
  BY <1>0, <1>t, <1>7, <1>9 DEF ReadOrderLines, StoreConsumption, PrepareMail, SendMail,
       Restart, vars, unmoved, history
<1>10. CASE Staff
  <2>1. ASSUME Quiet
        PROVE  /\ completions'[o] >= completions[o]
               /\ completions[o] > 0 => since'[o] = since[o]
               /\ completions[o] = 0 /\ completions'[o] > 0 => since'[o] = order'[o].edition
               /\ order'[o].edition >= order[o].edition
    BY <1>0, <1>t, <2>1
  <2>2. ASSUME NEW x \in Orders, NEW s \in Targets, PatchStatus(x, s)
        PROVE  /\ completions'[o] >= completions[o]
               /\ completions[o] > 0 => since'[o] = since[o]
               /\ completions[o] = 0 /\ completions'[o] > 0 => since'[o] = order'[o].edition
               /\ order'[o].edition >= order[o].edition
               /\ \A q \in Queues :
                     outbox'[q][o] > 0 => outbox[q][o] > 0 \/ completions'[o] > 0
               /\ published' = published
    BY <1>t, <1>4, <2>2
  <2> QED
    BY <1>1, <1>2, <1>3, <1>10, <2>1, <2>2 DEF Staff
<1>11. ASSUME NEW q \in Queues, Background(q)
       PROVE  \/ \E x \in Orders : Publish(q, x)
              \/ Deliver(q) \/ Ack(q)
              \/ ReadOrderLines \/ StoreConsumption \/ PrepareMail \/ SendMail
  BY <1>11 DEF Background
<1> QED
  BY <1>0, <1>t, <1>5, <1>6, <1>8, <1>9, <1>10, <1>11 DEF Next

\* A handler that is about to store rows has just read the order, or had read
\* it before.
LEMMA PreparedStep ==
    ASSUME TypeOK, JobInv, [Next]_vars, job'["consumption"].stage = "prepared"
    PROVE  LET c == "consumption" IN
           \/ job'[c] = job[c]
           \/ /\ order' = order /\ job[c].order \in Orders
              /\ job'[c].order = job[c].order
              /\ job'[c].edition = order[job[c].order].edition
<1> DEFINE c == "consumption"
<1>t. c \in Queues /\ "emails" # c /\ job \in [Queues -> Job]
  BY DEF TypeOK, Queues
<1>j. NoJob.stage = "idle"
  BY DEF NoJob
<1>1. CASE Staff \/ Restart \/ UNCHANGED vars
  BY <1>1 DEF Staff, Restart, Create, UpdateItems, Remove, PatchStatus, events,
              history, vars
<1>2. ASSUME NEW q \in Queues, Deliver(q)
      PROVE  job'[c] = job[c]
  <2>1. job'[c] = IF q = c THEN [stage |-> "delivered", order |-> Head(queue[q]),
                                 edition |-> 0]
                           ELSE job[c]
    BY <1>t, <1>2 DEF Deliver
  <2> QED
    BY <2>1
<1>3. ASSUME NEW q \in Queues, job' = [job EXCEPT ![q] = NoJob]
      PROVE  job'[c] = job[c]
  BY <1>t, <1>j, <1>3
<1>4. CASE ReadOrderLines
  <2>1. CASE FindLines
    <3> DEFINE row == [job[c] EXCEPT !.stage = "prepared",
                                     !.edition = order[job[c].order].edition]
    <3>1. row.order = job[c].order /\ row.edition = order[job[c].order].edition
      BY <1>t DEF Job
    <3>2. job' = [job EXCEPT ![c] = row]
      BY <2>1 DEF FindLines
    <3>3. job[c].order \in Orders /\ order' = order
      BY <1>4 DEF ReadOrderLines, Busy, JobInv, unmoved, Queues
    <3> HIDE DEF row
    <3> QED
      BY <1>t, <3>1, <3>2, <3>3
  <2>2. CASE FindNoOrder
    BY <1>3, <1>t, <2>2 DEF FindNoOrder
  <2>3. CASE FindNothing
    BY <2>3, PerformUpdate
  <2> QED
    BY <1>4, <2>1, <2>2, <2>3, ReadCases
<1>5. CASE StoreConsumption
  BY <1>5, StoreUpdate
<1>6. CASE PrepareMail \/ SendMail
  <2>1. \E stage \in Stages : Enter("emails", stage)
    BY <1>6 DEF PrepareMail, SendMail, Stages
  <2> QED
    BY <1>t, <2>1 DEF Enter
<1>7. CASE Crash
  BY <1>t, <1>j, <1>7 DEF Crash
<1>8. ASSUME NEW q \in Queues, Background(q) \/ Reject(q)
      PROVE  \/ \E x \in Orders : Publish(q, x)
             \/ Deliver(q) \/ Ack(q) \/ Reject(q)
             \/ ReadOrderLines \/ StoreConsumption \/ PrepareMail \/ SendMail
  BY <1>8 DEF Background
<1>9. ASSUME NEW q \in Queues, \E x \in Orders : Publish(q, x)
      PROVE  job' = job
  BY <1>9 DEF Publish
<1>10. ASSUME NEW q \in Queues, Ack(q) \/ Reject(q)
       PROVE  job' = [job EXCEPT ![q] = NoJob]
  BY <1>10 DEF Ack, Reject
<1> QED
  BY <1>1, <1>2, <1>3, <1>4, <1>5, <1>6, <1>7, <1>8, <1>9, <1>10 DEF Next

\* Every step keeps events behind completions.
LEMMA FollowStep ==
    ASSUME TypeOK, JobInv, NoEventIsLost, EventsFollowCompletion, [Next]_vars
    PROVE  EventsFollowCompletion'
<1> DEFINE c == "consumption"
<1>t. /\ c \in Queues
      /\ \A o \in Orders : /\ completions[o] \in Nat /\ completions'[o] \in Nat
                           /\ since[o] \in Nat /\ since'[o] \in Nat
                           /\ order[o].edition \in Nat /\ order'[o].edition \in Nat
  <2>1. TypeOK'
    BY TypeStep
  <2> QED
    <3>1. Editions \subseteq Nat
      BY BoundAssumption DEF Editions
    <3> QED
      BY <2>1, <3>1 DEF TypeOK, OrderRow, Queues
<1>1. ASSUME NEW q \in Queues, NEW o \in Orders, outbox'[q][o] > 0 \/ published'[q][o] > 0
      PROVE  completions'[o] > 0
  <2>1. outbox[q][o] > 0 \/ published[q][o] > 0 => completions[o] > 0
    BY DEF EventsFollowCompletion
  <2>2. outbox[q][o] > 0 \/ published[q][o] > 0 \/ completions'[o] > 0
    BY <1>1, HistoryStep
  <2>3. completions'[o] >= completions[o]
    BY HistoryStep
  <2> QED
    BY <1>t, <2>1, <2>2, <2>3
<1>2. ASSUME NEW o \in Orders, completions'[o] > 0
      PROVE  since'[o] <= order'[o].edition
  <2>1. completions[o] > 0 => since[o] <= order[o].edition
    BY DEF EventsFollowCompletion
  <2> QED
    BY <1>2, <1>t, <2>1, HistoryStep
<1>3. ASSUME NEW o \in Orders, job'[c].stage = "prepared", job'[c].order = o
      PROVE  since'[o] <= job'[c].edition
  <2>1. /\ job[c].order = o
        /\ job'[c] = job[c] \/ job'[c].edition = order[o].edition
    BY <1>3, PreparedStep
  <2>2. completions[o] > 0
    BY <1>t, <2>1, HeldWasCompleted
  <2>3. since'[o] = since[o] /\ since[o] <= order[o].edition
    BY <2>2, HistoryStep DEF EventsFollowCompletion
  <2>4. CASE job'[c] = job[c]
    BY <1>3, <2>1, <2>3, <2>4 DEF EventsFollowCompletion
  <2>5. CASE job'[c].edition = order[o].edition
    BY <2>3, <2>5
  <2> QED
    BY <2>1, <2>4, <2>5
<1> QED
  BY <1>1, <1>2, <1>3 DEF EventsFollowCompletion

\* Every step keeps the charged items behind the completion.
LEMMA RowsStep ==
    ASSUME TypeOK, JobInv, NoEventIsLost, EventsFollowCompletion, RowsFollowCompletion,
           [Next]_vars
    PROVE  RowsFollowCompletion'
<1> DEFINE c == "consumption"
<1> SUFFICES ASSUME NEW row \in rows'
             PROVE  completions'[row[1]] > 0 /\ row[2] >= since'[row[1]]
  BY DEF RowsFollowCompletion
<1>t. /\ \A o \in Orders : completions[o] \in Nat /\ since[o] \in Nat
      /\ \A o \in Orders : completions'[o] \in Nat
      /\ rows \subseteq Orders \X Editions /\ c \in Queues
  <2>1. TypeOK'
    BY TypeStep
  <2> QED
    <3>1. Editions \subseteq Nat
      BY BoundAssumption DEF Editions
    <3> QED
      BY <2>1, <3>1 DEF TypeOK, Queues
<1>1. ASSUME NEW o \in Orders, completions[o] > 0, row[1] = o, row[2] >= since[o]
      PROVE  completions'[row[1]] > 0 /\ row[2] >= since'[row[1]]
  BY <1>1, <1>t, HistoryStep
<1>2. CASE row \in rows
  <2>1. row[1] \in Orders /\ completions[row[1]] > 0 /\ row[2] >= since[row[1]]
    BY <1>2, <1>t DEF RowsFollowCompletion
  <2> QED
    BY <1>1, <2>1
<1>3. CASE row \notin rows
  <2>0. ~FindNothing
    BY <1>3 DEF FindNothing, ReadOrderLines
  <2>1. StoreConsumption
    BY <1>3, <2>0, WorkStep, AckUpdate DEF work
  <2>2. /\ row = <<job[c].order, job[c].edition>>
        /\ job[c].order \in Orders /\ job[c].stage = "prepared"
        /\ job[c].edition \in Nat
    BY <1>3, <2>1, StoreUpdate, BoundAssumption DEF Editions
  <2>3. completions[job[c].order] > 0 /\ since[job[c].order] <= job[c].edition
    BY <1>t, <2>2, HeldWasCompleted DEF EventsFollowCompletion
  <2>4. row[1] = job[c].order /\ row[2] = job[c].edition
    BY <2>2
  <2>5. row[2] >= since[job[c].order]
    BY <1>t, <2>2, <2>3, <2>4
  <2> QED
    BY <1>1, <2>2, <2>3, <2>4, <2>5
<1> QED
  BY <1>2, <1>3

-----------------------------------------------------------------------------
(* Theorems.                                                               *)

\* Every step keeps the invariant.
LEMMA InvariantStep == IInv /\ [Next]_vars => IInv'
<1> SUFFICES ASSUME IInv, [Next]_vars PROVE IInv'
  OBVIOUS
<1>1. /\ TypeOK /\ JobInv /\ NoEventIsLost /\ BatchPrecedesAck
      /\ EventsFollowCompletion /\ RowsFollowCompletion
  BY DEF IInv
<1>2. TypeOK' /\ JobInv'
  BY <1>1, TypeStep
<1>3. NoEventIsLost'
  <2>1. \A p \in Queues, x \in Orders :
          published'[p][x] = acked'[p][x] + Waiting(p, x)' + InHand(p, x)'
    BY <1>1, BalanceStep
  <2> QED
    BY <2>1 DEF NoEventIsLost
<1>4. BatchPrecedesAck' /\ EventsFollowCompletion' /\ RowsFollowCompletion'
  BY <1>1, BatchStep, FollowStep, RowsStep
<1> QED
  BY <1>2, <1>3, <1>4 DEF IInv

\* The invariant holds throughout.
LEMMA Invariant == Spec => []IInv
<1>1. Init => IInv
  BY InitInvariant
<1>2. IInv /\ [Next]_vars => IInv'
  BY InvariantStep
<1> QED
  BY <1>1, <1>2, PTL DEF Spec

\* All tables, queues and handlers keep to their types.
THEOREM TypeCorrect == Spec => []TypeOK
<1>1. IInv => TypeOK
  BY DEF IInv
<1> QED
  BY <1>1, Invariant, PTL

\* No event that the broker has accepted is lost or there twice, whatever
\* handlers fail and however often the process crashes.
THEOREM EventsAreKept == Spec => []NoEventIsLost
<1>1. IInv => NoEventIsLost
  BY DEF IInv
<1> QED
  BY <1>1, Invariant, PTL

\* No order is charged to the stock with items older than its completion.
THEOREM RowsAreFollowing == Spec => []RowsFollowCompletion
<1>1. IInv => RowsFollowCompletion
  BY DEF IInv
<1> QED
  BY <1>1, Invariant, PTL

-----------------------------------------------------------------------------
(* The consumption queue implements AtLeastOnce.                           *)

\* No job is submitted, performed or retired at first.
LEMMA RefineInit == Init => Consumption!Init
BY DEF Init, Consumption!Init, NoEvents, Queues

\* The event that the process holds is one that is not acknowledged.
LEMMA HeldIsOpen ==
    ASSUME TypeOK, NoEventIsLost, job["consumption"].order \in Orders
    PROVE  Consumption!Open(job["consumption"].order)
<1> DEFINE c == "consumption"
           o == job[c].order
<1>1. /\ c \in Queues /\ published[c][o] \in Nat /\ acked[c][o] \in Nat
      /\ Waiting(c, o) \in Nat
  BY CountsAreNat DEF Queues
<1>2. published[c][o] = acked[c][o] + Waiting(c, o) + InHand(c, o)
  BY <1>1 DEF NoEventIsLost
<1>3. InHand(c, o) = 1
  BY DEF InHand
<1>4. acked[c][o] < published[c][o]
  BY <1>1, <1>2, <1>3
<1> QED
  BY <1>4 DEF Consumption!Open

\* The broker's acceptance of a consumption event submits a job; no other step
\* does.
LEMMA SubmitStep ==
    ASSUME TypeOK, [Next]_vars
    PROVE  \/ published'["consumption"] = published["consumption"]
           \/ \E o \in Orders :
                /\ published'["consumption"]
                     = [published["consumption"] EXCEPT ![o] = @ + 1]
                /\ UNCHANGED <<batches, passes, acked>>
<1> DEFINE c == "consumption"
<1>t. c \in Queues /\ published \in Counter
  BY DEF TypeOK, Queues
<1>1. ASSUME NEW q \in Queues, NEW o \in Orders, Publish(q, o)
      PROVE  \/ published'[c] = published[c]
             \/ /\ published'[c] = [published[c] EXCEPT ![o] = @ + 1]
                /\ UNCHANGED <<batches, passes, acked>>
  <2> DEFINE line == [published[q] EXCEPT ![o] = @ + 1]
  <2>1. published' = [published EXCEPT ![q] = line]
    BY <1>1 DEF Publish
  <2>2. q = c => line = [published[c] EXCEPT ![o] = @ + 1]
    OBVIOUS
  <2> HIDE DEF line
  <2>3. published'[c] = IF q = c THEN line ELSE published[c]
    BY <1>t, <2>1 DEF Counter
  <2> QED
    BY <1>1, <2>2, <2>3 DEF Publish
<1>2. CASE Staff \/ Crash \/ Restart \/ UNCHANGED vars
  BY <1>2 DEF Staff, Crash, Restart, Create, UpdateItems, Remove, PatchStatus, history, vars
<1>3. ASSUME NEW q \in Queues, Deliver(q) \/ Ack(q) \/ Reject(q)
      PROVE  published' = published
  BY <1>3 DEF Deliver, Ack, Reject, history
<1>4. CASE ReadOrderLines \/ StoreConsumption \/ PrepareMail \/ SendMail
  BY <1>4 DEF ReadOrderLines, StoreConsumption, PrepareMail, SendMail, unmoved, history
<1> QED
  BY <1>1, <1>2, <1>3, <1>4 DEF Next, Background

\* Every step is a step of the work queue or leaves it alone: accepting an
\* event submits a job, storing rows performs it, acknowledging retires it.
LEMMA RefineStep == IInv /\ [Next]_vars => [Consumption!Next]_(Consumption!vars)
<1> SUFFICES ASSUME IInv, [Next]_vars PROVE [Consumption!Next]_(Consumption!vars)
  OBVIOUS
<1> DEFINE c == "consumption"
           o == job[c].order
<1>i. TypeOK /\ JobInv /\ NoEventIsLost /\ BatchPrecedesAck /\ c \in Queues
  BY DEF IInv, Queues
<1>1. CASE UNCHANGED work
  <2>1. CASE published'[c] = published[c]
    BY <1>1, <2>1 DEF work, Consumption!vars
  <2>2. ASSUME NEW x \in Orders, published'[c] = [published[c] EXCEPT ![x] = @ + 1]
        PROVE  Consumption!Submit(x)
    BY <1>1, <2>2 DEF work, Consumption!Submit
  <2> QED
    BY <1>i, <2>1, <2>2, SubmitStep DEF Consumption!Next
<1>2. CASE StoreConsumption \/ FindNothing
  <2>0. PICK x \in Orders : x = o
    BY <1>i, <1>2, PerformUpdate
  <2>1. /\ \A y \in Orders :
             batches'[y] + passes'[y] = IF y = x THEN batches[y] + passes[y] + 1
                                        ELSE batches[y] + passes[y]
        /\ acked' = acked /\ published' = published
    BY <1>i, <1>2, <2>0, PerformUpdate
  <2>2. Consumption!Open(x)
    BY <1>i, <2>0, HeldIsOpen
  <2>3. [y \in Orders |-> batches'[y] + passes'[y]]
          = [[y \in Orders |-> batches[y] + passes[y]] EXCEPT ![x] = @ + 1]
    BY <2>0, <2>1
  <2>4. Consumption!Perform(x)
    BY <2>1, <2>2, <2>3 DEF Consumption!Perform
  <2> QED
    BY <2>0, <2>4 DEF Consumption!Next
<1>3. CASE Ack(c)
  <2>1. /\ o \in Orders /\ job[c].stage = "finished"
        /\ acked'[c] = [acked[c] EXCEPT ![o] = @ + 1]
        /\ batches' = batches /\ passes' = passes /\ published' = published
    BY <1>i, <1>3, AckUpdate
  <2>2. Consumption!Open(o)
    BY <1>i, <2>1, HeldIsOpen
  <2>3. acked[c][o] < batches[o] + passes[o]
    <3>1. acked[c][o] \in Nat /\ batches[o] \in Nat /\ passes[o] \in Nat
      BY <1>i, <2>1, CountsAreNat
    <3>2. acked[c][o] + 1 <= batches[o] + passes[o]
      BY <1>i, <2>1 DEF BatchPrecedesAck
    <3> QED
      BY <3>1, <3>2
  <2>4. Consumption!Retire(o)
    BY <2>1, <2>2, <2>3 DEF Consumption!Retire
  <2> QED
    BY <2>1, <2>4 DEF Consumption!Next
<1> QED
  BY <1>i, <1>1, <1>2, <1>3, WorkStep

\* The consumption queue, its handler and its acknowledgements implement an
\* at-least-once work queue, whatever handlers fail and however often the
\* process crashes.
THEOREM ConsumptionIsAtLeastOnce == Spec => ConsumptionAtLeastOnce
<1>1. Init => Consumption!Init
  BY RefineInit
<1>2. IInv /\ [Next]_vars => [Consumption!Next]_(Consumption!vars)
  BY RefineStep
<1> QED
  BY <1>1, <1>2, Invariant, PTL DEF Spec, ConsumptionAtLeastOnce, Consumption!Spec
-----------------------------------------------------------------------------
(* Work is done at most once per completion and failure: a second          *)
(* invariant on top of the first.                                          *)

\* The process holds an event of o whose work is still to be done.
Working(q, o) == IF job[q].order = o /\ job[q].stage \in {"delivered", "prepared"} THEN 1 ELSE 0

\* What was done for an order and what its events may still cause is covered
\* by its completions and the failures.
WorkIsCovered ==
    \A q \in Queues, o \in Orders :
        Done(q, o) + outbox[q][o] + Waiting(q, o) + Working(q, o) <= completions[o] + faults

WorkFollowsCompletion == \A q \in Queues, o \in Orders : Done(q, o) > 0 => completions[o] > 0

DueInv == WorkIsCovered /\ WorkFollowsCompletion

\* The terms of the balance are numbers.
LEMMA DueTerms ==
    ASSUME TypeOK, NEW p \in Queues, NEW x \in Orders
    PROVE  /\ Done(p, x) \in Nat /\ outbox[p][x] \in Nat /\ Waiting(p, x) \in Nat
           /\ Working(p, x) \in 0..1 /\ completions[x] \in Nat /\ faults \in Nat
<1>1. mails[x] \in Nat /\ batches[x] \in Nat /\ faults \in Nat
  BY BoundAssumption DEF TypeOK
<1> QED
  BY <1>1, CountsAreNat DEF Done, Working

\* A step that adds a, b, c and d to the work and e and f to what covers it
\* keeps it covered when a + b + c + d <= e + f.
LEMMA CoverKept ==
    ASSUME TypeOK, WorkIsCovered, NEW p \in Queues, NEW x \in Orders,
           NEW a \in Int, NEW b \in Int, NEW c \in Int, NEW d \in Int, NEW e \in Int, NEW f \in Int,
           a + b + c + d <= e + f,
           Done(p, x)' = Done(p, x) + a,
           outbox'[p][x] = outbox[p][x] + b,
           Waiting(p, x)' = Waiting(p, x) + c,
           Working(p, x)' = Working(p, x) + d,
           completions'[x] = completions[x] + e,
           faults' = faults + f
    PROVE  Done(p, x)' + outbox'[p][x] + Waiting(p, x)' + Working(p, x)' <= completions'[x] + faults'
<1> DEFINE D == Done(p, x)
           B == outbox[p][x]
           W == Waiting(p, x)
           H == Working(p, x)
           C == completions[x]
           F == faults
<1>1. D \in Nat /\ B \in Nat /\ W \in Nat /\ H \in 0..1 /\ C \in Nat /\ F \in Nat
  BY DueTerms
<1>2. D + B + W + H <= C + F
  BY DEF WorkIsCovered
<1>3. /\ Done(p, x)' = D + a /\ outbox'[p][x] = B + b /\ Waiting(p, x)' = W + c
      /\ Working(p, x)' = H + d /\ completions'[x] = C + e /\ faults' = F + f
  OBVIOUS
<1> HIDE DEF D, B, W, H, C, F
<1> QED
  BY <1>1, <1>2, <1>3

\* What a step leaves alone.
LEMMA DueFrame ==
    ASSUME TypeOK, NEW p \in Queues, NEW x \in Orders
    PROVE  /\ UNCHANGED <<batches, mails>> => Done(p, x)' = Done(p, x) + 0
           /\ outbox' = outbox => outbox'[p][x] = outbox[p][x] + 0
           /\ queue'[p] = queue[p] => Waiting(p, x)' = Waiting(p, x) + 0
           /\ job'[p] = job[p] => Working(p, x)' = Working(p, x) + 0
           /\ completions' = completions => completions'[x] = completions[x] + 0
           /\ faults' = faults => faults' = faults + 0
<1>1. /\ UNCHANGED <<batches, mails>> => Done(p, x)' = Done(p, x)
      /\ outbox' = outbox => outbox'[p][x] = outbox[p][x]
      /\ queue'[p] = queue[p] => Waiting(p, x)' = Waiting(p, x)
      /\ job'[p] = job[p] => Working(p, x)' = Working(p, x)
      /\ completions' = completions => completions'[x] = completions[x]
  BY DEF Done, Waiting, Working
<1>2. /\ Done(p, x) \in Nat /\ outbox[p][x] \in Nat /\ Waiting(p, x) \in Nat
      /\ Working(p, x) \in 0..1 /\ completions[x] \in Nat /\ faults \in Nat
  BY DueTerms
<1> QED
  BY <1>1, <1>2

\* An event that the broker accepts leaves the outbox.
LEMMA OutboxLess ==
    ASSUME TypeOK, NEW q \in Queues, NEW o \in Orders, Publish(q, o),
           NEW p \in Queues, NEW x \in Orders
    PROVE  outbox'[p][x] = outbox[p][x] + (-One(q, o, p, x))
<1>1. PICK old \in Counter : old = outbox
  BY DEF TypeOK
<1>2. old[p][x] \in Nat /\ old[q][o] \in Nat
  BY DEF Counter
<1>3. PICK k \in Nat : k = old[q][o] - 1
  BY <1>1, <1>2 DEF Publish
<1>4. outbox' = [old EXCEPT ![q][o] = k]
  BY <1>1, <1>3 DEF Publish
<1>5. PICK new \in Counter : new = [old EXCEPT ![q][o] = k]
  BY CounterUpdate
<1>6. new[p][x] = IF p = q /\ x = o THEN k ELSE old[p][x]
  BY <1>5, CounterUpdate
<1> QED
  BY <1>1, <1>2, <1>3, <1>4, <1>5, <1>6 DEF One

\* Every step keeps the work of queue p for order x covered.
LEMMA CoverStep ==
    ASSUME TypeOK, JobInv, WorkIsCovered, [Next]_vars, NEW p \in Queues, NEW x \in Orders
    PROVE  Done(p, x)' + outbox'[p][x] + Waiting(p, x)' + Working(p, x)' <= completions'[x] + faults'
<1> DEFINE Kept == Done(p, x)' + outbox'[p][x] + Waiting(p, x)' + Working(p, x)'
                     <= completions'[x] + faults'
<1>t. /\ queue \in [Queues -> Seq(Orders)] /\ job \in [Queues -> Job]
      /\ outbox \in Counter /\ batches \in [Orders -> Nat] /\ mails \in [Orders -> Nat]
      /\ completions \in [Orders -> Nat]
  BY DEF TypeOK
<1>j. NoJob.order = NoOrder /\ NoJob.order # x /\ NoJob.stage = "idle"
  BY NullAssumption DEF NoJob
<1>n. /\ Done(p, x) \in Nat /\ outbox[p][x] \in Nat /\ Waiting(p, x) \in Nat
      /\ Working(p, x) \in 0..1 /\ completions[x] \in Nat /\ faults \in Nat
  BY DueTerms
<1>0. ASSUME UNCHANGED <<batches, mails, outbox, completions, faults>>, queue'[p] = queue[p],
             job'[p] = job[p]
      PROVE  Kept
  BY <1>0, DueFrame, CoverKept
<1>1. ASSUME NEW o \in Orders,
             (\E phone \in BOOLEAN : Create(o, phone)) \/ UpdateItems(o) \/ Remove(o)
      PROVE  Kept
  BY <1>0, <1>1 DEF Create, UpdateItems, Remove, events, history
<1>2. ASSUME NEW o \in Orders, NEW s \in Targets, PatchStatus(o, s)
      PROVE  Kept
  <2> DEFINE b == IF o = x /\ p \in Notified(o, s) THEN 1 ELSE 0
             e == IF o = x /\ s = "completed" THEN 1 ELSE 0
             line == [outbox[p] EXCEPT ![o] = IF p \in Notified(o, s) THEN @ + 1 ELSE @]
  <2>1. b \in Int /\ e \in Int /\ 0 + b + 0 + 0 <= e + 0
    BY DEF Notified
  <2>2. outbox'[p] = line
    BY <1>2 DEF PatchStatus
  <2>3. line[x] = outbox[p][x] + b
    BY <1>t, <1>n DEF Counter
  <2>4. completions'[x] = completions[x] + e
    BY <1>t, <1>n, <1>2 DEF PatchStatus
  <2>5. outbox'[p][x] = outbox[p][x] + b
    BY <2>2, <2>3
  <2>6. UNCHANGED <<batches, mails, queue, job, faults>>
    BY <1>2 DEF PatchStatus
  <2> HIDE DEF b, e, line
  <2> QED
    BY <2>1, <2>4, <2>5, <2>6, DueFrame, CoverKept
<1>3. ASSUME NEW q \in Queues, NEW o \in Orders, Publish(q, o)
      PROVE  Kept
  <2> DEFINE n == One(q, o, p, x)
             m == -n
  <2>1. n \in Int /\ m \in Int /\ 0 + m + n + 0 <= 0 + 0
    BY DEF One
  <2>2. outbox'[p][x] = outbox[p][x] + m
    BY <1>3, OutboxLess DEF One
  <2>3. Waiting(p, x)' = Waiting(p, x) + n
    <3>1. Occurrences(Append(queue[q], o), x)
            = Occurrences(queue[q], x) + (IF o = x THEN 1 ELSE 0)
      BY <1>t, OccurrencesAppend
    <3>3. queue'[p] = IF p = q THEN Append(queue[q], o) ELSE queue[p]
      BY <1>t, <1>3 DEF Publish
    <3> QED
      BY <1>n, <3>1, <3>3 DEF Waiting, Occurrences, One
  <2>4. UNCHANGED <<batches, mails, job, completions, faults>>
    BY <1>3 DEF Publish
  <2> HIDE DEF n, m
  <2> QED
    BY <2>1, <2>2, <2>3, <2>4, DueFrame, CoverKept
<1>4. ASSUME NEW q \in Queues, Deliver(q)
      PROVE  Kept
  <2> DEFINE o == Head(queue[q])
             n == One(q, o, p, x)
             m == -n
             j == [stage |-> "delivered", order |-> o, edition |-> 0]
  <2>1. n \in Int /\ m \in Int /\ 0 + 0 + m + n <= 0 + 0
    BY DEF One
  <2>2. Waiting(p, x)' = Waiting(p, x) + m
    <3>1. Occurrences(queue[q], x) = Occurrences(Tail(queue[q]), x) + (IF o = x THEN 1 ELSE 0)
          /\ Tail(queue[q]) \in Seq(Orders)
      BY <1>t, <1>4, OccurrencesTail DEF Deliver
    <3>2. Occurrences(Tail(queue[q]), x) \in Nat
      BY <3>1, PlacesFinite
    <3>3. queue'[p] = IF p = q THEN Tail(queue[q]) ELSE queue[p]
      BY <1>t, <1>4 DEF Deliver
    <3> QED
      BY <1>n, <3>1, <3>2, <3>3 DEF Waiting, Occurrences, One
  <2>3. Working(p, x)' = Working(p, x) + n
    <3>1. job[q].stage = "idle" /\ job' = [job EXCEPT ![q] = j]
      BY <1>4 DEF Deliver
    <3>2. job'[p] = IF p = q THEN j ELSE job[p]
      BY <1>t, <3>1
    <3>3. p = q => job'[p].order = o /\ job'[p].stage = "delivered"
      BY <3>2
    <3> QED
      BY <1>n, <3>1, <3>2, <3>3 DEF Working, One
  <2>4. UNCHANGED <<batches, mails, outbox, completions, faults>>
    BY <1>4 DEF Deliver, history
  <2> HIDE DEF n, m
  <2> QED
    BY <2>1, <2>2, <2>3, <2>4, DueFrame, CoverKept
<1>5. ASSUME NEW q \in Queues, Ack(q)
      PROVE  Kept
  <2>1. Working(p, x)' = Working(p, x) + 0
    <3>1. job'[p] = IF p = q THEN NoJob ELSE job[p]
      BY <1>t, <1>5 DEF Ack
    <3>2. job[q].stage = "finished"
      BY <1>5 DEF Ack, Busy
    <3> QED
      BY <1>j, <1>n, <3>1, <3>2 DEF Working
  <2>2. UNCHANGED <<batches, mails, outbox, queue, completions, faults>>
    BY <1>5 DEF Ack
  <2>3. 0 + 0 + 0 + 0 <= 0 + 0
    OBVIOUS
  <2> QED
    BY <2>1, <2>2, <2>3, DueFrame, CoverKept
<1>6. ASSUME NEW q \in Queues, NEW f \in 0..1, PutBack(q), job' = [job EXCEPT ![q] = NoJob],
             job[q].order \in Orders, UNCHANGED <<batches, mails, outbox, completions>>,
             faults' = faults + f, f = 0 => job[q].stage \in {"delivered", "prepared"}
      PROVE  Kept
  <2> DEFINE n == One(q, job[q].order, p, x)
             d == IF job[q].stage \in {"delivered", "prepared"} THEN -n ELSE 0
  <2>1. n \in Int /\ d \in Int /\ f \in Int /\ 0 + 0 + n + d <= 0 + f
    BY <1>6 DEF One
  <2>2. Waiting(p, x)' = Waiting(p, x) + n
    <3>1. Occurrences(queue'[q], x) = Occurrences(queue[q], x) + (IF job[q].order = x THEN 1 ELSE 0)
      BY <1>t, <1>6, PutBackUpdate
    <3>2. p # q => queue'[p] = queue[p]
      BY <1>t, <1>6, PutBackUpdate
    <3> QED
      BY <1>n, <3>1, <3>2 DEF Waiting, Occurrences, One
  <2>3. Working(p, x)' = Working(p, x) + d
    <3>1. job'[p] = IF p = q THEN NoJob ELSE job[p]
      BY <1>t, <1>6
    <3> QED
      BY <1>j, <1>n, <3>1 DEF Working, One
  <2> HIDE DEF n, d
  <2> QED
    BY <1>6, <2>1, <2>2, <2>3, DueFrame, CoverKept
<1>7. ASSUME ReadOrderLines, ~FindNothing PROVE Kept
  <2> DEFINE q == "consumption"
  <2>1. q \in Queues /\ job[q].order \in Orders /\ job[q].stage = "delivered"
    BY <1>7 DEF ReadOrderLines, Busy, JobInv, Queues
  <2>2. UNCHANGED <<batches, mails, outbox, completions, faults>>
    BY <1>7 DEF ReadOrderLines, unmoved, history
  <2>3. CASE FindLines
    <3> DEFINE row == [job[q] EXCEPT !.stage = "prepared",
                                     !.edition = order[job[q].order].edition]
    <3>0. row.order = job[q].order /\ row.stage = "prepared"
      BY <1>t, <2>1 DEF Job
    <3>1. job' = [job EXCEPT ![q] = row] /\ queue' = queue
      BY <2>3 DEF FindLines
    <3> HIDE DEF row
    <3>2. Working(p, x)' = Working(p, x) + 0
      BY <1>t, <1>n, <2>1, <3>0, <3>1 DEF Working
    <3>3. 0 + 0 + 0 + 0 <= 0 + 0
      OBVIOUS
    <3> QED
      BY <2>2, <3>1, <3>2, <3>3, DueFrame, CoverKept
  <2>4. CASE FindNoOrder
    <3>1. PutBack(q) /\ job' = [job EXCEPT ![q] = NoJob] /\ faults' = faults + 0
      BY <1>n, <2>4 DEF FindNoOrder, ReadOrderLines, unmoved
    <3>2. \A f \in 0..1 : f = 0 => Kept
      <4> SUFFICES ASSUME NEW f \in 0..1, f = 0 PROVE Kept
        OBVIOUS
      <4>1. faults' = faults + f /\ UNCHANGED <<batches, mails, outbox, completions>>
        BY <2>2, <3>1
      <4> HIDE DEF Kept
      <4> QED
        BY <1>6, <2>1, <3>1, <4>1
    <3> QED
      BY <3>2
  <2> QED
    BY <1>7, <2>3, <2>4, ReadCases
<1>8. ASSUME NEW q \in Queues, NEW stage \in Stages, Enter(q, stage), job[q].order \in Orders,
             job[q].stage \in {"delivered", "prepared"}, NEW n \in 0..1,
             n = 1 => stage = "finished",
             UNCHANGED <<outbox, queue, completions, faults>>,
             Done(p, x)' = Done(p, x) + (IF p = q /\ job[q].order = x THEN n ELSE 0)
      PROVE  Kept
  <2> DEFINE a == IF p = q /\ job[q].order = x THEN n ELSE 0
             d == IF p = q /\ job[q].order = x /\ stage \notin {"delivered", "prepared"} THEN -1 ELSE 0
  <2>1. a \in Int /\ d \in Int /\ a + 0 + 0 + d <= 0 + 0
    BY <1>8
  <2>2. Working(p, x)' = Working(p, x) + d
    <3>1. /\ job'[q].stage = stage /\ job'[p].order = job[p].order
          /\ p # q => job'[p] = job[p]
      BY <1>t, <1>8, EnterUpdate
    <3> QED
      BY <1>n, <1>8, <3>1 DEF Working
  <2>3. Done(p, x)' = Done(p, x) + a
    BY <1>8
  <2> HIDE DEF a, d
  <2> QED
    BY <1>8, <2>1, <2>2, <2>3, DueFrame, CoverKept
<1>9. ASSUME StoreConsumption \/ FindNothing PROVE Kept
  <2> DEFINE c == "consumption"
  <2>1. /\ job[c].order \in Orders /\ job[c].stage \in {"delivered", "prepared"}
    BY <1>9, PerformUpdate
  <2>2. /\ mails' = mails /\ Enter(c, "finished")
        /\ UNCHANGED <<outbox, queue, completions, faults>>
    BY <1>9 DEF StoreConsumption, FindNothing, ReadOrderLines, unmoved, history
  <2>3. \/ batches' = batches
        \/ batches' = [batches EXCEPT ![job[c].order] = @ + 1]
    BY <1>9 DEF StoreConsumption, FindNothing, ReadOrderLines
  <2>4. \E n \in 0..1 :
          Done(p, x)' = Done(p, x) + (IF p = c /\ job[c].order = x THEN n ELSE 0)
    <3>1. CASE batches' = batches
      <4>1. Done(p, x)' = Done(p, x) + (IF p = c /\ job[c].order = x THEN 0 ELSE 0)
        BY <1>n, <2>2, <3>1 DEF Done
      <4> QED
        BY <4>1
    <3>2. CASE batches' = [batches EXCEPT ![job[c].order] = @ + 1]
      <4>1. Done(p, x)' = Done(p, x) + (IF p = c /\ job[c].order = x THEN 1 ELSE 0)
        BY <1>t, <1>n, <2>1, <2>2, <3>2 DEF Done
      <4> QED
        BY <4>1
    <3> QED
      BY <2>3, <3>1, <3>2
  <2> QED
    BY <1>8, <2>1, <2>2, <2>4 DEF Queues, Stages
<1>10. ASSUME PrepareMail PROVE Kept
  <2>1. job["emails"].order \in Orders /\ job["emails"].stage = "delivered"
    BY <1>10 DEF PrepareMail, Busy, JobInv, Queues
  <2>2. PICK stage \in {"finished", "prepared"} : Enter("emails", stage)
    BY <1>10 DEF PrepareMail
  <2>3. UNCHANGED <<batches, mails, outbox, queue, completions, faults>>
    BY <1>10 DEF PrepareMail, unmoved, history
  <2>4. Done(p, x)' = Done(p, x) + (IF p = "emails" /\ job["emails"].order = x THEN 0 ELSE 0)
    BY <1>n, <2>3 DEF Done
  <2> QED
    BY <1>8, <2>1, <2>2, <2>3, <2>4 DEF Queues, Stages
<1>11. ASSUME SendMail PROVE Kept
  <2>1. job["emails"].order \in Orders /\ job["emails"].stage = "prepared"
    BY <1>11 DEF SendMail, Busy, JobInv, Queues
  <2>2. /\ mails' = [mails EXCEPT ![job["emails"].order] = @ + 1] /\ Enter("emails", "finished")
        /\ UNCHANGED <<batches, outbox, queue, completions, faults>>
    BY <1>11 DEF SendMail, unmoved, history
  <2>3. Done(p, x)' = Done(p, x) + (IF p = "emails" /\ job["emails"].order = x THEN 1 ELSE 0)
    BY <1>t, <1>n, <2>1, <2>2 DEF Done, Queues
  <2> QED
    BY <1>8, <2>1, <2>2, <2>3 DEF Queues, Stages
<1>12. ASSUME NEW q \in Queues, Reject(q)
       PROVE  Kept
  <2>1. job[q].order \in Orders
    BY <1>12 DEF Reject, JobInv
  <2>2. PICK f \in 0..1 : f = 1
    OBVIOUS
  <2>3. /\ PutBack(q) /\ job' = [job EXCEPT ![q] = NoJob] /\ faults' = faults + f
        /\ UNCHANGED <<batches, mails, outbox, completions>>
    BY <1>12, <2>2 DEF Reject, history
  <2>4. f = 0 => job[q].stage \in {"delivered", "prepared"}
    BY <2>2
  <2> HIDE DEF Kept
  <2> QED
    BY <1>6, <2>1, <2>3, <2>4
<1>13. ASSUME Crash PROVE Kept
  <2> DEFINE n == InHand(p, x)
             b == -outbox[p][x]
             d == -Working(p, x)
  <2>1. Waiting(p, x)' = Waiting(p, x) + n
    BY <1>13, CrashType DEF Waiting, Occurrences
  <2>2. Working(p, x)' = Working(p, x) + d
    BY <1>j, <1>n, <1>13, CrashType DEF Working
  <2>3. outbox'[p][x] = outbox[p][x] + b
    BY <1>n, <1>13 DEF Crash, NoEvents
  <2>4. n \in Int /\ b \in Int /\ d \in Int /\ 0 + b + n + d <= 0 + 1
    BY <1>n DEF InHand
  <2>5. faults' = faults + 1 /\ UNCHANGED <<batches, mails, completions>>
    BY <1>13 DEF Crash
  <2> HIDE DEF n, b, d
  <2>6. Done(p, x)' = Done(p, x) + 0 /\ completions'[x] = completions[x] + 0
    BY <2>5, DueFrame
  <2>7. PICK b0 \in Int, n0 \in Int, d0 \in Int : b0 = b /\ n0 = n /\ d0 = d
    BY <2>4
  <2>8. /\ outbox'[p][x] = outbox[p][x] + b0 /\ Waiting(p, x)' = Waiting(p, x) + n0
        /\ Working(p, x)' = Working(p, x) + d0 /\ faults' = faults + 1
        /\ 0 + b0 + n0 + d0 <= 0 + 1
    BY <2>1, <2>2, <2>3, <2>4, <2>5, <2>7
  <2>9. PICK z \in Int, u \in Int : z = 0 /\ u = 1
    OBVIOUS
  <2>10. /\ Done(p, x)' = Done(p, x) + z /\ completions'[x] = completions[x] + z
         /\ faults' = faults + u /\ z + b0 + n0 + d0 <= z + u
    BY <2>6, <2>8, <2>9
  <2> QED
    BY <2>8, <2>10, CoverKept
<1>14. ASSUME Restart \/ UNCHANGED vars PROVE Kept
  BY <1>0, <1>14 DEF Restart, history, vars
<1> HIDE DEF Kept
<1>15. ASSUME Staff PROVE Kept
  BY <1>1, <1>2, <1>15 DEF Staff
<1>16. ASSUME NEW q \in Queues, Background(q) PROVE Kept
  BY <1>3, <1>4, <1>5, <1>7, <1>9, <1>10, <1>11, <1>16 DEF Background
<1>17. Kept
  BY <1>12, <1>13, <1>14, <1>15, <1>16 DEF Next
<1> QED
  BY <1>17 DEF Kept

\* Work is only done for an order that was completed.
LEMMA WorkFollowsStep ==
    ASSUME TypeOK, JobInv, NoEventIsLost, EventsFollowCompletion, WorkFollowsCompletion,
           [Next]_vars, NEW p \in Queues, NEW x \in Orders, Done(p, x)' > 0
    PROVE  completions'[x] > 0
<1>t. /\ batches \in [Orders -> Nat] /\ mails \in [Orders -> Nat]
      /\ completions \in [Orders -> Nat]
  BY DEF TypeOK
<1>1. completions'[x] >= completions[x] /\ completions'[x] \in Nat
  BY HistoryStep, TypeStep DEF TypeOK
<1>2. Done(p, x)' = Done(p, x) \/ StoreConsumption \/ SendMail
  BY DEF Next, Staff, Background, vars, Create, UpdateItems, Remove, PatchStatus, Publish, Deliver,
         Ack, ReadOrderLines, PrepareMail, Reject, Crash, Restart, events, history, unmoved, Done
<1>3. CASE Done(p, x)' = Done(p, x)
  BY <1>t, <1>1, <1>3 DEF WorkFollowsCompletion
<1>4. ASSUME NEW q \in Queues, job[q].order \in Orders, job[q].order = x
      PROVE  completions'[x] > 0
  BY <1>t, <1>1, <1>4, HeldWasCompleted
<1>5. CASE StoreConsumption /\ Done(p, x)' # Done(p, x)
  <2>1. /\ job["consumption"].order \in Orders /\ "consumption" \in Queues /\ mails' = mails
        /\ \/ batches' = [batches EXCEPT ![job["consumption"].order] = @ + 1]
           \/ batches' = batches
    BY <1>5, StoreUpdate DEF StoreConsumption, Queues
  <2>2. job["consumption"].order = x
    BY <1>t, <1>5, <2>1 DEF Done
  <2> QED
    BY <1>4, <2>1, <2>2
<1>6. CASE SendMail /\ Done(p, x)' # Done(p, x)
  <2>1. /\ job["emails"].order \in Orders /\ "emails" \in Queues
        /\ mails' = [mails EXCEPT ![job["emails"].order] = @ + 1] /\ batches' = batches
    BY <1>6 DEF SendMail, Busy, JobInv, Queues
  <2>2. job["emails"].order = x
    BY <1>t, <1>6, <2>1 DEF Done
  <2> QED
    BY <1>4, <2>1, <2>2
<1> QED
  BY <1>2, <1>3, <1>5, <1>6

\* The second invariant holds throughout.
LEMMA DueInvariant == Spec => [](IInv /\ DueInv)
<1>1. Init => IInv /\ DueInv
  <2> SUFFICES ASSUME Init PROVE DueInv
    BY InitInvariant
  <2>1. ASSUME NEW q \in Queues, NEW o \in Orders
        PROVE  /\ Done(q, o) = 0 /\ outbox[q][o] = 0 /\ Waiting(q, o) = 0 /\ Working(q, o) = 0
               /\ completions[o] = 0 /\ faults = 0
    <3>1. Waiting(q, o) = 0
      BY OccurrencesEmpty DEF Init, Waiting, Occurrences
    <3>2. Working(q, o) = 0
      BY DEF Init, NoJob, Working
    <3> QED
      BY <3>1, <3>2 DEF Init, Done, NoEvents
  <2> QED
    BY <2>1 DEF DueInv, WorkIsCovered, WorkFollowsCompletion
<1>2. IInv /\ DueInv /\ [Next]_vars => (IInv /\ DueInv)'
  <2> SUFFICES ASSUME IInv, DueInv, [Next]_vars PROVE (IInv /\ DueInv)'
    OBVIOUS
  <2>1. IInv'
    BY InvariantStep
  <2>2. WorkIsCovered'
    BY CoverStep DEF IInv, DueInv, WorkIsCovered
  <2>3. WorkFollowsCompletion'
    BY WorkFollowsStep DEF IInv, DueInv, WorkFollowsCompletion
  <2> QED
    BY <2>1, <2>2, <2>3 DEF DueInv
<1> QED
  BY <1>1, <1>2, PTL DEF Spec

\* An order is charged to the stock, and its customer is mailed, at most once
\* per completion and once per failure, and never without a completion
\* (updateStatus, calculateAndStoreConsumption, sendOrderCompletionEmail).
THEOREM WorkIsAlwaysDue == Spec => []WorkIsDue
<1>1. IInv /\ DueInv => WorkIsDue
  <2> SUFFICES ASSUME IInv, DueInv, NEW q \in Queues, NEW o \in Orders
               PROVE  Done(q, o) <= IF completions[o] = 0 THEN 0 ELSE completions[o] + faults
    BY DEF WorkIsDue
  <2>1. /\ Done(q, o) \in Nat /\ outbox[q][o] \in Nat /\ Waiting(q, o) \in Nat
        /\ Working(q, o) \in 0..1 /\ completions[o] \in Nat /\ faults \in Nat
    BY DueTerms DEF IInv
  <2>2. Done(q, o) + outbox[q][o] + Waiting(q, o) + Working(q, o) <= completions[o] + faults
    BY DEF DueInv, WorkIsCovered
  <2>3. Done(q, o) > 0 => completions[o] > 0
    BY DEF DueInv, WorkFollowsCompletion
  <2>4. Done(q, o) <= completions[o] + faults
    BY <2>1, <2>2
  <2> QED
    BY <2>1, <2>3, <2>4
<1> QED
  BY <1>1, DueInvariant, PTL
=============================================================================
