-------------------------- MODULE CustomersProofs --------------------------
(***************************************************************************)
(* Proofs about Customers, for any users, numbers and vouchers, and any    *)
(* number of requests being served at the same time.                       *)
(***************************************************************************)
EXTENDS Customers, FiniteSetTheorems, TLAPS

-----------------------------------------------------------------------------
(* The inductive invariant.                                                *)

\* Requests begin in the order of their numbers.
BegunInOrder ==
    \A r, x \in Requests : x < r /\ pc[x] = "idle" => pc[r] = "idle"

\* What the local variables of request r are at each of its awaits.
RequestInv(r) ==
    /\ pc[r] = "idle" => loc[r] = NoLocal /\ sent[r].user = NoUser /\ sent[r].resets = 0
    /\ pc[r] \in {"compare", "consume", "reset"} =>
         /\ loc[r].user \in Users /\ loc[r].code \in Requests
         /\ sent[loc[r].code].user = loc[r].user
    /\ pc[r] = "reset" => loc[r].code # otp[loc[r].user]
    /\ pc[r] \in {"account", "taken", "secure", "row", "forget", "learn", "save"} =>
         loc[r].user \in Users /\ loc[r].phone \in Phones
    /\ pc[r] \in {"customer", "assign", "first", "grant"} => loc[r].phone \in Phones
    /\ pc[r] \in {"customer", "assign", "grant"} => loc[r].voucher \in Vouchers
    /\ pc[r] = "issue" => loc[r].code # 0

\* The requests that have found code c good and not yet set a password.
Resetting(c) == {x \in Requests : pc[x] \in {"consume", "reset"} /\ loc[x].code = c}

\* A code that no two requests read has set a password, or is about to, once.
ResetOnce(c) ==
    ~sent[c].raced =>
        /\ \A x, y \in Resetting(c) : x = y
        /\ sent[c].resets <= 1
        /\ sent[c].resets = 1 => Resetting(c) = {}

\* Every password that was set is one request less to come.
Open == {r \in Requests : pc[r] # "over"}

ResetsAreBounded == \A c \in Requests : sent[c].resets + Cardinality(Open) <= MaxRequests

\* Where the registration r of a face has got to.
RegistrationInv(r) ==
    LET u == loc[r].user IN
    /\ pc[r] = "row" => collection[u] = {face[u]} \ {NoRow}
    /\ pc[r] = "forget" => face[u] # NoRow /\ loc[r].old = face[u].id /\ collection[u] = {face[u]}
    /\ pc[r] = "learn" => loc[r].old = face[u].id /\ collection[u] = {}
    /\ pc[r] = "save" => /\ loc[r].old = face[u].id
                         /\ collection[u] = {[id |-> r, phone |-> loc[r].phone]}

\* One registration of a user at a time; the provider has his face.
UserFaceInv(u) ==
    /\ \A x, y \in Registering(u) : x = y
    /\ \A r \in Registering(u) : RegistrationInv(r)
    /\ Registering(u) = {} => collection[u] = {face[u]} \ {NoRow}

\* A face belongs to the row of one user, and all is as it should be with
\* users who are not torn.
FaceInv ==
    /\ \A r \in Requests : pc[r] = "save" => loc[r].new
    /\ \A u \in Users : face[u].id # 0 => pc[face[u].id] = "over"
    /\ \A u, v \in Users : face[u].id = face[v].id /\ face[u].id # 0 => u = v
    /\ \A u \in Users \ astray.torn : UserFaceInv(u)

\* A row has the number of its user, and so has a registration, unless another
\* came with it or the number has changed since.
NumberInv ==
    /\ \A u \in Users \ astray.moved : face[u] # NoRow => face[u].phone = phone[u]
    /\ \A u \in Users : \A r \in Registering(u) : ~loc[r].late => loc[r].phone = phone[u]

\* A voucher that was never there is nobody's, and one that a request found
\* free is still free, unless it has changed since.
VoucherInv ==
    /\ \A v \in Vouchers : voucher[v].state = "absent" => voucher[v].owner = NoPhone /\ given[v] = NoUser
    /\ \A r \in Requests : pc[r] = "grant" /\ ~loc[r].late /\ There(loc[r].voucher) =>
         voucher[loc[r].voucher].owner = NoPhone

IInv ==
    /\ TypeOK
    /\ BegunInOrder
    /\ \A r \in Requests : RequestInv(r)
    /\ ResetsAreBounded
    /\ CodeIsGoodOnce /\ \A c \in Requests : ResetOnce(c)
    /\ FaceInv /\ NumberInv
    /\ VoucherInv /\ VoucherKeepsOwner
-----------------------------------------------------------------------------
(* What a step does to the requests.                                       *)

LEMMA NoLocalType == NoLocal \in Local
  BY BoundAssumption DEF NoLocal, Local

\* One request moves on to another await, with other local variables.
LEMMA MoveEffect ==
    ASSUME TypeOK, NEW r \in Requests, NEW label \in Labels, NEW l \in Local,
           Goto(r, label), loc' = [loc EXCEPT ![r] = l]
    PROVE  /\ pc' \in [Requests -> Labels] /\ loc' \in [Requests -> Local]
           /\ pc'[r] = label /\ loc'[r] = l
           /\ \A x \in Requests \ {r} : pc'[x] = pc[x] /\ loc'[x] = loc[x]
  BY DEF TypeOK, Goto

\* An answered request keeps nothing.
LEMMA FinishEffect ==
    ASSUME TypeOK, NEW r \in Requests, Finish(r)
    PROVE  /\ pc' \in [Requests -> Labels] /\ loc' \in [Requests -> Local]
           /\ pc'[r] = "over" /\ loc'[r] = NoLocal
           /\ \A x \in Requests \ {r} : pc'[x] = pc[x] /\ loc'[x] = loc[x]
<1>1. "over" \in Labels
  BY DEF Labels
<1> QED
  BY <1>1, NoLocalType, MoveEffect DEF Finish

\* A written number is unique, vouchers follow it, and only registrations of
\* this user learn of it.
LEMMA WriteEffect ==
    ASSUME TypeOK, NEW r \in Requests, NEW u \in Users, NEW new \in Phones, Write(r, u, new)
    PROVE  /\ pc' \in [Requests -> Labels] /\ loc' \in [Requests -> Local]
           /\ pc'[r] = "over" /\ loc'[r] = NoLocal
           /\ \A x \in Requests \ {r} :
                /\ pc'[x] = pc[x]
                /\ loc'[x] \in {loc[x], [loc[x] EXCEPT !.late = TRUE]}
                /\ x \in Registering(u) /\ phone' # phone => loc'[x].late
           /\ phone' \in [Users -> Phones] /\ \A a, b \in Users : phone'[a] = phone'[b] => a = b
           /\ \A a \in Users \ {u} : phone'[a] = phone[a]
           /\ voucher' \in [Vouchers -> VoucherRow]
           /\ \A v \in Vouchers :
                /\ voucher'[v].state = voucher[v].state
                /\ voucher'[v].owner = IF voucher[v].owner = phone[u] THEN phone'[u]
                                       ELSE voucher[v].owner
           /\ astray' \in Astray /\ astray'.torn = astray.torn
           /\ astray'.contested = astray.contested /\ astray.moved \subseteq astray'.moved
           /\ phone' # phone => u \in astray'.moved
<1>1. pc' \in [Requests -> Labels] /\ pc'[r] = "over" /\ \A x \in Requests \ {r} : pc'[x] = pc[x]
  BY DEF Write, Goto, TypeOK, Labels
<1>2. \A l \in Local : [l EXCEPT !.late = TRUE] \in Local /\ [l EXCEPT !.late = TRUE].late
  BY DEF Local
<1>3. \A w \in VoucherRow, p \in Phones :
        /\ [w EXCEPT !.owner = p] \in VoucherRow
        /\ [w EXCEPT !.owner = p].state = w.state /\ [w EXCEPT !.owner = p].owner = p
  BY DEF VoucherRow
<1>4. \A a \in Astray : LET b == [a EXCEPT !.moved = a.moved \cup {u}] IN
        /\ b \in Astray /\ b.torn = a.torn /\ b.contested = a.contested
        /\ b.moved = a.moved \cup {u}
  BY DEF Astray
<1>5. CASE UserOf(new) \subseteq {u} /\ new # phone[u]
  <2>1. /\ phone' = [phone EXCEPT ![u] = new] /\ voucher' = Cascade(phone[u], new)
        /\ loc' = [x \in Requests |->
                     IF x = r THEN NoLocal
                     ELSE IF x \in Registering(u) THEN [loc[x] EXCEPT !.late = TRUE] ELSE loc[x]]
        /\ astray' = [astray EXCEPT !.moved = astray.moved \cup {u}]
    BY <1>5, Zenon DEF Write
  <2>2. /\ loc' \in [Requests -> Local] /\ loc'[r] = NoLocal
        /\ \A x \in Requests \ {r} :
             /\ loc'[x] \in {loc[x], [loc[x] EXCEPT !.late = TRUE]}
             /\ x \in Registering(u) => loc'[x].late
    BY <1>2, <2>1, NoLocalType DEF TypeOK
  <2>3. /\ phone' \in [Users -> Phones] /\ phone'[u] = new
        /\ \A a \in Users \ {u} : phone'[a] = phone[a]
    BY <2>1 DEF TypeOK
  <2>4. \A a \in Users \ {u} : phone[a] # new
    BY <1>5 DEF UserOf
  <2>5. \A a, b \in Users : phone'[a] = phone'[b] => a = b
    BY <2>3, <2>4 DEF TypeOK
  <2>6. /\ voucher' \in [Vouchers -> VoucherRow]
        /\ \A v \in Vouchers :
             /\ voucher'[v].state = voucher[v].state
             /\ voucher'[v].owner = IF voucher[v].owner = phone[u] THEN phone'[u]
                                    ELSE voucher[v].owner
    BY <1>3, <2>1, <2>3 DEF TypeOK, Cascade
  <2>7. /\ astray' \in Astray /\ astray'.torn = astray.torn
        /\ astray'.contested = astray.contested /\ astray'.moved = astray.moved \cup {u}
    BY <1>4, <2>1 DEF TypeOK
  <2> QED
    BY <1>1, <2>2, <2>3, <2>5, <2>6, <2>7
<1>6. CASE ~(UserOf(new) \subseteq {u} /\ new # phone[u])
  <2>1. phone' = phone /\ astray' = astray /\ loc' = [loc EXCEPT ![r] = NoLocal]
    BY <1>6 DEF Write, TypeOK
  <2>2. voucher' \in [Vouchers -> VoucherRow] /\ \A v \in Vouchers : voucher'[v] = voucher[v]
    <3>1. voucher' = voucher \/ (new = phone[u] /\ voucher' = Cascade(new, new))
      BY <1>6 DEF Write
    <3>2. \A w \in VoucherRow : [w EXCEPT !.owner = w.owner] = w
      BY DEF VoucherRow
    <3> QED
      BY <3>1, <3>2 DEF Cascade, TypeOK
  <2>3. /\ loc' \in [Requests -> Local] /\ loc'[r] = NoLocal
        /\ \A x \in Requests \ {r} : loc'[x] = loc[x]
    BY <2>1, NoLocalType DEF TypeOK
  <2> QED
    BY <1>1, <2>1, <2>2, <2>3 DEF TypeOK
<1> QED
  BY <1>5, <1>6

\* A voucher that is there goes to whoever has the number, and requests that
\* hold it learn of it.
LEMMA AssignEffect ==
    ASSUME TypeOK, NEW r \in Requests, NEW v \in Vouchers, NEW p \in Phones, Assign(r, v, p)
    PROVE  /\ pc' \in [Requests -> Labels] /\ loc' \in [Requests -> Local]
           /\ pc'[r] = "over" /\ loc'[r] = NoLocal
           /\ \A x \in Requests \ {r} :
                /\ pc'[x] = pc[x]
                /\ loc'[x] \in {loc[x], [loc[x] EXCEPT !.late = TRUE]}
                /\ loc'[x] # loc[x] => loc[x].voucher = v
           /\ voucher' \in [Vouchers -> VoucherRow]
           /\ \A w \in Vouchers : voucher'[w].state = voucher[w].state
           /\ \A w \in Vouchers \ {v} : voucher'[w] = voucher[w]
           /\ IF There(v) /\ UserOf(p) # {}
              THEN /\ voucher'[v].owner = p
                   /\ \A x \in Requests \ {r} : loc[x].voucher = v => loc'[x].late
              ELSE voucher' = voucher
<1>1. CASE There(v) /\ UserOf(p) # {}
  <2>1. /\ voucher' = [voucher EXCEPT ![v].owner = p] /\ Goto(r, "over")
        /\ loc' = [x \in Requests |->
                     IF x = r THEN NoLocal
                     ELSE IF loc[x].voucher = v THEN [loc[x] EXCEPT !.late = TRUE] ELSE loc[x]]
    BY <1>1, Zenon DEF Assign
  <2>2. pc' \in [Requests -> Labels] /\ pc'[r] = "over" /\ \A x \in Requests \ {r} : pc'[x] = pc[x]
    BY <2>1 DEF Goto, TypeOK, Labels
  <2>3. \A l \in Local : [l EXCEPT !.late = TRUE] \in Local /\ [l EXCEPT !.late = TRUE].late
    BY DEF Local
  <2>4. /\ loc' \in [Requests -> Local] /\ loc'[r] = NoLocal
        /\ \A x \in Requests \ {r} :
             /\ loc'[x] \in {loc[x], [loc[x] EXCEPT !.late = TRUE]}
             /\ loc'[x] # loc[x] => loc[x].voucher = v
             /\ loc[x].voucher = v => loc'[x].late
    BY <2>1, <2>3, NoLocalType DEF TypeOK
  <2>5. /\ voucher' \in [Vouchers -> VoucherRow] /\ voucher'[v].owner = p
        /\ \A w \in Vouchers : voucher'[w].state = voucher[w].state
        /\ \A w \in Vouchers \ {v} : voucher'[w] = voucher[w]
    BY <2>1 DEF TypeOK, VoucherRow
  <2> QED
    BY <1>1, <2>2, <2>4, <2>5
<1>2. CASE ~(There(v) /\ UserOf(p) # {})
  <2>1. voucher' = voucher /\ Finish(r)
    BY <1>2 DEF Assign
  <2> QED
    BY <1>2, <2>1, FinishEffect DEF TypeOK
<1> QED
  BY <1>1, <1>2
-----------------------------------------------------------------------------
(* Type correctness is preserved.                                          *)

\* The values that steps give the local variables, the codes and the
\* histories are of their types.
LEMMA FieldTypes ==
    /\ \A l \in Local, u \in Users, c \in Nat :
         [l EXCEPT !.user = u, !.code = c] \in Local
    /\ \A l \in Local, u \in Users, p \in Phones :
         [l EXCEPT !.user = u, !.phone = p] \in Local
    /\ \A l \in Local, v \in Vouchers, p \in Phones :
         [l EXCEPT !.voucher = v, !.phone = p] \in Local
    /\ \A l \in Local, f \in 0..MaxRequests : [l EXCEPT !.old = f] \in Local
    /\ \A l \in Local : [l EXCEPT !.new = TRUE] \in Local
    /\ \A l \in Local, c \in Nat : [l EXCEPT !.code = c] \in Local
    /\ \A l \in Local, p \in Phones : [l EXCEPT !.phone = p] \in Local
    /\ \A l \in Local, v \in Vouchers : [l EXCEPT !.voucher = v] \in Local
  BY DEF Local

LEMMA CodeFields ==
    /\ \A c \in Code, b \in BOOLEAN : [c EXCEPT !.raced = b] \in Code
    /\ \A c \in Code : [c EXCEPT !.mailed = TRUE] \in Code
    /\ \A c \in Code, b \in BOOLEAN :
         LET d == [c EXCEPT !.raced = b] IN d.user = c.user /\ d.resets = c.resets
    /\ \A c \in Code, n \in 0..MaxRequests : [c EXCEPT !.resets = n] \in Code
  BY DEF Code

\* The row of a face has the number of a request, or none.
LEMMA FaceFields ==
    /\ \A row \in Face \cup {NoRow} : row.id = 0 \/ row.id \in Requests
    /\ \A row \in Face \cup {NoRow} : row.id = 0 <=> row = NoRow
    /\ 0 \notin Requests
<1>1. 0 \notin Requests
  BY DEF Requests
<1> QED
  BY <1>1 DEF Face, NoRow

LEMMA OpenIsFinite == IsFiniteSet(Open) /\ Cardinality(Open) \in Nat
<1>1. IsFiniteSet(Requests)
  BY FS_Interval, BoundAssumption DEF Requests
<1>2. Open \subseteq Requests
  BY DEF Open
<1> QED
  BY <1>1, <1>2, FS_Subset, FS_CardinalityType

\* The owner of a voucher is still a user when neither changes.
LEMMA OwnersKept ==
    ASSUME TypeOK, phone' = phone, voucher' \in [Vouchers -> VoucherRow],
           \A v \in Vouchers : voucher'[v].owner \in {voucher[v].owner, NoPhone}
    PROVE  \A v \in Vouchers : voucher'[v].owner \in {phone'[u] : u \in Users} \cup {NoPhone}
  BY DEF TypeOK

\* Every step keeps the tables, the requests and the histories well typed.
LEMMA TypeStep ==
    ASSUME TypeOK, \A r \in Requests : RequestInv(r), ResetsAreBounded, [Next]_vars
    PROVE  TypeOK'
<1>a. 0 \in 0..MaxRequests /\ Requests \subseteq 0..MaxRequests /\ Requests \subseteq Nat
  BY BoundAssumption DEF Requests
<1>b. Suspended \cup {"over"} \subseteq Labels
  BY DEF Labels
<1>1. ASSUME NEW r \in Requests, NEW u \in Users, ForgetPassword(r, u)
      PROVE  TypeOK'
  <2>1. pc' \in [Requests -> Labels] /\ sent' \in [Requests -> Code]
    BY <1>1, <1>b DEF ForgetPassword, Goto, Suspended, TypeOK, Code
  <2> QED
    BY <1>1, <1>a, <2>1 DEF ForgetPassword, TypeOK, accounts, faces
<1>2. ASSUME NEW r \in Requests, MailCode(r)
      PROVE  TypeOK'
  <2>1. [sent[r] EXCEPT !.mailed = TRUE] \in Code
    BY CodeFields DEF TypeOK
  <2>2. sent' \in [Requests -> Code]
    BY <1>2, <2>1 DEF MailCode, TypeOK
  <2> QED
    BY <1>2, <2>2, FinishEffect DEF MailCode, TypeOK, accounts, faces
<1>3. ASSUME NEW r \in Requests, NEW u \in Users, NEW code \in Requests, ResetPassword(r, u, code)
      PROVE  TypeOK'
  <2> DEFINE l == [loc[r] EXCEPT !.user = u, !.code = code]
  <2>1. l \in Local
    BY <1>a, FieldTypes DEF TypeOK
  <2>2. loc' = [loc EXCEPT ![r] = l] /\ Goto(r, "compare")
    BY <1>3 DEF ResetPassword
  <2> HIDE DEF l
  <2>3. pc' \in [Requests -> Labels] /\ loc' \in [Requests -> Local]
    BY <1>b, <2>1, <2>2, MoveEffect DEF Suspended
  <2> QED
    BY <1>3, <2>3 DEF ResetPassword, TypeOK, accounts, faces
<1>4. ASSUME NEW r \in Requests, CompareCode(r)
      PROVE  TypeOK'
  <2>1. loc[r].code \in Requests
    BY <1>4 DEF CompareCode, RequestInv
  <2>2. pc' \in [Requests -> Labels] /\ loc' \in [Requests -> Local]
    BY <1>4, <1>b, FinishEffect DEF CompareCode, Goto, Suspended, TypeOK
  <2>3. sent' \in [Requests -> Code]
    <3> DEFINE b == sent[loc[r].code].raced \/ Consuming(loc[r].code) # {}
    <3>1. sent' = [sent EXCEPT ![loc[r].code].raced = b] \/ sent' = sent
      BY <1>4 DEF CompareCode
    <3>2. b \in BOOLEAN
      OBVIOUS
    <3>3. sent \in [Requests -> Code]
      BY DEF TypeOK
    <3> HIDE DEF b
    <3> QED
      BY <2>1, <3>1, <3>2, <3>3, CodeFields
  <2> QED
    BY <1>4, <2>2, <2>3 DEF CompareCode, TypeOK, accounts, faces
<1>5. ASSUME NEW r \in Requests, ConsumeCode(r)
      PROVE  TypeOK'
  <2>1. pc' \in [Requests -> Labels]
    BY <1>5, <1>b DEF ConsumeCode, Goto, Suspended, TypeOK
  <2>2. otp' \in [Users -> 0..MaxRequests]
    BY <1>5, <1>a DEF ConsumeCode, Deleted, TypeOK
  <2> QED
    BY <1>5, <2>1, <2>2 DEF ConsumeCode, TypeOK, accounts, faces
<1>6. ASSUME NEW r \in Requests, StorePassword(r)
      PROVE  TypeOK'
  <2>1. loc[r].code \in Requests
    BY <1>6 DEF StorePassword, RequestInv
  <2>2. sent[loc[r].code].resets + 1 \in 0..MaxRequests
    <3>1. Open # {}
      BY <1>6 DEF StorePassword, Open
    <3>4. IsFiniteSet(Open)
      BY OpenIsFinite
    <3>2. Cardinality(Open) \in Nat /\ Cardinality(Open) # 0
      BY <3>1, <3>4, FS_EmptySet, FS_CardinalityType
    <3>3. sent[loc[r].code].resets \in 0..MaxRequests
      BY <2>1 DEF TypeOK, Code
    <3> QED
      BY <2>1, <3>2, <3>3, BoundAssumption DEF ResetsAreBounded
  <2>3. sent' \in [Requests -> Code]
    <3> DEFINE n == sent[loc[r].code].resets + 1
    <3>1. sent' = [sent EXCEPT ![loc[r].code].resets = n]
      BY <1>6 DEF StorePassword
    <3>2. n \in 0..MaxRequests
      BY <2>2
    <3>3. sent \in [Requests -> Code]
      BY DEF TypeOK
    <3> HIDE DEF n
    <3> QED
      BY <2>1, <3>1, <3>2, <3>3, CodeFields
  <2> QED
    BY <1>6, <2>3, FinishEffect DEF StorePassword, TypeOK, accounts, faces
<1>7. ASSUME NEW r \in Requests, NEW u \in Users, NEW new \in Phones,
             ChangeSensitiveInfo(r, u, new) \/ (WriteAccount(r) /\ u = loc[r].user /\ new = loc[r].phone)
      PROVE  TypeOK'
  <2>1. Write(r, u, new)
    BY <1>7 DEF ChangeSensitiveInfo, WriteAccount
  <2>2. otp' = otp /\ face' = face /\ collection' = collection /\ sent' = sent /\ given' = given
    BY <2>1 DEF Write, faces
  <2>3. \A v \in Vouchers : voucher'[v].owner \in {phone'[a] : a \in Users} \cup {NoPhone}
    <3>1. \A v \in Vouchers :
            \/ voucher'[v].owner = phone'[u]
            \/ voucher'[v].owner = voucher[v].owner /\ voucher[v].owner # phone[u]
      BY <2>1, WriteEffect
    <3>2. \A a \in Users \ {u} : phone'[a] = phone[a]
      BY <2>1, WriteEffect
    <3>3. \A v \in Vouchers : voucher[v].owner \in {phone[a] : a \in Users} \cup {NoPhone}
      BY DEF TypeOK
    <3> QED
      BY <3>1, <3>2, <3>3
  <2> QED
    BY <2>1, <2>2, <2>3, WriteEffect DEF TypeOK
<1>8. ASSUME NEW r \in Requests, NEW u \in Users, NEW new \in Phones, UpdateSecurity(r, u, new)
      PROVE  TypeOK'
  <2> DEFINE l == [loc[r] EXCEPT !.user = u, !.phone = new]
  <2>1. l \in Local
    BY FieldTypes DEF TypeOK
  <2>2. loc' = [loc EXCEPT ![r] = l] /\ Goto(r, "account")
    BY <1>8 DEF UpdateSecurity
  <2> HIDE DEF l
  <2>3. pc' \in [Requests -> Labels] /\ loc' \in [Requests -> Local]
    BY <1>b, <2>1, <2>2, MoveEffect DEF Suspended
  <2> QED
    BY <1>8, <2>3 DEF UpdateSecurity, TypeOK, accounts, faces
<1>9. ASSUME NEW r \in Requests, ReadAccount(r)
      PROVE  TypeOK'
  <2>1. pc' \in [Requests -> Labels]
    BY <1>9, <1>b DEF ReadAccount, Goto, Suspended, TypeOK
  <2> QED
    BY <1>9, <2>1 DEF ReadAccount, TypeOK, accounts, faces
<1>10. ASSUME NEW r \in Requests, CheckPhone(r)
      PROVE  TypeOK'
  <2>1. pc' \in [Requests -> Labels] /\ loc' \in [Requests -> Local]
    BY <1>10, <1>b, FinishEffect DEF CheckPhone, Goto, Suspended, TypeOK
  <2> QED
    BY <1>10, <2>1 DEF CheckPhone, TypeOK, accounts, faces
<1>11. ASSUME NEW r \in Requests, NEW u \in Users, NEW p \in Phones, RegisterFace(r, u, p)
      PROVE  TypeOK'
  <2> DEFINE l == [loc[r] EXCEPT !.user = u, !.phone = p, !.late = p # phone[u]]
  <2>1. l \in Local
    <3>1. PICK b \in BOOLEAN : b <=> p # phone[u]
      OBVIOUS
    <3>2. PICK k \in Local : k = loc[r]
      BY DEF TypeOK
    <3>3. [k EXCEPT !.user = u, !.phone = p, !.late = b] \in Local
      BY DEF Local
    <3> QED
      BY <3>1, <3>2, <3>3
  <2>2. loc' = [loc EXCEPT ![r] = l] /\ Goto(r, "row")
    BY <1>11 DEF RegisterFace
  <2> HIDE DEF l
  <2>3. pc' \in [Requests -> Labels] /\ loc' \in [Requests -> Local]
    BY <1>b, <2>1, <2>2, MoveEffect DEF Suspended
  <2>4. astray' \in Astray
    BY <1>11 DEF RegisterFace, TypeOK, Astray
  <2> QED
    BY <1>11, <2>3, <2>4 DEF RegisterFace, TypeOK, accounts, faces
<1>12. ASSUME NEW r \in Requests, FindFace(r)
      PROVE  TypeOK'
  <2>1. loc[r].user \in Users
    BY <1>12 DEF FindFace, RequestInv
  <2>2. face[loc[r].user].id \in 0..MaxRequests
    BY <1>a, <2>1, FaceFields DEF TypeOK
  <2> DEFINE l == [loc[r] EXCEPT !.old = face[loc[r].user].id]
  <2>3. l \in Local
    BY <2>2, FieldTypes DEF TypeOK
  <2>4. loc' = [loc EXCEPT ![r] = l] /\ Goto(r, AfterRow(face[loc[r].user]))
    BY <1>12 DEF FindFace
  <2> HIDE DEF l
  <2>5. pc' \in [Requests -> Labels] /\ loc' \in [Requests -> Local]
    BY <1>b, <2>3, <2>4, MoveEffect DEF AfterRow, Suspended
  <2> QED
    BY <1>12, <2>5 DEF FindFace, TypeOK, accounts, faces
<1>13. ASSUME NEW r \in Requests, DeleteFace(r)
      PROVE  TypeOK'
  <2>1. collection' \in [Users -> SUBSET Face] /\ pc' \in [Requests -> Labels]
    BY <1>13, <1>b DEF DeleteFace, Goto, Suspended, TypeOK
  <2> QED
    BY <1>13, <2>1 DEF DeleteFace, TypeOK, accounts
<1>14. ASSUME NEW r \in Requests, LearnFace(r)
      PROVE  TypeOK'
  <2>0. [id |-> r, phone |-> loc[r].phone] \in Face
    BY <1>14 DEF LearnFace, RequestInv, Face
  <2>1. collection' \in [Users -> SUBSET Face] /\ pc' \in [Requests -> Labels]
    BY <1>14, <1>b, <2>0 DEF LearnFace, Goto, Suspended, TypeOK
  <2>2. loc' \in [Requests -> Local]
    <3> DEFINE l == [loc[r] EXCEPT !.new = TRUE]
    <3>1. l \in Local
      BY FieldTypes DEF TypeOK
    <3>2. loc' = [loc EXCEPT ![r] = l]
      BY <1>14 DEF LearnFace
    <3> HIDE DEF l
    <3> QED
      BY <3>1, <3>2 DEF TypeOK
  <2> QED
    BY <1>14, <2>1, <2>2 DEF LearnFace, TypeOK, accounts
<1>15. ASSUME NEW r \in Requests, SaveFace(r)
      PROVE  TypeOK'
  <2>1. loc[r].user \in Users /\ loc[r].phone \in Phones
    BY <1>15 DEF SaveFace, RequestInv
  <2>2. face' \in [Users -> Face \cup {NoRow}]
    BY <1>15, <2>1 DEF SaveFace, TypeOK, Face
  <2>3. astray' \in Astray
    BY <1>15, <2>1 DEF SaveFace, TypeOK, Astray
  <2> QED
    BY <1>15, <2>2, <2>3, FinishEffect DEF SaveFace, TypeOK, accounts
<1>16. ASSUME NEW r \in Requests, NEW n \in 1..Cardinality(Vouchers), CreateVouchers(r, n)
      PROVE  TypeOK'
  <2>1. n \in Nat
    OBVIOUS
  <2> DEFINE l == [loc[r] EXCEPT !.code = n]
  <2>2. l \in Local
    BY <2>1, FieldTypes DEF TypeOK
  <2>3. loc' = [loc EXCEPT ![r] = l] /\ Goto(r, "issue")
    BY <1>16 DEF CreateVouchers
  <2> HIDE DEF l
  <2>4. pc' \in [Requests -> Labels] /\ loc' \in [Requests -> Local]
    BY <1>b, <2>2, <2>3, MoveEffect DEF Suspended
  <2> QED
    BY <1>16, <2>4 DEF CreateVouchers, TypeOK, accounts, faces
<1>17. ASSUME NEW r \in Requests, NEW v \in Vouchers, CreateVoucher(r, v)
      PROVE  TypeOK'
  <2>1. pc' \in [Requests -> Labels] /\ loc' \in [Requests -> Local]
    <3>1. CASE loc[r].code = 1
      BY <1>17, <3>1, FinishEffect DEF CreateVoucher
    <3>2. CASE loc[r].code # 1
      <4>1. loc[r].code - 1 \in Nat
          <5>1. loc[r].code # 0
          BY <1>17 DEF CreateVoucher, RequestInv
        <5>2. loc[r].code \in Nat
          BY DEF TypeOK, Local
        <5> QED
          BY <5>1, <5>2
      <4> DEFINE n == loc[r].code - 1
      <4>2. loc' = [loc EXCEPT ![r].code = n] /\ pc' = pc
        BY <1>17, <3>2 DEF CreateVoucher
      <4> HIDE DEF n
      <4>3. [loc[r] EXCEPT !.code = n] \in Local
        BY <4>1, FieldTypes DEF TypeOK, n
      <4> QED
        BY <4>2, <4>3 DEF TypeOK
    <3> QED
      BY <3>1, <3>2
  <2>2. /\ voucher' \in [Vouchers -> VoucherRow]
        /\ \A w \in Vouchers : voucher'[w].owner \in {voucher[w].owner, NoPhone}
    BY <1>17 DEF CreateVoucher, TypeOK, VoucherRow
  <2>3. phone' = phone
    BY <1>17 DEF CreateVoucher, accounts
  <2>4. \A w \in Vouchers : voucher'[w].owner \in {phone'[u] : u \in Users} \cup {NoPhone}
    BY <2>2, <2>3, OwnersKept
  <2> QED
    BY <1>17, <2>1, <2>2, <2>4 DEF CreateVoucher, TypeOK, accounts, faces
<1>18. ASSUME NEW r \in Requests, NEW v \in Vouchers, NEW p \in Phones, ExchangeVoucher(r, v, p)
      PROVE  TypeOK'
  <2> DEFINE l == [loc[r] EXCEPT !.voucher = v, !.phone = p]
  <2>1. l \in Local
    BY FieldTypes DEF TypeOK
  <2>2. loc' = [loc EXCEPT ![r] = l] /\ Goto(r, "customer")
    BY <1>18 DEF ExchangeVoucher
  <2> HIDE DEF l
  <2>3. pc' \in [Requests -> Labels] /\ loc' \in [Requests -> Local]
    BY <1>b, <2>1, <2>2, MoveEffect DEF Suspended
  <2> QED
    BY <1>18, <2>3 DEF ExchangeVoucher, TypeOK, accounts, faces
<1>19. ASSUME NEW r \in Requests, FindCustomer(r)
      PROVE  TypeOK'
  <2>1. pc' \in [Requests -> Labels] /\ loc' \in [Requests -> Local]
    BY <1>19, <1>b, FinishEffect DEF FindCustomer, Goto, Suspended, TypeOK
  <2> QED
    BY <1>19, <2>1 DEF FindCustomer, TypeOK, accounts, faces
<1>20. ASSUME NEW r \in Requests, AssignVoucher(r) \/ GrantVoucher(r)
      PROVE  TypeOK'
  <2> DEFINE v == loc[r].voucher
             p == loc[r].phone
  <2>1. v \in Vouchers /\ p \in Phones
    BY <1>20 DEF AssignVoucher, GrantVoucher, RequestInv
  <2>2. Assign(r, v, p)
    BY <1>20 DEF AssignVoucher, GrantVoucher
  <2>3. UserOf(p) # {} => (CHOOSE u \in UserOf(p) : TRUE) \in Users
    BY DEF UserOf
  <2>4. given' \in [Vouchers -> Users \cup {NoUser}]
    <3>1. CASE UserOf(p) # {}
      <4>1. \/ given' = given
            \/ given' = [given EXCEPT ![v] = CHOOSE u \in UserOf(p) : TRUE]
        BY <1>20 DEF AssignVoucher, GrantVoucher
      <4> DEFINE w == CHOOSE u \in UserOf(p) : TRUE
      <4>2. w \in Users
        BY <2>3, <3>1
      <4> HIDE DEF w
      <4> QED
        BY <4>1, <4>2 DEF TypeOK, w
    <3>2. CASE UserOf(p) = {}
      BY <1>20, <2>2, <3>2 DEF AssignVoucher, GrantVoucher, Assign, TypeOK
    <3> QED
      BY <3>1, <3>2
  <2>5. astray' \in Astray
    BY <1>20, <2>1 DEF AssignVoucher, GrantVoucher, TypeOK, Astray
  <2>6. phone' = phone /\ otp' = otp /\ face' = face /\ collection' = collection /\ sent' = sent
    BY <1>20 DEF AssignVoucher, GrantVoucher, faces
  <2>7. UserOf(p) # {} => p \in {phone'[u] : u \in Users}
    BY <2>6 DEF UserOf
  <2> HIDE DEF v, p
  <2>8. /\ pc' \in [Requests -> Labels] /\ loc' \in [Requests -> Local]
        /\ voucher' \in [Vouchers -> VoucherRow]
        /\ \A w \in Vouchers \ {v} : voucher'[w] = voucher[w]
        /\ voucher'[v].owner \in {p, voucher[v].owner}
        /\ voucher'[v].owner # voucher[v].owner => UserOf(p) # {}
    BY <2>1, <2>2, AssignEffect
  <2>9. \A w \in Vouchers : voucher'[w].owner \in {phone'[u] : u \in Users} \cup {NoPhone}
    BY <2>1, <2>6, <2>7, <2>8 DEF TypeOK
  <2> QED
    BY <2>4, <2>5, <2>6, <2>8, <2>9 DEF TypeOK
<1>21. ASSUME NEW r \in Requests, NEW p \in Phones, ExchangeByGroup(r, p)
      PROVE  TypeOK'
  <2> DEFINE l == [loc[r] EXCEPT !.phone = p]
  <2>1. l \in Local
    BY FieldTypes DEF TypeOK
  <2>2. loc' = [loc EXCEPT ![r] = l] /\ Goto(r, "first")
    BY <1>21 DEF ExchangeByGroup
  <2> HIDE DEF l
  <2>3. pc' \in [Requests -> Labels] /\ loc' \in [Requests -> Local]
    BY <1>b, <2>1, <2>2, MoveEffect DEF Suspended
  <2> QED
    BY <1>21, <2>3 DEF ExchangeByGroup, TypeOK, accounts, faces
<1>22. ASSUME NEW r \in Requests, FindFree(r)
      PROVE  TypeOK'
  <2>1. CASE \E v \in Vouchers : IsFree(v)
    <3>1. PICK v \in Vouchers : loc' = [loc EXCEPT ![r].voucher = v] /\ Goto(r, "grant")
      BY <1>22, <2>1 DEF FindFree
    <3> DEFINE l == [loc[r] EXCEPT !.voucher = v]
    <3>2. l \in Local
      BY FieldTypes DEF TypeOK
    <3>3. loc' = [loc EXCEPT ![r] = l]
      BY <3>1
    <3> HIDE DEF l
    <3>4. pc' \in [Requests -> Labels] /\ loc' \in [Requests -> Local]
      BY <1>b, <3>1, <3>2, <3>3, MoveEffect DEF Suspended
    <3> QED
      BY <1>22, <3>4 DEF FindFree, TypeOK, accounts, faces
  <2>2. CASE ~\E v \in Vouchers : IsFree(v)
    BY <1>22, <2>2, FinishEffect DEF FindFree, TypeOK, accounts, faces
  <2> QED
    BY <2>1, <2>2
<1>23. ASSUME NEW r \in Requests, NEW gone \in SUBSET Vouchers, RemoveVouchers(r, gone)
      PROVE  TypeOK'
  <2>1. /\ voucher' \in [Vouchers -> VoucherRow]
        /\ \A v \in Vouchers : voucher'[v].owner \in {voucher[v].owner, NoPhone}
    BY <1>23 DEF RemoveVouchers, TypeOK, VoucherRow
  <2>2. \A v \in Vouchers : voucher'[v].owner \in {phone'[u] : u \in Users} \cup {NoPhone}
    BY <1>23, <2>1, OwnersKept DEF RemoveVouchers, accounts
  <2> QED
    BY <1>23, <2>1, <2>2, FinishEffect DEF RemoveVouchers, TypeOK, accounts, faces
<1>24. ASSUME NEW r \in Requests, Abort(r)
      PROVE  TypeOK'
  <2>1. pc[r] \in {"learn", "save"} => loc[r].user \in Users
    BY DEF RequestInv
  <2>2. astray' \in Astray
    BY <1>24, <2>1 DEF Abort, TypeOK, Astray
  <2> QED
    BY <1>24, <2>2, FinishEffect DEF Abort, TypeOK, accounts, faces
<1>25. ASSUME NEW u \in Users, ExpireCode(u)
      PROVE  TypeOK'
  BY <1>25, <1>a DEF ExpireCode, TypeOK, accounts, faces
<1>26. ASSUME NEW v \in Vouchers, UseVoucher(v)
      PROVE  TypeOK'
  <2>1. /\ voucher' \in [Vouchers -> VoucherRow]
        /\ \A w \in Vouchers : voucher'[w].owner \in {voucher[w].owner, NoPhone}
    BY <1>26 DEF UseVoucher, TypeOK, VoucherRow
  <2>2. \A w \in Vouchers : voucher'[w].owner \in {phone'[u] : u \in Users} \cup {NoPhone}
    BY <1>26, <2>1, OwnersKept DEF UseVoucher, accounts
  <2> QED
    BY <1>26, <2>1, <2>2 DEF UseVoucher, TypeOK, accounts, faces
<1>27. CASE UNCHANGED vars
  BY <1>27 DEF vars, TypeOK
<1>28. ASSUME NEW r \in Requests, WriteAccount(r)
      PROVE  loc[r].user \in Users /\ loc[r].phone \in Phones
  BY <1>28 DEF WriteAccount, RequestInv
<1>29. ASSUME NEW r \in Requests, Call(r) PROVE TypeOK'
  BY <1>29, <1>1, <1>3, <1>7, <1>8, <1>11, <1>16, <1>18, <1>21, <1>23 DEF Call
<1>30. ASSUME NEW r \in Requests, Continue(r) PROVE TypeOK'
  BY <1>30, <1>2, <1>4, <1>5, <1>6, <1>7, <1>9, <1>10, <1>12, <1>13, <1>14, <1>15, <1>17, <1>19,
     <1>20, <1>22, <1>28 DEF Continue
<1> QED
  BY <1>24, <1>25, <1>26, <1>27, <1>29, <1>30 DEF Next

-----------------------------------------------------------------------------
(* What a step of request r does to everybody else.                        *)

\* The other requests stay where they are; they may learn that something they
\* have read was changed.
Others(r) ==
    \A x \in Requests \ {r} :
        /\ pc'[x] = pc[x]
        /\ loc'[x] \in {loc[x], [loc[x] EXCEPT !.late = TRUE]}
        /\ pc[x] = "idle" => loc'[x] = loc[x]

\* Codes keep their user, and an idle request has none.
CodesStay(r) ==
    /\ \A c \in Requests : sent'[c].user # sent[c].user => c = r /\ pc[r] = "idle"
    /\ \A c \in Requests : sent'[c].resets # sent[c].resets => pc[c] # "idle"
    /\ \A u \in Users : otp'[u] \in {otp[u], 0} \/ (otp'[u] = r /\ pc[r] = "idle")

LEMMA StepEffect ==
    ASSUME TypeOK, \A x \in Requests : RequestInv(x), NEW r \in Requests,
           Call(r) \/ Continue(r) \/ Abort(r)
    PROVE  Others(r) /\ CodesStay(r)
<1>a. Finish(r) => Others(r)
  BY FinishEffect DEF Others
<1>b. sent' = sent /\ otp' = otp => CodesStay(r)
  BY DEF CodesStay
<1>1. ASSUME NEW u \in Users, ForgetPassword(r, u) PROVE Others(r) /\ CodesStay(r)
  BY <1>1 DEF ForgetPassword, Starts, Goto, Others, CodesStay, TypeOK
<1>2. ASSUME MailCode(r) PROVE Others(r) /\ CodesStay(r)
  BY <1>2, <1>a DEF MailCode, CodesStay, TypeOK
<1>3. ASSUME NEW u \in Users, NEW code \in Requests, ResetPassword(r, u, code) PROVE Others(r) /\ CodesStay(r)
  BY <1>3, <1>b DEF ResetPassword, Goto, Others, TypeOK
<1>4. ASSUME CompareCode(r) PROVE Others(r) /\ CodesStay(r)
  <2>1. Others(r)
    BY <1>4, <1>a DEF CompareCode, Goto, Others, TypeOK
  <2>2. CodesStay(r)
    <3>1. PICK b \in BOOLEAN : sent' = [sent EXCEPT ![loc[r].code].raced = b] \/ sent' = sent
      BY <1>4 DEF CompareCode
    <3>2. otp' = otp
      BY <1>4 DEF CompareCode
    <3>3. \A c \in Requests : sent'[c] \in {sent[c], [sent[c] EXCEPT !.raced = b]}
      BY <3>1 DEF TypeOK
    <3>4. \A c \in Requests : sent[c] \in Code
      BY DEF TypeOK
    <3>5. \A c \in Requests : sent'[c].user = sent[c].user /\ sent'[c].resets = sent[c].resets
      BY <3>3, <3>4, CodeFields
    <3> QED
      BY <3>2, <3>5 DEF CodesStay
  <2> QED
    BY <2>1, <2>2
<1>5. ASSUME ConsumeCode(r) PROVE Others(r) /\ CodesStay(r)
  BY <1>5 DEF ConsumeCode, Deleted, Goto, Others, CodesStay, TypeOK
<1>6. ASSUME StorePassword(r) PROVE Others(r) /\ CodesStay(r)
  <2>1. pc[loc[r].code] # "idle"
    BY <1>6, NullAssumption DEF StorePassword, RequestInv
  <2>2. CodesStay(r)
    BY <1>6, <2>1 DEF StorePassword, CodesStay, TypeOK
  <2> QED
    BY <1>6, <1>a, <2>2 DEF StorePassword
<1>7. ASSUME NEW u \in Users, NEW new \in Phones, Write(r, u, new) PROVE Others(r) /\ CodesStay(r)
  <2>1. \A x \in Requests : pc[x] = "idle" => x \notin Registering(u)
    BY DEF Registering
  <2> QED
    BY <1>7, <1>b, <2>1, WriteEffect DEF Write, Others
<1>8. ASSUME NEW u \in Users, NEW new \in Phones, UpdateSecurity(r, u, new) PROVE Others(r) /\ CodesStay(r)
  BY <1>8, <1>b DEF UpdateSecurity, Goto, Others, TypeOK
<1>9. ASSUME ReadAccount(r) PROVE Others(r) /\ CodesStay(r)
  BY <1>9, <1>b DEF ReadAccount, Goto, Others, TypeOK
<1>10. ASSUME CheckPhone(r) PROVE Others(r) /\ CodesStay(r)
  BY <1>10, <1>a, <1>b DEF CheckPhone, Goto, Others, TypeOK
<1>11. ASSUME NEW u \in Users, NEW p \in Phones, RegisterFace(r, u, p) PROVE Others(r) /\ CodesStay(r)
  BY <1>11, <1>b DEF RegisterFace, Goto, Others, TypeOK
<1>12. ASSUME FindFace(r) PROVE Others(r) /\ CodesStay(r)
  BY <1>12, <1>b DEF FindFace, Goto, Others, TypeOK
<1>13. ASSUME DeleteFace(r) PROVE Others(r) /\ CodesStay(r)
  BY <1>13, <1>b DEF DeleteFace, Goto, Others, TypeOK
<1>14. ASSUME LearnFace(r) PROVE Others(r) /\ CodesStay(r)
  BY <1>14, <1>b DEF LearnFace, Goto, Others, TypeOK
<1>15. ASSUME SaveFace(r) PROVE Others(r) /\ CodesStay(r)
  BY <1>15, <1>a, <1>b DEF SaveFace
<1>16. ASSUME NEW n \in 1..Cardinality(Vouchers), CreateVouchers(r, n) PROVE Others(r) /\ CodesStay(r)
  BY <1>16, <1>b DEF CreateVouchers, Goto, Others, TypeOK
<1>17. ASSUME NEW v \in Vouchers, CreateVoucher(r, v) PROVE Others(r) /\ CodesStay(r)
  BY <1>17, <1>a, <1>b DEF CreateVoucher, Goto, Others, TypeOK
<1>18. ASSUME NEW v \in Vouchers, NEW p \in Phones, ExchangeVoucher(r, v, p) PROVE Others(r) /\ CodesStay(r)
  BY <1>18, <1>b DEF ExchangeVoucher, Goto, Others, TypeOK
<1>19. ASSUME FindCustomer(r) PROVE Others(r) /\ CodesStay(r)
  BY <1>19, <1>a, <1>b DEF FindCustomer, Goto, Others, TypeOK
<1>20. ASSUME AssignVoucher(r) \/ GrantVoucher(r) PROVE Others(r) /\ CodesStay(r)
  <2>1. /\ loc[r].voucher \in Vouchers /\ loc[r].phone \in Phones
        /\ Assign(r, loc[r].voucher, loc[r].phone)
        /\ sent' = sent /\ otp' = otp
    BY <1>20 DEF AssignVoucher, GrantVoucher, RequestInv
  <2>2. \A x \in Requests : pc[x] = "idle" => loc[x].voucher \notin Vouchers
    BY NullAssumption DEF RequestInv, NoLocal
  <2> QED
    BY <1>b, <2>1, <2>2, AssignEffect DEF Others
<1>21. ASSUME NEW p \in Phones, ExchangeByGroup(r, p) PROVE Others(r) /\ CodesStay(r)
  BY <1>21, <1>b DEF ExchangeByGroup, Goto, Others, TypeOK
<1>22. ASSUME FindFree(r) PROVE Others(r) /\ CodesStay(r)
  BY <1>22, <1>a, <1>b DEF FindFree, Goto, Others, TypeOK
<1>23. ASSUME NEW gone \in SUBSET Vouchers, RemoveVouchers(r, gone) PROVE Others(r) /\ CodesStay(r)
  BY <1>23, <1>a, <1>b DEF RemoveVouchers
<1>24. ASSUME Abort(r) PROVE Others(r) /\ CodesStay(r)
  BY <1>24, <1>a, <1>b DEF Abort
<1>25. Write(r, loc[r].user, loc[r].phone) /\ pc[r] = "secure" => Others(r) /\ CodesStay(r)
  BY <1>7 DEF RequestInv
<1>26. ASSUME Call(r) PROVE Others(r) /\ CodesStay(r)
  BY <1>26, <1>1, <1>3, <1>7, <1>8, <1>11, <1>16, <1>18, <1>21, <1>23 DEF Call, ChangeSensitiveInfo
<1>27. ASSUME Continue(r) PROVE Others(r) /\ CodesStay(r)
  BY <1>27, <1>2, <1>4, <1>5, <1>6, <1>9, <1>10, <1>12, <1>13, <1>14, <1>15, <1>17, <1>19, <1>20,
     <1>22, <1>25 DEF Continue, WriteAccount
<1> QED
  BY <1>24, <1>26, <1>27

\* A request that stays where it is keeps its invariant.
LEMMA OthersKept ==
    ASSUME TypeOK, \A x \in Requests : RequestInv(x), NEW r \in Requests,
           Others(r), CodesStay(r), NEW x \in Requests \ {r}
    PROVE  RequestInv(x)'
<1> DEFINE l == loc[x]
           k == loc'[x]
<1>1. pc'[x] = pc[x] /\ (pc[x] = "idle" => k = l)
  BY DEF Others
<1>2. k.user = l.user /\ k.phone = l.phone /\ k.voucher = l.voucher /\ k.code = l.code
  <2>1. l \in Local /\ k \in {l, [l EXCEPT !.late = TRUE]}
    BY DEF Others, TypeOK
  <2> QED
    BY <2>1 DEF Local
<1>3. pc[x] = "idle" => sent'[x].user = NoUser /\ sent'[x].resets = 0
  BY DEF CodesStay, RequestInv
<1>4. ASSUME pc[x] \in {"compare", "consume", "reset"}
      PROVE  sent'[l.code].user = l.user
  <2>1. l.code \in Requests /\ sent[l.code].user = l.user /\ l.user \in Users
    BY <1>4 DEF RequestInv
  <2>2. pc[l.code] # "idle"
    BY <2>1, NullAssumption DEF RequestInv
  <2> QED
    BY <2>1, <2>2 DEF CodesStay
<1>5. ASSUME pc[x] = "reset"
      PROVE  l.code # otp'[l.user]
  <2>1. l.code \in Requests /\ sent[l.code].user = l.user /\ l.user \in Users /\ l.code # otp[l.user]
    BY <1>5 DEF RequestInv
  <2>2. pc[l.code] # "idle" /\ l.code # 0
    BY <2>1, NullAssumption DEF RequestInv, Requests
  <2> QED
    BY <2>1, <2>2 DEF CodesStay
<1> HIDE DEF k, l
<1> QED
  BY <1>1, <1>2, <1>3, <1>4, <1>5 DEF RequestInv, k, l
\* A request that moves on has what it needs at its next await.
LEMMA ActorStep ==
    ASSUME TypeOK, \A x \in Requests : RequestInv(x), CodeIsGoodOnce, NEW r \in Requests,
           Call(r) \/ Continue(r) \/ Abort(r)
    PROVE  RequestInv(r)' /\ pc'[r] # "idle"
<1>a. Finish(r) => RequestInv(r)' /\ pc'[r] # "idle"
  BY FinishEffect DEF RequestInv
<1> DEFINE Next1 == RequestInv(r)' /\ pc'[r] # "idle"
<1>1. ASSUME NEW u \in Users, ForgetPassword(r, u) PROVE Next1
  BY <1>1 DEF ForgetPassword, RequestInv, Goto, TypeOK, Local
<1>2. ASSUME MailCode(r) PROVE Next1
  BY <1>2, <1>a DEF MailCode
<1>3. ASSUME NEW u \in Users, NEW code \in Requests, ResetPassword(r, u, code) PROVE Next1
  BY <1>3 DEF ResetPassword, RequestInv, Goto, TypeOK, Local
<1>4. ASSUME CompareCode(r) PROVE Next1
  <2>1. CASE Finish(r)
    BY <1>a, <2>1
  <2>2. CASE ~Finish(r)
    <3>1. pc[r] = "compare" /\ pc'[r] = "consume" /\ loc' = loc
      BY <1>4, <2>2 DEF CompareCode, Goto, TypeOK
    <3>2. loc[r].user \in Users /\ loc[r].code \in Requests /\ sent[loc[r].code].user = loc[r].user
      BY <3>1 DEF RequestInv
    <3>3. sent'[loc[r].code].user = sent[loc[r].code].user
      BY <3>1, <3>2, StepEffect DEF CodesStay
    <3> QED
      BY <3>1, <3>2, <3>3 DEF RequestInv
  <2> QED
    BY <2>1, <2>2
<1>5. ASSUME ConsumeCode(r) PROVE Next1
  BY <1>5 DEF ConsumeCode, Deleted, RequestInv, Goto, TypeOK, Requests
<1>6. ASSUME StorePassword(r) PROVE Next1
  BY <1>6, <1>a DEF StorePassword
<1>7. ASSUME NEW u \in Users, NEW new \in Phones, Write(r, u, new) PROVE Next1
  BY <1>7, WriteEffect DEF RequestInv
<1>8. ASSUME NEW u \in Users, NEW p \in Phones, UpdateSecurity(r, u, p) PROVE Next1
  BY <1>8 DEF UpdateSecurity, RequestInv, Goto, TypeOK, Local
<1>9. ASSUME ReadAccount(r) PROVE Next1
  BY <1>9 DEF ReadAccount, RequestInv, Goto, TypeOK, Local
<1>10. ASSUME CheckPhone(r) PROVE Next1
  BY <1>10, <1>a DEF CheckPhone, RequestInv, Goto, TypeOK, Local
<1>11. ASSUME NEW u \in Users, NEW p \in Phones, RegisterFace(r, u, p) PROVE Next1
  BY <1>11 DEF RegisterFace, RequestInv, Goto, TypeOK, Local
<1>12. ASSUME FindFace(r) PROVE Next1
  BY <1>12 DEF FindFace, AfterRow, RequestInv, Goto, TypeOK, Local
<1>13. ASSUME DeleteFace(r) PROVE Next1
  BY <1>13 DEF DeleteFace, RequestInv, Goto, TypeOK, Local
<1>14. ASSUME LearnFace(r) PROVE Next1
  BY <1>14 DEF LearnFace, RequestInv, Goto, TypeOK, Local
<1>15. ASSUME SaveFace(r) PROVE Next1
  BY <1>15, <1>a DEF SaveFace
<1>16. ASSUME NEW n \in 1..Cardinality(Vouchers), CreateVouchers(r, n) PROVE Next1
  BY <1>16 DEF CreateVouchers, RequestInv, Goto, TypeOK, Local
<1>17. ASSUME NEW v \in Vouchers, CreateVoucher(r, v) PROVE Next1
  BY <1>17, <1>a DEF CreateVoucher, RequestInv, Goto, TypeOK, Local
<1>18. ASSUME NEW v \in Vouchers, NEW p \in Phones, ExchangeVoucher(r, v, p) PROVE Next1
  BY <1>18 DEF ExchangeVoucher, RequestInv, Goto, TypeOK, Local
<1>19. ASSUME FindCustomer(r) PROVE Next1
  BY <1>19, <1>a DEF FindCustomer, RequestInv, Goto, TypeOK, Local
<1>20. ASSUME AssignVoucher(r) \/ GrantVoucher(r) PROVE Next1
  <2>1. /\ loc[r].voucher \in Vouchers /\ loc[r].phone \in Phones
        /\ Assign(r, loc[r].voucher, loc[r].phone)
    BY <1>20 DEF AssignVoucher, GrantVoucher, RequestInv
  <2> QED
    BY <2>1, AssignEffect DEF RequestInv
<1>21. ASSUME NEW p \in Phones, ExchangeByGroup(r, p) PROVE Next1
  BY <1>21 DEF ExchangeByGroup, RequestInv, Goto, TypeOK, Local
<1>22. ASSUME FindFree(r) PROVE Next1
  BY <1>22, <1>a DEF FindFree, RequestInv, Goto, TypeOK, Local
<1>23. ASSUME NEW gone \in SUBSET Vouchers, RemoveVouchers(r, gone) PROVE Next1
  BY <1>23, <1>a DEF RemoveVouchers
<1>24. ASSUME Abort(r) PROVE Next1
  BY <1>24, <1>a DEF Abort
<1>25. Write(r, loc[r].user, loc[r].phone) /\ pc[r] = "secure" => Next1
  BY <1>7 DEF RequestInv
<1>26. ASSUME Call(r) PROVE Next1
  BY <1>26, <1>1, <1>3, <1>7, <1>8, <1>11, <1>16, <1>18, <1>21, <1>23 DEF Call, ChangeSensitiveInfo
<1>27. ASSUME Continue(r) PROVE Next1
  BY <1>27, <1>2, <1>4, <1>5, <1>6, <1>9, <1>10, <1>12, <1>13, <1>14, <1>15, <1>17, <1>19, <1>20,
     <1>22, <1>25 DEF Continue, WriteAccount
<1> QED
  BY <1>24, <1>26, <1>27

\* Every step keeps the requests in order and what is known about each.
LEMMA RequestStep ==
    ASSUME TypeOK, BegunInOrder, \A r \in Requests : RequestInv(r), CodeIsGoodOnce, [Next]_vars
    PROVE  BegunInOrder' /\ \A r \in Requests : RequestInv(r)'
<1>1. ASSUME NEW r \in Requests, Call(r) \/ Continue(r) \/ Abort(r)
      PROVE  BegunInOrder' /\ \A x \in Requests : RequestInv(x)'
  <2>1. Others(r) /\ CodesStay(r) /\ RequestInv(r)' /\ pc'[r] # "idle"
    BY <1>1, StepEffect, ActorStep
  <2>2. \A x \in Requests : RequestInv(x)'
    BY <2>1, OthersKept
  <2>3. \A x \in Requests : x < r => pc[x] # "idle"
    <3>1. pc[r] # "idle" \/ \A x \in Requests : x < r => pc[x] # "idle"
      <4>1. Call(r) => \A x \in Requests : x < r => pc[x] # "idle"
        BY DEF Call, Starts, ForgetPassword, ResetPassword, ChangeSensitiveInfo, UpdateSecurity,
           RegisterFace, CreateVouchers, ExchangeVoucher, ExchangeByGroup, RemoveVouchers
      <4>2. Continue(r) => pc[r] # "idle"
        BY DEF Continue, MailCode, CompareCode, ConsumeCode, StorePassword, ReadAccount, CheckPhone,
           WriteAccount, FindFace, DeleteFace, LearnFace, SaveFace, FindCustomer, AssignVoucher,
           FindFree, GrantVoucher, CreateVoucher
      <4>3. Abort(r) => pc[r] # "idle"
        BY DEF Abort, Suspended
      <4> QED
        BY <1>1, <4>1, <4>2, <4>3
    <3> QED
      BY <3>1 DEF BegunInOrder
  <2>4. BegunInOrder'
    BY <2>1, <2>3 DEF BegunInOrder, Others
  <2> QED
    BY <2>2, <2>4
<1>2. ASSUME NEW u \in Users, ExpireCode(u)
      PROVE  BegunInOrder' /\ \A x \in Requests : RequestInv(x)'
  <2>1. pc' = pc /\ loc' = loc /\ sent' = sent /\ \A a \in Users : otp'[a] \in {otp[a], 0}
    BY <1>2 DEF ExpireCode, TypeOK
  <2>2. \A x \in Requests : RequestInv(x)'
    BY <2>1 DEF RequestInv, Requests
  <2> QED
    BY <2>1, <2>2 DEF BegunInOrder
<1>3. ASSUME NEW v \in Vouchers, UseVoucher(v)
      PROVE  BegunInOrder' /\ \A x \in Requests : RequestInv(x)'
  BY <1>3 DEF UseVoucher, BegunInOrder, RequestInv
<1>4. CASE UNCHANGED vars
  BY <1>4 DEF vars, BegunInOrder, RequestInv
<1> QED
  BY <1>1, <1>2, <1>3, <1>4 DEF Next
-----------------------------------------------------------------------------
(* One-time passwords.                                                     *)

CodeInv == ResetsAreBounded /\ CodeIsGoodOnce /\ \A c \in Requests : ResetOnce(c)

\* Requests that are served stay served, so the open ones become no more.
LEMMA OpenShrinks ==
    ASSUME \A x \in Requests : pc[x] = "over" => pc'[x] = "over"
    PROVE  Cardinality(Open)' <= Cardinality(Open) /\ Cardinality(Open)' \in Nat
<1>1. Open' \subseteq Open
  BY DEF Open
<1> QED
  BY <1>1, OpenIsFinite, FS_Subset, FS_CardinalityType

\* A step that no code is read, used or made in.
LEMMA QuietCodes ==
    ASSUME TypeOK, TypeOK', CodeInv,
           \A x \in Requests : pc'[x] \in {"consume", "reset"} =>
             pc'[x] = pc[x] /\ loc'[x].code = loc[x].code,
           \A x \in Requests : pc[x] = "over" => pc'[x] = "over",
           \A u \in Users : otp'[u] \in {otp[u], 0},
           \A c \in Requests : /\ sent'[c].user = sent[c].user
                               /\ sent'[c].resets = sent[c].resets
                               /\ sent'[c].raced = sent[c].raced
    PROVE  CodeInv'
<1>1. ResetsAreBounded'
  <2>1. \A c \in Requests : sent[c].resets \in Nat
    BY DEF TypeOK, Code
  <2> QED
    BY <2>1, OpenShrinks, OpenIsFinite, BoundAssumption DEF CodeInv, ResetsAreBounded
<1>2. CodeIsGoodOnce'
  <2>1. \A u \in Users : CodesOf(u)' = CodesOf(u)
    BY DEF CodesOf
  <2>2. \A u \in Users : otp[u] # 0 => otp[u] \in Requests
    BY DEF TypeOK, Requests
  <2> QED
    BY <2>1, <2>2 DEF CodeInv, CodeIsGoodOnce
<1>3. \A c \in Requests : ResetOnce(c)'
  <2>1. \A c \in Requests : Resetting(c)' \subseteq Resetting(c)
    BY DEF Resetting
  <2> QED
    BY <2>1 DEF CodeInv, ResetOnce
<1> QED
  BY <1>1, <1>2, <1>3 DEF CodeInv

\* The same for a step of request r.
LEMMA QuietCodeStep ==
    ASSUME TypeOK, TypeOK', CodeInv, NEW r \in Requests, Others(r), pc[r] # "over",
           pc'[r] \notin {"consume", "reset"}, otp' = otp,
           \A c \in Requests : /\ sent'[c].user = sent[c].user
                               /\ sent'[c].resets = sent[c].resets
                               /\ sent'[c].raced = sent[c].raced
    PROVE  CodeInv'
<1>1. \A x \in Requests \ {r} : pc'[x] = pc[x] /\ loc'[x].code = loc[x].code
  <2>1. \A l \in Local : [l EXCEPT !.late = TRUE].code = l.code
    BY DEF Local
  <2> QED
    BY <2>1 DEF Others, TypeOK
<1> QED
  BY <1>1, QuietCodes

\* Each code is good once, step by step.
LEMMA CodeStep ==
    ASSUME TypeOK, TypeOK', BegunInOrder, \A r \in Requests : RequestInv(r), CodeInv, [Next]_vars
    PROVE  CodeInv'
<1>a. ASSUME NEW r \in Requests, Call(r) \/ Continue(r) \/ Abort(r)
      PROVE  Others(r) /\ CodesStay(r)
  BY <1>a, StepEffect
<1>b. \A c \in Requests : sent[c].resets \in Nat /\ sent[c].raced \in BOOLEAN
  BY DEF TypeOK, Code
<1>1. ASSUME NEW r \in Requests, NEW u \in Users, ForgetPassword(r, u)
      PROVE  CodeInv'
  <2>1. Others(r)
    BY <1>1, <1>a DEF Call
  <2>2. /\ otp' = [otp EXCEPT ![u] = r] /\ loc' = loc
        /\ pc[r] = "idle" /\ pc'[r] = "mail" /\ \A x \in Requests \ {r} : pc'[x] = pc[x]
    BY <1>1 DEF ForgetPassword, Starts, Goto, TypeOK
  <2>3. /\ \A c \in Requests \ {r} : sent'[c] = sent[c]
        /\ sent'[r].user = u /\ sent'[r].resets = sent[r].resets /\ sent'[r].raced = sent[r].raced
    BY <1>1 DEF ForgetPassword, TypeOK, Code
  <2>4. sent[r].user = NoUser /\ sent[r].resets = 0
    BY <2>2 DEF RequestInv
  <2>5. ResetsAreBounded'
    <3>1. Cardinality(Open)' <= Cardinality(Open) /\ Cardinality(Open)' \in Nat
      BY <2>2, OpenShrinks
    <3> QED
      BY <1>b, <2>3, <3>1, OpenIsFinite, BoundAssumption DEF CodeInv, ResetsAreBounded
  <2>6. \A c \in Requests : Resetting(c)' = Resetting(c)
    BY <2>2 DEF Resetting
  <2>7. \A c \in Requests : ResetOnce(c)'
    BY <2>3, <2>6 DEF CodeInv, ResetOnce
  <2>8. \A c \in Requests : sent[c].user = u => c < r
    <3> SUFFICES ASSUME NEW c \in Requests, sent[c].user = u, ~(c < r)
                 PROVE  FALSE
      OBVIOUS
    <3>1. pc[c] # "idle"
      BY NullAssumption DEF RequestInv
    <3>2. r < c
      BY <2>2, <3>1 DEF Requests
    <3> QED
      BY <2>2, <3>1, <3>2 DEF BegunInOrder
  <2>9. /\ \A a \in Users \ {u} : CodesOf(a)' = CodesOf(a)
        /\ CodesOf(u)' = CodesOf(u) \cup {r}
    BY <2>3, <2>4, NullAssumption DEF CodesOf
  <2>10. CodeIsGoodOnce'
    <3>1. ASSUME NEW a \in Users, otp'[a] # 0
          PROVE  /\ otp'[a] \in CodesOf(a)' /\ sent'[otp'[a]].resets = 0
                 /\ \A c \in CodesOf(a)' : c <= otp'[a]
      <4>1. CASE a = u
        <5>1. otp'[a] = r
          BY <2>2, <4>1 DEF TypeOK
        <5>2. \A c \in CodesOf(a)' : c <= r
          BY <2>8, <2>9, <4>1 DEF CodesOf, Requests
        <5> QED
          BY <2>3, <2>4, <2>9, <4>1, <5>1, <5>2
      <4>2. CASE a # u
        <5>1. otp'[a] = otp[a]
          BY <2>2, <4>2 DEF TypeOK
        <5>2. /\ otp[a] \in CodesOf(a) /\ sent[otp[a]].resets = 0
              /\ \A c \in CodesOf(a) : c <= otp[a]
          BY <3>1, <5>1 DEF CodeInv, CodeIsGoodOnce
        <5>3. otp[a] \in Requests
          BY <5>2 DEF CodesOf
        <5>4. sent'[otp[a]].resets = sent[otp[a]].resets
          BY <2>3, <5>3
        <5> QED
          BY <2>9, <4>2, <5>1, <5>2, <5>4
      <4> QED
        BY <4>1, <4>2
    <3>2. \A c \in Requests : sent'[c].resets > 1 => sent'[c].raced
      BY <2>3 DEF CodeInv, CodeIsGoodOnce
    <3> QED
      BY <3>1, <3>2 DEF CodeIsGoodOnce
  <2> QED
    BY <2>5, <2>7, <2>10 DEF CodeInv

<1>2. ASSUME NEW r \in Requests, Others(r), CompareCode(r)
      PROVE  CodeInv'
  <2>0. PICK code \in Requests, u \in Users : code = loc[r].code /\ u = loc[r].user
    BY <1>2 DEF CompareCode, RequestInv
  <2>1. pc[r] = "compare" /\ sent[code].user = u /\ otp' = otp
    BY <1>2, <2>0 DEF CompareCode, RequestInv
  <2>2. CASE otp[u] # code
    <3>1. Finish(r) /\ sent' = sent
      BY <1>2, <2>0, <2>2 DEF CompareCode
    <3> QED
      BY <1>2, <2>1, <3>1, FinishEffect, QuietCodeStep
  <2>3. CASE otp[u] = code
    <3>1. /\ pc'[r] = "consume" /\ loc' = loc /\ \A x \in Requests \ {r} : pc'[x] = pc[x]
          /\ sent' = [sent EXCEPT ![code].raced = @ \/ Consuming(code) # {}]
      BY <1>2, <2>0, <2>3 DEF CompareCode, Goto, TypeOK
    <3>2. /\ \A c \in Requests : sent'[c].user = sent[c].user /\ sent'[c].resets = sent[c].resets
          /\ \A c \in Requests \ {code} : sent'[c].raced = sent[c].raced
      BY <3>1, <2>1 DEF TypeOK, Code
    <3>3. sent'[code].raced <=> sent[code].raced \/ Consuming(code) # {}
      BY <3>1, <2>1 DEF TypeOK, Code
    <3>4. ResetsAreBounded'
      <4>1. Cardinality(Open)' <= Cardinality(Open) /\ Cardinality(Open)' \in Nat
        BY <2>1, <3>1, OpenShrinks
      <4> QED
        BY <1>b, <3>2, <4>1, OpenIsFinite, BoundAssumption DEF CodeInv, ResetsAreBounded
    <3>5. CodeIsGoodOnce'
      <4>1. \A a \in Users : CodesOf(a)' = CodesOf(a)
        BY <3>2 DEF CodesOf
      <4>2. \A a \in Users : otp[a] # 0 => otp[a] \in Requests
        BY DEF TypeOK, Requests
      <4>3. \A c \in Requests : sent[c].raced => sent'[c].raced
        BY <3>2, <3>3
      <4> QED
        BY <2>1, <3>2, <4>1, <4>2, <4>3 DEF CodeInv, CodeIsGoodOnce
    <3>6. ASSUME NEW c \in Requests \ {code}
          PROVE  ResetOnce(c)'
      <4>1. Resetting(c)' = Resetting(c)
        BY <2>0, <2>1, <3>1, <3>6 DEF Resetting
      <4> QED
        BY <3>2, <4>1 DEF CodeInv, ResetOnce
    <3>7. ResetOnce(code)'
      <4> SUFFICES ASSUME ~sent'[code].raced
                   PROVE  /\ \A x, y \in Resetting(code)' : x = y
                          /\ sent'[code].resets = 0
        BY <2>1 DEF ResetOnce
      <4>1. Consuming(code) = {}
        BY <3>3
      <4>2. \A x \in Requests : pc[x] = "reset" => loc[x].code # code
        <5> SUFFICES ASSUME NEW x \in Requests, pc[x] = "reset", loc[x].code = code
                     PROVE  FALSE
          OBVIOUS
        <5>1. loc[x].user = u /\ otp[loc[x].user] # code
          BY <2>1 DEF RequestInv
        <5> QED
          BY <2>3, <5>1
      <4>3. Resetting(code)' \subseteq {r}
        BY <3>1, <4>1, <4>2 DEF Resetting, Consuming
      <4>4. sent[code].resets = 0
        BY <2>1, <2>3 DEF CodeInv, CodeIsGoodOnce, Requests
      <4> QED
        BY <2>1, <3>2, <4>3, <4>4
    <3> QED
      BY <3>4, <3>5, <3>6, <3>7 DEF CodeInv
  <2> QED
    BY <2>2, <2>3
<1>3. ASSUME NEW r \in Requests, ConsumeCode(r)
      PROVE  CodeInv'
  <2>1. /\ pc[r] = "consume" /\ pc'[r] = "reset" /\ loc' = loc /\ sent' = sent
        /\ \A x \in Requests \ {r} : pc'[x] = pc[x]
        /\ \A a \in Users : otp'[a] \in {otp[a], 0}
    BY <1>3 DEF ConsumeCode, Deleted, Goto, TypeOK
  <2>2. ResetsAreBounded'
    <3>1. Cardinality(Open)' <= Cardinality(Open) /\ Cardinality(Open)' \in Nat
      BY <2>1, OpenShrinks
    <3> QED
      BY <1>b, <2>1, <3>1, OpenIsFinite, BoundAssumption DEF CodeInv, ResetsAreBounded
  <2>3. CodeIsGoodOnce'
    BY <2>1 DEF CodeInv, CodeIsGoodOnce, CodesOf
  <2>4. \A c \in Requests : Resetting(c)' = Resetting(c)
    BY <2>1 DEF Resetting
  <2>5. \A c \in Requests : ResetOnce(c)'
    BY <2>1, <2>4 DEF CodeInv, ResetOnce
  <2> QED
    BY <2>2, <2>3, <2>5 DEF CodeInv
<1>4. ASSUME NEW r \in Requests, StorePassword(r)
      PROVE  CodeInv'
  <2>0. PICK code \in Requests, u \in Users : code = loc[r].code /\ u = loc[r].user
    BY <1>4 DEF StorePassword, RequestInv
  <2>1. /\ pc[r] = "reset" /\ sent[code].user = u
        /\ otp' = otp /\ code # otp[u]
    BY <1>4, <2>0 DEF StorePassword, RequestInv
  <2>2. /\ \A c \in Requests : sent'[c].user = sent[c].user /\ sent'[c].raced = sent[c].raced
        /\ \A c \in Requests \ {code} : sent'[c].resets = sent[c].resets
        /\ sent'[code].resets = sent[code].resets + 1
    BY <1>4, <2>0, <2>1 DEF StorePassword, TypeOK, Code
  <2>3. pc'[r] = "over" /\ \A x \in Requests \ {r} : pc'[x] = pc[x] /\ loc'[x] = loc[x]
    BY <1>4, FinishEffect DEF StorePassword
  <2>4. r \in Resetting(code)
    BY <2>0, <2>1 DEF Resetting
  <2>5. ResetsAreBounded'
    <3>1. Open' = Open \ {r} /\ r \in Open
      BY <2>1, <2>3 DEF Open
    <3>2. Cardinality(Open)' = Cardinality(Open) - 1
      BY <3>1, OpenIsFinite, FS_RemoveElement
    <3> QED
      BY <1>b, <2>1, <2>2, <3>2, OpenIsFinite, BoundAssumption DEF CodeInv, ResetsAreBounded
  <2>6. ~sent[code].raced => sent[code].resets = 0
    BY <1>b, <2>1, <2>4 DEF CodeInv, ResetOnce
  <2>7. CodeIsGoodOnce'
    <3>1. \A a \in Users : otp[a] # 0 => otp[a] # code
      BY <2>1 DEF CodeInv, CodeIsGoodOnce, CodesOf
    <3>2. \A a \in Users : CodesOf(a)' = CodesOf(a)
      BY <2>2 DEF CodesOf
    <3>3. \A a \in Users : otp[a] # 0 => otp[a] \in Requests
      BY DEF TypeOK, Requests
    <3>4. \A c \in Requests : sent'[c].resets > 1 => sent'[c].raced
      BY <1>b, <2>1, <2>2, <2>6 DEF CodeInv, CodeIsGoodOnce
    <3> QED
      BY <2>1, <2>2, <3>1, <3>2, <3>3, <3>4 DEF CodeInv, CodeIsGoodOnce
  <2>8. ASSUME NEW c \in Requests \ {code}
        PROVE  ResetOnce(c)'
    <3>1. Resetting(c)' = Resetting(c)
      BY <2>0, <2>1, <2>3, <2>8 DEF Resetting
    <3> QED
      BY <2>2, <3>1 DEF CodeInv, ResetOnce
  <2>9. ResetOnce(code)'
    <3>1. Resetting(code)' \subseteq Resetting(code) \ {r}
      BY <2>3 DEF Resetting
    <3>2. ~sent[code].raced => \A x, y \in Resetting(code) : x = y
      BY <2>1 DEF CodeInv, ResetOnce
    <3> QED
      BY <2>1, <2>2, <2>4, <2>6, <3>1, <3>2 DEF ResetOnce
  <2> QED
    BY <2>5, <2>7, <2>8, <2>9 DEF CodeInv
<1>5. ASSUME NEW r \in Requests, Others(r), MailCode(r)
      PROVE  CodeInv'
  <2>1. \A c \in Requests : /\ sent'[c].user = sent[c].user
                            /\ sent'[c].resets = sent[c].resets
                            /\ sent'[c].raced = sent[c].raced
    BY <1>5 DEF MailCode, TypeOK, Code
  <2>2. pc[r] = "mail" /\ otp' = otp /\ pc'[r] = "over"
    BY <1>5, FinishEffect DEF MailCode
  <2> QED
    BY <1>5, <2>1, <2>2, QuietCodeStep
<1>c. ASSUME NEW r \in Requests, Others(r), pc[r] # "over", pc'[r] \notin {"consume", "reset"},
             otp' = otp, sent' = sent
      PROVE  CodeInv'
  BY <1>c, QuietCodeStep
<1>6. ASSUME NEW r \in Requests, Others(r), Call(r)
      PROVE  CodeInv'
  <2>1. CASE \E u \in Users : ForgetPassword(r, u)
    BY <1>1, <2>1
  <2>2. ASSUME ~\E u \in Users : ForgetPassword(r, u)
        PROVE  pc[r] = "idle" /\ otp' = otp /\ sent' = sent
    BY <1>6, <2>2, Zenon DEF Call, Starts, ResetPassword, ChangeSensitiveInfo, Write, UpdateSecurity,
       RegisterFace, CreateVouchers, ExchangeVoucher, ExchangeByGroup, RemoveVouchers
  <2>3. ASSUME ~\E u \in Users : ForgetPassword(r, u)
        PROVE  pc'[r] \in {"compare", "over", "account", "row", "issue", "customer", "first"}
    BY <1>6, <2>3 DEF Call, Finish, Goto, TypeOK, ResetPassword, ChangeSensitiveInfo, Write,
       UpdateSecurity, RegisterFace, CreateVouchers, ExchangeVoucher, ExchangeByGroup, RemoveVouchers
  <2> QED
    BY <1>c, <1>6, <2>1, <2>2, <2>3
<1>7. ASSUME NEW r \in Requests, Others(r), Continue(r)
      PROVE  CodeInv'
  <2>1. CASE MailCode(r) \/ CompareCode(r) \/ ConsumeCode(r) \/ StorePassword(r)
    BY <1>2, <1>3, <1>4, <1>5, <1>7, <2>1
  <2>2. ASSUME ~(MailCode(r) \/ CompareCode(r) \/ ConsumeCode(r) \/ StorePassword(r))
        PROVE  /\ pc[r] # "over" /\ otp' = otp /\ sent' = sent
               /\ pc'[r] \notin {"consume", "reset"}
    <3>1. /\ \A label : Goto(r, label) => pc'[r] = label
          /\ Finish(r) => pc'[r] = "over"
      BY <1>7, FinishEffect DEF Goto, TypeOK
    <3> QED
      BY <1>7, <2>2, <3>1 DEF Continue, ReadAccount, CheckPhone, WriteAccount, Write,
       FindFace, AfterRow, DeleteFace, LearnFace, SaveFace, FindCustomer, AssignVoucher, FindFree,
       GrantVoucher, Assign, CreateVoucher
  <2> QED
    BY <1>c, <1>7, <2>1, <2>2
<1>8. ASSUME NEW r \in Requests, Others(r), Abort(r)
      PROVE  CodeInv'
  BY <1>c, <1>8, FinishEffect DEF Abort, Suspended
<1>9. ASSUME NEW u \in Users, ExpireCode(u)
      PROVE  CodeInv'
  <2>1. pc' = pc /\ loc' = loc /\ sent' = sent /\ \A a \in Users : otp'[a] \in {otp[a], 0}
    BY <1>9 DEF ExpireCode, TypeOK
  <2> QED
    BY <2>1, QuietCodes
<1>10. ASSUME (\E v \in Vouchers : UseVoucher(v)) \/ UNCHANGED vars
       PROVE  CodeInv'
  BY <1>10, QuietCodes DEF UseVoucher, vars
<1> QED
  BY <1>a, <1>6, <1>7, <1>8, <1>9, <1>10 DEF Next
-----------------------------------------------------------------------------
(* Faces.                                                                  *)

AtFace == {"row", "forget", "learn", "save"}

\* A user without a step in his registrations, his row and his face.
LEMMA UserFaceKept ==
    ASSUME TypeOK, TypeOK', NEW u \in Users, UserFaceInv(u),
           Registering(u)' = Registering(u),
           \A x \in Registering(u) : pc'[x] = pc[x] /\ loc'[x].user = loc[x].user
                                     /\ loc'[x].old = loc[x].old /\ loc'[x].phone = loc[x].phone,
           face'[u] = face[u], collection'[u] = collection[u]
    PROVE  UserFaceInv(u)'
<1>1. ASSUME NEW x \in Registering(u) PROVE RegistrationInv(x)'
  <2>1. /\ loc[x].user = u /\ RegistrationInv(x)
        /\ pc'[x] = pc[x] /\ loc'[x].user = loc[x].user /\ loc'[x].old = loc[x].old
        /\ loc'[x].phone = loc[x].phone
    BY DEF UserFaceInv, Registering
  <2> QED
    BY <2>1 DEF RegistrationInv
<1> QED
  BY <1>1 DEF UserFaceInv

\* A step outside the registrations; a number may change.
LEMMA QuietFaces ==
    ASSUME TypeOK, TypeOK', FaceInv, NumberInv, face' = face, collection' = collection,
           astray.torn \subseteq astray'.torn, astray.moved \subseteq astray'.moved,
           \A x \in Requests : pc[x] \in AtFace \/ pc'[x] \in AtFace =>
             /\ pc'[x] = pc[x] /\ loc'[x].user = loc[x].user /\ loc'[x].old = loc[x].old
             /\ loc'[x].new = loc[x].new /\ loc'[x].phone = loc[x].phone
             /\ loc[x].late => loc'[x].late,
           \A x \in Requests : pc[x] = "over" => pc'[x] = "over",
           \A u \in Users : phone'[u] # phone[u] =>
             u \in astray'.moved /\ \A x \in Registering(u) : loc'[x].late
    PROVE  FaceInv' /\ NumberInv'
<1>1. \A u \in Users : Registering(u)' = Registering(u)
  BY DEF Registering, AtFace
<1>2. \A u \in Users : \A x \in Registering(u) :
        /\ pc'[x] = pc[x] /\ loc'[x].user = loc[x].user /\ loc'[x].old = loc[x].old
        /\ loc'[x].phone = loc[x].phone
  BY DEF Registering, AtFace
<1>3. \A u \in Users \ astray'.torn : UserFaceInv(u)'
  BY <1>1, <1>2, UserFaceKept DEF FaceInv
<1>4. \A r \in Requests : pc'[r] = "save" => loc'[r].new
  BY DEF FaceInv, AtFace
<1>5. \A u \in Users : face[u].id # 0 => face[u].id \in Requests
  BY FaceFields DEF TypeOK
<1>6. FaceInv'
  BY <1>3, <1>4, <1>5 DEF FaceInv
<1>7. NumberInv'
  <2>1. \A u \in Users \ astray'.moved : face'[u] # NoRow => face'[u].phone = phone'[u]
    BY DEF NumberInv
  <2>2. ASSUME NEW u \in Users, NEW x \in Registering(u), ~loc'[x].late
        PROVE  loc'[x].phone = phone'[u]
    <3>1. x \in Requests /\ pc[x] \in AtFace
      BY <2>2 DEF Registering, AtFace
    <3>2. ~loc[x].late /\ loc'[x].phone = loc[x].phone /\ phone'[u] = phone[u]
      BY <2>2, <3>1
    <3> QED
      BY <2>2, <3>2 DEF NumberInv
  <2> QED
    BY <1>1, <2>1, <2>2 DEF NumberInv
<1> QED
  BY <1>6, <1>7

\* A step of a registration of u leaves all other users alone.
LEMMA OtherFaces ==
    ASSUME TypeOK, TypeOK', FaceInv, NEW r \in Requests, NEW u \in Users, Others(r),
           pc[r] \in AtFace => loc[r].user = u, pc'[r] \in AtFace => loc'[r].user = u,
           \A a \in Users \ {u} : face'[a] = face[a] /\ collection'[a] = collection[a],
           astray.torn \subseteq astray'.torn
    PROVE  /\ \A a \in Users \ {u} : Registering(a)' = Registering(a)
           /\ \A a \in Users \ astray'.torn : a # u => UserFaceInv(a)'
<1>1. \A x \in Requests \ {r} : /\ pc'[x] = pc[x] /\ loc'[x].user = loc[x].user
                                /\ loc'[x].old = loc[x].old /\ loc'[x].phone = loc[x].phone
  <2>1. \A l \in Local : /\ [l EXCEPT !.late = TRUE].user = l.user
                         /\ [l EXCEPT !.late = TRUE].old = l.old
                         /\ [l EXCEPT !.late = TRUE].phone = l.phone
    BY DEF Local
  <2> QED
    BY <2>1 DEF Others, TypeOK
<1>2. \A a \in Users \ {u} : Registering(a)' = Registering(a) /\ r \notin Registering(a)
  BY <1>1 DEF Registering, AtFace
<1>3. \A a \in Users : Registering(a) \subseteq Requests
  BY DEF Registering
<1> QED
  BY <1>1, <1>2, <1>3, UserFaceKept DEF FaceInv

\* What the numbers need of such a step.
LEMMA OtherNumbers ==
    ASSUME TypeOK, TypeOK', NumberInv, NEW r \in Requests, NEW u \in Users, phone' = phone,
           \A x \in Requests \ {r} : pc'[x] = pc[x] /\ loc'[x] = loc[x],
           pc'[r] \in AtFace => /\ loc'[r].user = u
                                /\ ~loc'[r].late => loc'[r].phone = phone[u],
           \A a \in Users \ astray'.moved : face'[a] # NoRow =>
             face'[a].phone = phone[a] \/ (a \notin astray.moved /\ face'[a] = face[a])
    PROVE  NumberInv'
<1>1. \A a \in Users \ astray'.moved : face'[a] # NoRow => face'[a].phone = phone'[a]
  BY DEF NumberInv
<1>2. ASSUME NEW a \in Users, NEW x \in Requests, x \in Registering(a)', ~loc'[x].late
      PROVE  loc'[x].phone = phone'[a]
  <2>1. CASE x = r
    BY <1>2, <2>1 DEF Registering, AtFace
  <2>2. CASE x # r
    BY <1>2, <2>2 DEF Registering, NumberInv
  <2> QED
    BY <2>1, <2>2
<1> QED
  BY <1>1, <1>2 DEF NumberInv, Registering
\* Every step keeps what is known about faces and numbers.
LEMMA FaceStep ==
    ASSUME TypeOK, TypeOK', \A r \in Requests : RequestInv(r), FaceInv, NumberInv, [Next]_vars
    PROVE  FaceInv' /\ NumberInv'
<1>a. ASSUME NEW r \in Requests, Call(r) \/ Continue(r) \/ Abort(r)
      PROVE  Others(r)
  BY <1>a, StepEffect
<1>b. \A u \in Users : face[u].id # 0 => face[u].id \in Requests /\ pc[face[u].id] = "over"
  BY FaceFields DEF TypeOK, FaceInv
<1>1. ASSUME NEW r \in Requests, NEW u \in Users, NEW p \in Phones, Others(r), RegisterFace(r, u, p)
      PROVE  FaceInv' /\ NumberInv'
  <2>1. /\ pc[r] = "idle" /\ pc'[r] = "row" /\ phone' = phone /\ face' = face
        /\ collection' = collection /\ astray'.moved = astray.moved
        /\ \A x \in Requests \ {r} : pc'[x] = pc[x] /\ loc'[x] = loc[x]
    BY <1>1 DEF RegisterFace, Starts, Goto, TypeOK, Astray, accounts, faces
  <2>2. loc'[r].user = u /\ loc'[r].phone = p /\ (~loc'[r].late => p = phone[u])
    <3>1. PICK b \in BOOLEAN : b <=> p # phone[u]
      OBVIOUS
    <3>2. PICK l \in Local : l = loc[r]
      BY DEF TypeOK
    <3> DEFINE k == [l EXCEPT !.user = u, !.phone = p, !.late = b]
    <3>3. k.user = u /\ k.phone = p /\ k.late = b
      BY DEF Local
    <3>4. loc' = [loc EXCEPT ![r] = k]
      BY <1>1, <3>1, <3>2 DEF RegisterFace
    <3> HIDE DEF k
    <3> QED
      BY <3>1, <3>3, <3>4 DEF TypeOK
  <2>3. IF Registering(u) = {} THEN astray' = astray ELSE astray'.torn = astray.torn \cup {u}
    BY <1>1 DEF RegisterFace, TypeOK, Astray
  <2>4. /\ \A a \in Users \ {u} : Registering(a)' = Registering(a)
        /\ \A a \in Users \ astray'.torn : a # u => UserFaceInv(a)'
    BY <1>1, <2>1, <2>2, <2>3, OtherFaces DEF AtFace
  <2>5. ASSUME u \notin astray'.torn PROVE UserFaceInv(u)'
    <3>1. Registering(u) = {} /\ u \notin astray.torn
      BY <2>3, <2>5
    <3>2. Registering(u)' = {r}
      BY <2>1, <2>2, <3>1 DEF Registering
    <3>3. collection[u] = {face[u]} \ {NoRow}
      BY <3>1 DEF FaceInv, UserFaceInv
    <3>4. RegistrationInv(r)'
      BY <2>1, <2>2, <3>3 DEF RegistrationInv
    <3> QED
      BY <3>2, <3>4 DEF UserFaceInv
  <2>6. FaceInv'
    BY <1>b, <2>1, <2>4, <2>5 DEF FaceInv
  <2>7. NumberInv'
    <3>1. \A a \in Users \ astray'.moved : a \notin astray.moved /\ face'[a] = face[a]
      BY <2>1
    <3> QED
      BY <2>1, <2>2, <3>1, OtherNumbers
  <2> QED
    BY <2>6, <2>7
<1>2. ASSUME NEW r \in Requests, Others(r), FindFace(r)
      PROVE  FaceInv' /\ NumberInv'
  <2>1. PICK u \in Users : u = loc[r].user /\ loc[r].phone \in Phones
    BY <1>2 DEF FindFace, RequestInv
  <2>2. /\ pc[r] = "row" /\ phone' = phone /\ face' = face
        /\ collection' = collection /\ astray' = astray /\ pc'[r] = AfterRow(face[u])
        /\ \A x \in Requests \ {r} : pc'[x] = pc[x] /\ loc'[x] = loc[x]
    BY <1>2, <2>1 DEF FindFace, Goto, TypeOK, accounts, faces
  <2>3. /\ loc'[r].user = u /\ loc'[r].phone = loc[r].phone /\ loc'[r].late = loc[r].late
        /\ loc'[r].old = face[u].id
    BY <1>2, <2>1 DEF FindFace, TypeOK, Local
  <2>4. pc'[r] \in {"forget", "learn"} /\ (pc'[r] = "learn" <=> face[u] = NoRow)
    BY <2>2, FaceFields DEF AfterRow, TypeOK
  <2>5. /\ \A a \in Users \ {u} : Registering(a)' = Registering(a)
        /\ \A a \in Users \ astray'.torn : a # u => UserFaceInv(a)'
    BY <1>2, <2>1, <2>2, <2>3, OtherFaces DEF AtFace
  <2>6. Registering(u)' = Registering(u) /\ r \in Registering(u)
    BY <2>1, <2>2, <2>3, <2>4 DEF Registering
  <2>7. ASSUME u \notin astray'.torn PROVE UserFaceInv(u)'
    <3>1. RegistrationInv(r) /\ \A x, y \in Registering(u) : x = y
      BY <2>2, <2>6, <2>7 DEF FaceInv, UserFaceInv
    <3>2. collection[u] = {face[u]} \ {NoRow}
      BY <2>1, <2>2, <3>1 DEF RegistrationInv
    <3>3. RegistrationInv(r)'
      BY <2>2, <2>3, <2>4, <3>2 DEF RegistrationInv
    <3> QED
      BY <2>6, <3>1, <3>3 DEF UserFaceInv
  <2>8. FaceInv'
    BY <1>b, <2>2, <2>4, <2>5, <2>7 DEF FaceInv
  <2>9. NumberInv'
    <3>1. ~loc[r].late => loc[r].phone = phone[u]
      BY <2>6 DEF NumberInv
    <3>2. \A a \in Users \ astray'.moved : a \notin astray.moved /\ face'[a] = face[a]
      BY <2>2
    <3> QED
      BY <2>2, <2>3, <3>1, <3>2, OtherNumbers
  <2> QED
    BY <2>8, <2>9
<1>3. ASSUME NEW r \in Requests, Others(r), DeleteFace(r) \/ LearnFace(r)
      PROVE  FaceInv' /\ NumberInv'
  <2>1. PICK u \in Users : u = loc[r].user /\ loc[r].phone \in Phones
    BY <1>3 DEF DeleteFace, LearnFace, RequestInv
  <2>2. /\ phone' = phone /\ face' = face /\ astray' = astray
        /\ \A a \in Users \ {u} : collection'[a] = collection[a]
        /\ \A x \in Requests \ {r} : pc'[x] = pc[x] /\ loc'[x] = loc[x]
    BY <1>3, <2>1 DEF DeleteFace, LearnFace, Goto, TypeOK, accounts
  <2>3. /\ loc'[r].user = u /\ loc'[r].phone = loc[r].phone /\ loc'[r].late = loc[r].late
        /\ loc'[r].old = loc[r].old
    BY <1>3, <2>1 DEF DeleteFace, LearnFace, TypeOK, Local
  <2>4. \/ /\ pc[r] = "forget" /\ pc'[r] = "learn"
           /\ collection'[u] = {f \in collection[u] : f.id # loc[r].old}
        \/ /\ pc[r] = "learn" /\ pc'[r] = "save" /\ loc'[r].new
           /\ collection'[u] = collection[u] \cup {[id |-> r, phone |-> loc[r].phone]}
    BY <1>3, <2>1 DEF DeleteFace, LearnFace, Goto, TypeOK, Local
  <2>5. /\ \A a \in Users \ {u} : Registering(a)' = Registering(a)
        /\ \A a \in Users \ astray'.torn : a # u => UserFaceInv(a)'
    BY <1>3, <2>1, <2>2, <2>3, OtherFaces
  <2>6. Registering(u)' = Registering(u) /\ r \in Registering(u)
    BY <2>1, <2>2, <2>3, <2>4 DEF Registering
  <2>7. ASSUME u \notin astray'.torn PROVE UserFaceInv(u)'
    <3>1. RegistrationInv(r) /\ \A x, y \in Registering(u) : x = y
      BY <2>2, <2>6, <2>7 DEF FaceInv, UserFaceInv
    <3>2. RegistrationInv(r)'
      BY <2>1, <2>2, <2>3, <2>4, <3>1 DEF RegistrationInv
    <3> QED
      BY <2>6, <3>1, <3>2 DEF UserFaceInv
  <2>8. FaceInv'
    <3>1. \A x \in Requests : pc'[x] = "save" => loc'[x].new
      BY <2>2, <2>4 DEF FaceInv
    <3>2. \A a \in Users : face[a].id # 0 => pc'[face[a].id] = "over"
      BY <1>b, <2>2, <2>4
    <3> QED
      BY <2>2, <2>5, <2>7, <3>1, <3>2 DEF FaceInv
  <2>9. NumberInv'
    <3>1. ~loc[r].late => loc[r].phone = phone[u]
      BY <2>6 DEF NumberInv
    <3>2. \A a \in Users \ astray'.moved : a \notin astray.moved /\ face'[a] = face[a]
      BY <2>2
    <3> QED
      BY <2>2, <2>3, <3>1, <3>2, OtherNumbers
  <2> QED
    BY <2>8, <2>9
<1>4. ASSUME NEW r \in Requests, Others(r), SaveFace(r)
      PROVE  FaceInv' /\ NumberInv'
  <2>1. PICK u \in Users : u = loc[r].user /\ loc[r].phone \in Phones
    BY <1>4 DEF SaveFace, RequestInv
  <2> DEFINE row == [id |-> r, phone |-> loc[r].phone]
  <2>2. /\ pc[r] = "save" /\ pc'[r] = "over" /\ phone' = phone /\ collection' = collection
        /\ \A x \in Requests \ {r} : pc'[x] = pc[x] /\ loc'[x] = loc[x]
    BY <1>4, FinishEffect DEF SaveFace, accounts
  <2>3. \/ loc[r].old = 0 /\ face[u] # NoRow /\ face' = face /\ astray' = astray
        \/ /\ ~(loc[r].old = 0 /\ face[u] # NoRow)
           /\ face'[u] = row /\ \A a \in Users \ {u} : face'[a] = face[a]
           /\ astray'.torn = astray.torn
           /\ astray'.moved = IF loc[r].late THEN astray.moved \cup {u} ELSE astray.moved \ {u}
    BY <1>4, <2>1 DEF SaveFace, TypeOK, Astray
  <2>4. row.id = r /\ row.phone = loc[r].phone /\ r # 0 /\ row # NoRow
    BY DEF NoRow, Requests
  <2> HIDE DEF row
  <2>5. r \in Registering(u) /\ Registering(u)' = Registering(u) \ {r}
    BY <2>1, <2>2 DEF Registering
  <2>6. /\ \A a \in Users \ {u} : Registering(a)' = Registering(a)
        /\ \A a \in Users \ astray'.torn : a # u => UserFaceInv(a)'
    BY <1>4, <2>1, <2>2, <2>3, OtherFaces DEF AtFace
  <2>7. ASSUME u \notin astray'.torn PROVE UserFaceInv(u)'
    <3>1. RegistrationInv(r) /\ \A x, y \in Registering(u) : x = y
      BY <2>3, <2>5, <2>7 DEF FaceInv, UserFaceInv
    <3>2. loc[r].old = face[u].id /\ collection[u] = {row}
      BY <2>1, <2>2, <3>1 DEF RegistrationInv, row
    <3>3. face'[u] = row
      BY <2>3, <3>2, FaceFields DEF TypeOK
    <3>4. Registering(u)' = {}
      BY <2>5, <3>1
    <3> QED
      BY <2>2, <2>4, <3>2, <3>3, <3>4 DEF UserFaceInv
  <2>8. FaceInv'
    <3>1. \A x \in Requests : pc'[x] = "save" => loc'[x].new
      BY <2>2 DEF FaceInv
    <3>2. \A a \in Users : face[a].id # r
      BY <1>b, <2>2, <2>4
    <3>3. \A a \in Users : face'[a].id # 0 => pc'[face'[a].id] = "over"
      BY <1>b, <2>2, <2>3, <2>4
    <3>4. \A a, b \in Users : face'[a].id = face'[b].id /\ face'[a].id # 0 => a = b
      BY <2>3, <2>4, <3>2 DEF FaceInv
    <3> QED
      BY <2>6, <2>7, <3>1, <3>3, <3>4 DEF FaceInv
  <2>9. NumberInv'
    <3>1. ~loc[r].late => loc[r].phone = phone[u]
      BY <2>5 DEF NumberInv
    <3>2. ASSUME NEW a \in Users \ astray'.moved, face'[a] # NoRow
          PROVE  face'[a].phone = phone[a] \/ (a \notin astray.moved /\ face'[a] = face[a])
      <4>1. CASE a = u /\ face'[u] = row
        BY <2>3, <2>4, <3>1, <3>2, <4>1, NullAssumption DEF TypeOK
      <4>2. CASE ~(a = u /\ face'[u] = row)
        BY <2>3, <3>2, <4>2
      <4> QED
        BY <4>1, <4>2
    <3> QED
      BY <2>2, <3>2, OtherNumbers DEF AtFace
  <2> QED
    BY <2>8, <2>9
<1>5. ASSUME NEW r \in Requests, Others(r), Abort(r), pc[r] \in AtFace
      PROVE  FaceInv' /\ NumberInv'
  <2>1. PICK u \in Users : u = loc[r].user
    BY <1>5 DEF AtFace, RequestInv
  <2>2. /\ pc'[r] = "over" /\ phone' = phone /\ face' = face /\ collection' = collection
        /\ \A x \in Requests \ {r} : pc'[x] = pc[x] /\ loc'[x] = loc[x]
    BY <1>5, FinishEffect DEF Abort, accounts, faces
  <2>3. /\ astray'.torn = IF pc[r] \in {"learn", "save"} /\ (loc[r].old # 0 \/ loc[r].new)
                          THEN astray.torn \cup {u} ELSE astray.torn
        /\ astray'.moved = astray.moved
    BY <1>5, <2>1 DEF Abort, TypeOK, Astray
  <2>4. r \in Registering(u) /\ Registering(u)' = Registering(u) \ {r}
    BY <1>5, <2>1, <2>2 DEF Registering, AtFace
  <2>5. /\ \A a \in Users \ {u} : Registering(a)' = Registering(a)
        /\ \A a \in Users \ astray'.torn : a # u => UserFaceInv(a)'
    BY <1>5, <2>1, <2>2, <2>3, OtherFaces DEF AtFace
  <2>6. ASSUME u \notin astray'.torn PROVE UserFaceInv(u)'
    <3>1. RegistrationInv(r) /\ \A x, y \in Registering(u) : x = y
      BY <2>3, <2>4, <2>6 DEF FaceInv, UserFaceInv
    <3>2. collection[u] = {face[u]} \ {NoRow}
      <4>1. u \notin astray.torn /\ pc[r] \in AtFace /\ (pc[r] = "save" => loc[r].new)
        BY <1>5, <2>3, <2>6 DEF FaceInv
      <4>2. CASE pc[r] \in {"row", "forget"}
        BY <2>1, <3>1, <4>2, FaceFields DEF RegistrationInv, TypeOK
      <4>3. CASE pc[r] \in {"learn", "save"}
        <5>1. loc[r].old = 0 /\ ~loc[r].new
          BY <2>3, <2>6, <4>3
        <5>2. pc[r] = "learn" /\ face[u].id = 0 /\ collection[u] = {}
          BY <2>1, <3>1, <4>1, <4>3, <5>1 DEF RegistrationInv
        <5> QED
          BY <5>2, FaceFields DEF TypeOK
      <4> QED
        BY <4>1, <4>2, <4>3 DEF AtFace
    <3>3. Registering(u)' = {}
      BY <2>4, <3>1
    <3> QED
      BY <2>2, <3>2, <3>3 DEF UserFaceInv
  <2>7. FaceInv'
    <3>1. \A x \in Requests : pc'[x] = "save" => loc'[x].new
      BY <2>2 DEF FaceInv
    <3>2. \A a \in Users : face[a].id # 0 => pc'[face[a].id] = "over"
      BY <1>b, <2>2
    <3> QED
      BY <2>2, <2>5, <2>6, <3>1, <3>2 DEF FaceInv
  <2>8. NumberInv'
    <3>1. \A a \in Users \ astray'.moved : a \notin astray.moved /\ face'[a] = face[a]
      BY <2>2, <2>3
    <3> QED
      BY <2>2, <3>1, OtherNumbers DEF AtFace
  <2> QED
    BY <2>7, <2>8
<1>c. \A l \in Local : \A k \in {l, [l EXCEPT !.late = TRUE]} :
        /\ k.user = l.user /\ k.old = l.old /\ k.new = l.new /\ k.phone = l.phone
        /\ l.late => k.late
  BY DEF Local
<1>d. ASSUME NEW r \in Requests, NEW x \in Requests \ {r}, Others(r)
      PROVE  /\ pc'[x] = pc[x] /\ loc'[x].user = loc[x].user /\ loc'[x].old = loc[x].old
             /\ loc'[x].new = loc[x].new /\ loc'[x].phone = loc[x].phone
             /\ loc[x].late => loc'[x].late
  <2>1. loc[x] \in Local /\ loc'[x] \in {loc[x], [loc[x] EXCEPT !.late = TRUE]} /\ pc'[x] = pc[x]
    BY <1>d DEF Others, TypeOK
  <2> QED
    BY <1>c, <2>1
<1>6. ASSUME NEW r \in Requests, Others(r), pc[r] \notin AtFace \cup {"over"}, pc'[r] \notin AtFace,
             face' = face, collection' = collection, phone' = phone,
             astray.torn \subseteq astray'.torn, astray.moved \subseteq astray'.moved
      PROVE  FaceInv' /\ NumberInv'
  <2>1. \A x \in Requests : pc[x] \in AtFace \/ pc'[x] \in AtFace =>
          /\ pc'[x] = pc[x] /\ loc'[x].user = loc[x].user /\ loc'[x].old = loc[x].old
          /\ loc'[x].new = loc[x].new /\ loc'[x].phone = loc[x].phone
          /\ loc[x].late => loc'[x].late
    BY <1>d, <1>6
  <2>2. \A x \in Requests : pc[x] = "over" => pc'[x] = "over"
    BY <1>6 DEF Others
  <2> QED
    BY <1>6, <2>1, <2>2, QuietFaces
<1>7. ASSUME NEW r \in Requests, NEW u \in Users, NEW new \in Phones, Others(r), Write(r, u, new),
             pc[r] \in {"idle", "secure"}
      PROVE  FaceInv' /\ NumberInv'
  <2>1. face' = face /\ collection' = collection
    BY <1>7 DEF Write, faces
  <2>2. pc[r] \notin AtFace /\ pc[r] # "over" /\ pc'[r] = "over"
    BY <1>7, WriteEffect DEF AtFace
  <2>a. pc'[r] \notin AtFace
    BY <2>2 DEF AtFace
  <2>3. \A x \in Requests : pc[x] \in AtFace \/ pc'[x] \in AtFace =>
          /\ pc'[x] = pc[x] /\ loc'[x].user = loc[x].user /\ loc'[x].old = loc[x].old
          /\ loc'[x].new = loc[x].new /\ loc'[x].phone = loc[x].phone
          /\ loc[x].late => loc'[x].late
    BY <1>d, <1>7, <2>2, <2>a
  <2>4. \A x \in Requests : pc[x] = "over" => pc'[x] = "over"
    BY <1>7, <2>2 DEF Others
  <2>5. astray.torn \subseteq astray'.torn /\ astray.moved \subseteq astray'.moved
    BY <1>7, WriteEffect
  <2>6. \A a \in Users : phone'[a] # phone[a] =>
          a \in astray'.moved /\ \A x \in Registering(a) : loc'[x].late
    <3>1. \A x \in Registering(u) : x \in Requests \ {r}
      BY <2>2 DEF Registering, AtFace
    <3> QED
      BY <1>7, <3>1, WriteEffect
  <2> QED
    BY <2>1, <2>3, <2>4, <2>5, <2>6, QuietFaces
<1>8. ASSUME NEW r \in Requests, Others(r), Call(r)
      PROVE  FaceInv' /\ NumberInv'
  <2>1. CASE \E u \in Users, p \in Phones : RegisterFace(r, u, p)
    BY <1>1, <1>8, <2>1
  <2>2. CASE \E u \in Users, p \in Phones : ChangeSensitiveInfo(r, u, p)
    BY <1>7, <1>8, <2>2 DEF ChangeSensitiveInfo, Starts
  <2>3. ASSUME ~\E u \in Users, p \in Phones : RegisterFace(r, u, p),
               ~\E u \in Users, p \in Phones : ChangeSensitiveInfo(r, u, p)
        PROVE  /\ pc[r] = "idle" /\ face' = face /\ collection' = collection /\ phone' = phone
               /\ astray' = astray
    BY <1>8, <2>3, Zenon DEF Call, Starts, ForgetPassword, ResetPassword, UpdateSecurity,
       CreateVouchers, ExchangeVoucher, ExchangeByGroup, RemoveVouchers, accounts, faces
  <2>4. ASSUME ~\E u \in Users, p \in Phones : RegisterFace(r, u, p),
               ~\E u \in Users, p \in Phones : ChangeSensitiveInfo(r, u, p)
        PROVE  pc'[r] \notin AtFace
    <3>1. /\ \A label : Goto(r, label) => pc'[r] = label
          /\ Finish(r) => pc'[r] = "over"
      BY <1>8, FinishEffect DEF Goto, TypeOK
    <3> QED
      BY <1>8, <2>4, <3>1 DEF Call, AtFace, ForgetPassword, ResetPassword,
       UpdateSecurity, CreateVouchers, ExchangeVoucher, ExchangeByGroup, RemoveVouchers
  <2> QED
    BY <1>6, <1>8, <2>1, <2>2, <2>3, <2>4 DEF AtFace
<1>9. ASSUME NEW r \in Requests, Others(r), Continue(r)
      PROVE  FaceInv' /\ NumberInv'
  <2>1. CASE FindFace(r) \/ DeleteFace(r) \/ LearnFace(r) \/ SaveFace(r)
    BY <1>2, <1>3, <1>4, <1>9, <2>1
  <2>2. CASE WriteAccount(r)
    BY <1>7, <1>9, <2>2 DEF WriteAccount, RequestInv
  <2>3. ASSUME ~(FindFace(r) \/ DeleteFace(r) \/ LearnFace(r) \/ SaveFace(r)), ~WriteAccount(r)
        PROVE  /\ face' = face /\ collection' = collection /\ phone' = phone
               /\ astray'.torn = astray.torn /\ astray'.moved = astray.moved
    BY <1>9, <2>3 DEF Continue, TypeOK, Astray, MailCode, CompareCode, ConsumeCode, StorePassword,
       ReadAccount, CheckPhone, FindCustomer, AssignVoucher, FindFree, GrantVoucher, CreateVoucher,
       accounts, faces
  <2>4. ASSUME ~(FindFace(r) \/ DeleteFace(r) \/ LearnFace(r) \/ SaveFace(r)), ~WriteAccount(r)
        PROVE  pc[r] \notin AtFace \cup {"over"} /\ pc'[r] \notin AtFace
    BY <1>9, <2>4 DEF Continue, Finish, Goto, TypeOK, AtFace, MailCode, CompareCode, ConsumeCode,
       StorePassword, ReadAccount, CheckPhone, FindCustomer, AssignVoucher, FindFree,
       GrantVoucher, Assign, CreateVoucher
  <2> QED
    BY <1>6, <1>9, <2>1, <2>2, <2>3, <2>4
<1>10. ASSUME NEW r \in Requests, Others(r), Abort(r)
       PROVE  FaceInv' /\ NumberInv'
  <2>1. CASE pc[r] \in AtFace
    BY <1>5, <1>10, <2>1
  <2>2. CASE pc[r] \notin AtFace
    <3>1. astray' = astray /\ face' = face /\ collection' = collection /\ phone' = phone
      BY <1>10, <2>2 DEF Abort, AtFace, accounts, faces
    <3>2. pc[r] # "over" /\ pc'[r] \notin AtFace
      BY <1>10, FinishEffect DEF Abort, Suspended, AtFace
    <3> QED
      BY <1>6, <1>10, <2>2, <3>1, <3>2
  <2> QED
    BY <2>1, <2>2
<1>11. ASSUME \/ \E u \in Users : ExpireCode(u)
              \/ \E v \in Vouchers : UseVoucher(v)
              \/ UNCHANGED vars
       PROVE  FaceInv' /\ NumberInv'
  <2>1. /\ face' = face /\ collection' = collection /\ phone' = phone /\ pc' = pc /\ loc' = loc
        /\ astray' = astray
    BY <1>11 DEF ExpireCode, UseVoucher, vars, accounts, faces
  <2> QED
    BY <2>1, QuietFaces
<1> QED
  BY <1>a, <1>8, <1>9, <1>10, <1>11 DEF Next
-----------------------------------------------------------------------------
(* Vouchers.                                                               *)

\* A step of r that does not touch the vouchers, nor find one that is free.
LEMMA QuietVouchers ==
    ASSUME VoucherInv, VoucherKeepsOwner, voucher' = voucher, given' = given, phone' = phone,
           astray.contested \subseteq astray'.contested,
           \A x \in Requests : pc'[x] = "grant" =>
             /\ pc[x] = "grant" /\ loc'[x].voucher = loc[x].voucher
             /\ loc[x].late => loc'[x].late
    PROVE  VoucherInv' /\ VoucherKeepsOwner'
<1>1. \A v \in Vouchers : There(v)' = There(v)
  BY DEF There
<1>2. VoucherKeepsOwner'
  BY <1>1 DEF VoucherKeepsOwner
<1>3. ASSUME NEW x \in Requests, pc'[x] = "grant", ~loc'[x].late, There(loc[x].voucher)
      PROVE  voucher[loc[x].voucher].owner = NoPhone
  BY <1>3 DEF VoucherInv
<1>4. VoucherInv'
  BY <1>3 DEF VoucherInv, There
<1> QED
  BY <1>2, <1>4

\* Other requests that found a voucher free still hold it.
LEMMA OtherVouchers ==
    ASSUME TypeOK, NEW r \in Requests, NEW x \in Requests \ {r}, Others(r)
    PROVE  /\ pc'[x] = pc[x] /\ loc'[x].voucher = loc[x].voucher
           /\ loc[x].late => loc'[x].late
<1>1. \A l \in Local : \A k \in {l, [l EXCEPT !.late = TRUE]} :
        k.voucher = l.voucher /\ (l.late => k.late)
  BY DEF Local
<1>2. loc[x] \in Local /\ loc'[x] \in {loc[x], [loc[x] EXCEPT !.late = TRUE]} /\ pc'[x] = pc[x]
  BY DEF Others, TypeOK
<1> QED
  BY <1>1, <1>2

\* Every step keeps what is known about vouchers.
LEMMA VoucherStep ==
    ASSUME TypeOK, TypeOK', \A r \in Requests : RequestInv(r), VoucherInv, VoucherKeepsOwner, [Next]_vars
    PROVE  VoucherInv' /\ VoucherKeepsOwner'
<1>a. ASSUME NEW r \in Requests, Call(r) \/ Continue(r) \/ Abort(r)
      PROVE  Others(r)
  BY <1>a, StepEffect
<1>b. \A u \in Users : phone[u] \in Phones /\ phone[u] # NoPhone
  BY NullAssumption DEF TypeOK
<1>c. ASSUME NEW r \in Requests, Others(r), pc'[r] # "grant", voucher' = voucher, given' = given,
             phone' = phone, astray.contested \subseteq astray'.contested
      PROVE  VoucherInv' /\ VoucherKeepsOwner'
  <2>1. \A x \in Requests : pc'[x] = "grant" =>
          /\ pc[x] = "grant" /\ loc'[x].voucher = loc[x].voucher
          /\ loc[x].late => loc'[x].late
    BY <1>c, OtherVouchers
  <2> QED
    BY <1>c, <2>1, QuietVouchers
<1>1. ASSUME NEW r \in Requests, NEW u \in Users, NEW new \in Phones, Others(r), Write(r, u, new)
      PROVE  VoucherInv' /\ VoucherKeepsOwner'
  <2>1. /\ pc'[r] = "over" /\ \A a \in Users \ {u} : phone'[a] = phone[a]
        /\ astray'.contested = astray.contested /\ given' = given
    BY <1>1, WriteEffect DEF Write
  <2>2. \A v \in Vouchers :
          /\ voucher'[v].state = voucher[v].state
          /\ voucher'[v].owner = IF voucher[v].owner = phone[u] THEN phone'[u] ELSE voucher[v].owner
    BY <1>1, WriteEffect
  <2>3. \A v \in Vouchers : There(v)' = There(v)
    BY <2>2 DEF There
  <2>4. VoucherInv'
    <3>1. ASSUME NEW x \in Requests, pc'[x] = "grant", ~loc'[x].late, There(loc[x].voucher)'
          PROVE  voucher'[loc'[x].voucher].owner = NoPhone
      <4>1. x # r /\ pc[x] = "grant" /\ loc'[x].voucher = loc[x].voucher /\ ~loc[x].late
        BY <1>1, <2>1, <3>1, OtherVouchers
      <4>2. loc[x].voucher \in Vouchers
        BY <4>1 DEF RequestInv
      <4> QED
        BY <1>b, <2>2, <2>3, <3>1, <4>1, <4>2 DEF VoucherInv
    <3> QED
      BY <1>b, <2>1, <2>2, <3>1 DEF VoucherInv
  <2>5. VoucherKeepsOwner'
    BY <1>b, <2>1, <2>2, <2>3, NullAssumption DEF VoucherKeepsOwner, TypeOK
  <2> QED
    BY <2>4, <2>5
<1>2. ASSUME NEW r \in Requests, NEW v \in Vouchers, Others(r), CreateVoucher(r, v)
      PROVE  VoucherInv' /\ VoucherKeepsOwner'
  <2>1. /\ voucher[v].state = "absent" /\ voucher'[v].state = "active"
        /\ \A w \in Vouchers : voucher'[w].owner = voucher[w].owner
        /\ \A w \in Vouchers \ {v} : voucher'[w].state = voucher[w].state
        /\ given' = given /\ phone' = phone /\ astray' = astray /\ pc'[r] # "grant"
    BY <1>2, FinishEffect DEF CreateVoucher, accounts, TypeOK, VoucherRow
  <2>2. given[v] = NoUser /\ voucher[v].owner = NoPhone
    BY <2>1 DEF VoucherInv
  <2>3. VoucherKeepsOwner'
    BY <2>1, <2>2 DEF VoucherKeepsOwner, There
  <2>4. ASSUME NEW x \in Requests, pc'[x] = "grant", ~loc'[x].late, There(loc[x].voucher)'
        PROVE  voucher'[loc'[x].voucher].owner = NoPhone
    <3>1. x # r /\ pc[x] = "grant" /\ loc'[x].voucher = loc[x].voucher /\ ~loc[x].late
      BY <1>2, <2>1, <2>4, OtherVouchers
    <3>2. loc[x].voucher \in Vouchers
      BY <3>1 DEF RequestInv
    <3> QED
      BY <2>1, <2>2, <2>4, <3>1, <3>2 DEF VoucherInv, There
  <2>5. VoucherInv'
    BY <2>1, <2>4 DEF VoucherInv
  <2> QED
    BY <2>3, <2>5
<1>3. ASSUME NEW r \in Requests, Others(r), AssignVoucher(r) \/ GrantVoucher(r)
      PROVE  VoucherInv' /\ VoucherKeepsOwner'
  <2>1. PICK v \in Vouchers, p \in Phones : v = loc[r].voucher /\ p = loc[r].phone
    BY <1>3 DEF AssignVoucher, GrantVoucher, RequestInv
  <2>2. Assign(r, v, p) /\ phone' = phone
    BY <1>3, <2>1 DEF AssignVoucher, GrantVoucher
  <2>3. pc'[r] = "over" /\ \A w \in Vouchers : voucher'[w].state = voucher[w].state
    BY <2>2, AssignEffect
  <2>4. \A w \in Vouchers : There(w)' = There(w)
    BY <2>3 DEF There
  <2>5. \A w \in Vouchers \ {v} : voucher'[w] = voucher[w] /\ given'[w] = given[w]
    BY <1>3, <2>1, <2>2, AssignEffect DEF AssignVoucher, GrantVoucher, TypeOK
  <2>6. astray.contested \subseteq astray'.contested
    BY <1>3, <2>1 DEF AssignVoucher, GrantVoucher, TypeOK, Astray
  <2>7. CASE There(v) /\ UserOf(p) # {}
    <3>1. /\ voucher'[v].owner = p
          /\ \A x \in Requests \ {r} : loc[x].voucher = v => loc'[x].late
      BY <2>2, <2>7, AssignEffect
    <3>2. ASSUME given'[v] = CHOOSE u \in UserOf(p) : TRUE
          PROVE  voucher'[v].owner = phone'[given'[v]]
      BY <2>2, <2>7, <3>1, <3>2 DEF UserOf
    <3>3. ASSUME v \notin astray'.contested, given'[v] # NoUser
          PROVE  voucher'[v].owner = phone'[given'[v]]
      <4>1. CASE AssignVoucher(r)
        <5>1. \/ voucher' = voucher /\ given' = given
              \/ given'[v] = CHOOSE u \in UserOf(p) : TRUE
          BY <2>1, <4>1 DEF AssignVoucher, TypeOK
        <5> QED
          BY <2>2, <2>6, <2>7, <3>2, <3>3, <5>1 DEF VoucherKeepsOwner
      <4>2. CASE GrantVoucher(r)
        <5>1. ~loc[r].late /\ v \notin astray.contested
          BY <2>1, <2>6, <2>7, <3>3, <4>2 DEF GrantVoucher, TypeOK, Astray
        <5>2. voucher[v].owner = NoPhone
          BY <2>1, <2>7, <4>2, <5>1 DEF GrantVoucher, VoucherInv
        <5>3. given[v] = NoUser
          BY <1>b, <2>7, <5>1, <5>2 DEF VoucherKeepsOwner, TypeOK
        <5>4. given'[v] = CHOOSE u \in UserOf(p) : TRUE
          BY <2>1, <2>7, <4>2, <5>3 DEF GrantVoucher, TypeOK
        <5> QED
          BY <3>2, <5>4
      <4> QED
        BY <1>3, <4>1, <4>2
    <3>4. VoucherKeepsOwner'
      BY <2>2, <2>4, <2>5, <2>6, <3>3 DEF VoucherKeepsOwner
    <3>5. ASSUME NEW x \in Requests, pc'[x] = "grant", ~loc'[x].late, There(loc[x].voucher)'
          PROVE  voucher'[loc'[x].voucher].owner = NoPhone
      <4>1. x # r /\ pc[x] = "grant" /\ loc'[x].voucher = loc[x].voucher /\ ~loc[x].late
        BY <1>3, <2>3, <3>5, OtherVouchers
      <4>2. loc[x].voucher \in Vouchers \ {v}
        BY <3>1, <3>5, <4>1 DEF RequestInv
      <4> QED
        BY <2>4, <2>5, <3>5, <4>1, <4>2 DEF VoucherInv
    <3>6. There(v)
      BY <2>7
    <3>7. VoucherInv'
      BY <2>3, <2>5, <3>5, <3>6 DEF VoucherInv, There
    <3> QED
      BY <3>4, <3>7
  <2>8. CASE ~(There(v) /\ UserOf(p) # {})
    <3>1. voucher' = voucher /\ given' = given
      BY <1>3, <2>1, <2>2, <2>8, AssignEffect DEF AssignVoucher, GrantVoucher
    <3> QED
      BY <1>3, <1>c, <2>2, <2>3, <2>6, <3>1
  <2> QED
    BY <2>7, <2>8
<1>4. ASSUME NEW r \in Requests, Others(r), FindFree(r)
      PROVE  VoucherInv' /\ VoucherKeepsOwner'
  <2>1. voucher' = voucher /\ given' = given /\ phone' = phone /\ astray' = astray
    BY <1>4 DEF FindFree, accounts
  <2>2. CASE pc'[r] # "grant"
    BY <1>4, <1>c, <2>1, <2>2
  <2>3. CASE pc'[r] = "grant"
    <3>1. PICK v \in Vouchers : IsFree(v) /\ loc' = [loc EXCEPT ![r].voucher = v]
      BY <1>4, <2>3, FinishEffect DEF FindFree
    <3>2. loc'[r].voucher = v /\ voucher[v].owner = NoPhone
      BY <3>1 DEF IsFree, TypeOK, Local
    <3>3. ASSUME NEW x \in Requests, pc'[x] = "grant", ~loc'[x].late, There(loc'[x].voucher)
          PROVE  voucher[loc'[x].voucher].owner = NoPhone
      <4>1. CASE x = r
        BY <3>2, <4>1
      <4>2. CASE x # r
        BY <1>4, <3>3, <4>2, OtherVouchers DEF VoucherInv
      <4> QED
        BY <4>1, <4>2
    <3>4. VoucherInv'
      BY <2>1, <3>3 DEF VoucherInv, There
    <3>5. VoucherKeepsOwner'
      BY <2>1 DEF VoucherKeepsOwner, There
    <3> QED
      BY <3>4, <3>5
  <2> QED
    BY <2>2, <2>3
<1>5. ASSUME NEW r \in Requests, NEW gone \in SUBSET Vouchers, Others(r), RemoveVouchers(r, gone)
      PROVE  VoucherInv' /\ VoucherKeepsOwner'
  <2>1. /\ \A v \in Vouchers : voucher'[v] = voucher[v]
                               \/ voucher'[v] = [state |-> "deleted", owner |-> NoPhone]
        /\ given' = given /\ phone' = phone /\ astray' = astray /\ pc'[r] = "over"
    BY <1>5, FinishEffect DEF RemoveVouchers, accounts
  <2>2. \A v \in Vouchers : There(v)' => There(v) /\ voucher'[v] = voucher[v]
    BY <2>1 DEF There
  <2>3. VoucherKeepsOwner'
    BY <2>1, <2>2 DEF VoucherKeepsOwner
  <2>4. ASSUME NEW x \in Requests, pc'[x] = "grant", ~loc'[x].late, There(loc[x].voucher)'
        PROVE  voucher'[loc'[x].voucher].owner = NoPhone
    <3>1. x # r /\ pc[x] = "grant" /\ loc'[x].voucher = loc[x].voucher /\ ~loc[x].late
      BY <1>5, <2>1, <2>4, OtherVouchers
    <3>2. loc[x].voucher \in Vouchers
      BY <3>1 DEF RequestInv
    <3> QED
      BY <2>2, <2>4, <3>1, <3>2 DEF VoucherInv
  <2>5. VoucherInv'
    BY <2>1, <2>4 DEF VoucherInv
  <2> QED
    BY <2>3, <2>5
<1>6. ASSUME NEW r \in Requests, Others(r), Call(r)
      PROVE  VoucherInv' /\ VoucherKeepsOwner'
  <2>1. CASE \E u \in Users, p \in Phones : ChangeSensitiveInfo(r, u, p)
    BY <1>1, <1>6, <2>1 DEF ChangeSensitiveInfo
  <2>2. CASE \E gone \in SUBSET Vouchers : RemoveVouchers(r, gone)
    BY <1>5, <1>6, <2>2
  <2>3. ASSUME ~\E u \in Users, p \in Phones : ChangeSensitiveInfo(r, u, p),
               ~\E gone \in SUBSET Vouchers : RemoveVouchers(r, gone)
        PROVE  /\ voucher' = voucher /\ given' = given /\ phone' = phone /\ pc'[r] # "grant"
               /\ astray'.contested = astray.contested
    <3>1. \A label : Goto(r, label) => pc'[r] = label
      BY <1>6 DEF Goto, TypeOK
    <3>2. astray \in Astray
      BY DEF TypeOK
    <3>3. \A t : [astray EXCEPT !.torn = t].contested = astray.contested
      BY <3>2 DEF Astray
    <3> QED
      BY <1>6, <2>3, <3>1, <3>3 DEF Call, ForgetPassword, RegisterFace, ResetPassword,
       UpdateSecurity, CreateVouchers, ExchangeVoucher, ExchangeByGroup, accounts
  <2> QED
    BY <1>6, <1>c, <2>1, <2>2, <2>3
<1>7. ASSUME NEW r \in Requests, Others(r), Continue(r)
      PROVE  VoucherInv' /\ VoucherKeepsOwner'
  <2>1. CASE WriteAccount(r)
    BY <1>1, <1>7, <2>1 DEF WriteAccount, RequestInv
  <2>2. CASE AssignVoucher(r) \/ GrantVoucher(r) \/ FindFree(r) \/ \E v \in Vouchers : CreateVoucher(r, v)
    BY <1>2, <1>3, <1>4, <1>7, <2>2
  <2>3. ASSUME ~WriteAccount(r), ~AssignVoucher(r), ~GrantVoucher(r), ~FindFree(r),
               ~\E v \in Vouchers : CreateVoucher(r, v)
        PROVE  /\ voucher' = voucher /\ given' = given /\ phone' = phone /\ pc'[r] # "grant"
               /\ astray'.contested = astray.contested
    BY <1>7, <2>3 DEF Continue, Goto, Finish, TypeOK, Astray, MailCode, CompareCode, ConsumeCode,
       StorePassword, ReadAccount, CheckPhone, FindFace, AfterRow, DeleteFace, LearnFace, SaveFace,
       FindCustomer, accounts
  <2> QED
    BY <1>7, <1>c, <2>1, <2>2, <2>3
<1>8. ASSUME NEW r \in Requests, Others(r), Abort(r)
      PROVE  VoucherInv' /\ VoucherKeepsOwner'
  <2>1. /\ voucher' = voucher /\ given' = given /\ phone' = phone /\ pc'[r] = "over"
        /\ astray'.contested = astray.contested
    BY <1>8, FinishEffect DEF Abort, TypeOK, Astray, accounts
  <2> QED
    BY <1>8, <1>c, <2>1
<1>9. ASSUME NEW v \in Vouchers, UseVoucher(v)
      PROVE  VoucherInv' /\ VoucherKeepsOwner'
  <2>1. /\ voucher[v].state = "active" /\ voucher'[v].state = "used"
        /\ \A w \in Vouchers : voucher'[w].owner = voucher[w].owner
        /\ \A w \in Vouchers \ {v} : voucher'[w] = voucher[w]
        /\ given' = given /\ phone' = phone /\ astray' = astray /\ pc' = pc /\ loc' = loc
    BY <1>9 DEF UseVoucher, accounts, TypeOK, VoucherRow
  <2>2. \A w \in Vouchers : There(w)' = There(w)
    BY <2>1 DEF There
  <2>3. \A x \in Requests : pc[x] = "grant" => loc[x].voucher \in Vouchers
    BY DEF RequestInv
  <2> QED
    BY <2>1, <2>2, <2>3 DEF VoucherInv, VoucherKeepsOwner
<1>10. ASSUME (\E u \in Users : ExpireCode(u)) \/ UNCHANGED vars
       PROVE  VoucherInv' /\ VoucherKeepsOwner'
  BY <1>10, QuietVouchers DEF ExpireCode, vars, accounts
<1> QED
  BY <1>a, <1>6, <1>7, <1>8, <1>9, <1>10 DEF Next

-----------------------------------------------------------------------------
(* The theorems.                                                           *)

\* What is known about registrations finds the owner of a face.
LEMMA FacesFindOwners ==
    ASSUME TypeOK, FaceInv, NumberInv
    PROVE  FaceFindsOwner
<1> SUFFICES ASSUME NEW u \in Users \ astray.torn, Registering(u) = {}
             PROVE  /\ collection[u] = {face[u]} \ {NoRow}
                    /\ \A f \in collection[u] :
                         /\ LoginWithFaceID(f) = {f.phone}
                         /\ u \notin astray.moved => f.phone = phone[u]
  BY DEF FaceFindsOwner
<1>1. collection[u] = {face[u]} \ {NoRow}
  BY DEF FaceInv, UserFaceInv
<1>2. ASSUME NEW f \in collection[u]
      PROVE  /\ LoginWithFaceID(f) = {f.phone}
             /\ u \notin astray.moved => f.phone = phone[u]
  <2>1. f = face[u] /\ f # NoRow /\ f.id # 0
    BY <1>1, FaceFields DEF TypeOK
  <2>2. {x \in Users : face[x].id = f.id} = {u}
    BY <2>1 DEF FaceInv
  <2>3. LoginWithFaceID(f) = {f.phone}
    BY <2>1, <2>2 DEF LoginWithFaceID
  <2> QED
    BY <2>1, <2>3 DEF NumberInv
<1> QED
  BY <1>1, <1>2

LEMMA InitInvariant == Init => IInv
<1> SUFFICES ASSUME Init PROVE IInv
  OBVIOUS
<1>1. TypeOK
  <2>1. 0 \in 0..MaxRequests
    BY BoundAssumption
  <2>2. loc \in [Requests -> Local] /\ pc \in [Requests -> Labels]
    BY NoLocalType DEF Init, Labels
  <2>3. sent \in [Requests -> Code] /\ astray \in Astray
    BY <2>1 DEF Init, Code, Astray
  <2>4. voucher \in [Vouchers -> VoucherRow] /\ \A v \in Vouchers : voucher[v].owner = NoPhone
    BY DEF Init, VoucherRow
  <2> QED
    BY <2>1, <2>2, <2>3, <2>4 DEF Init, TypeOK
<1>2. \A r \in Requests : pc[r] = "idle" /\ loc[r] = NoLocal
  BY DEF Init
<1>3. \A r \in Requests : sent[r].user = NoUser /\ sent[r].resets = 0 /\ ~sent[r].raced
  BY DEF Init
<1>4. BegunInOrder /\ \A r \in Requests : RequestInv(r)
  BY <1>2, <1>3 DEF BegunInOrder, RequestInv
<1>5. ResetsAreBounded
  <2>1. Open = Requests
    BY <1>2 DEF Open
  <2>2. Cardinality(1..MaxRequests) = MaxRequests
    BY FS_Interval, BoundAssumption
  <2> QED
    BY <1>3, <2>1, <2>2, BoundAssumption DEF ResetsAreBounded, Requests
<1>6. CodeIsGoodOnce /\ \A c \in Requests : ResetOnce(c)
  <2>1. \A c \in Requests : Resetting(c) = {}
    BY <1>2 DEF Resetting
  <2> QED
    BY <1>3, <2>1 DEF Init, CodeIsGoodOnce, ResetOnce
<1>7. FaceInv /\ NumberInv
  <2>1. \A u \in Users : Registering(u) = {} /\ face[u] = NoRow /\ face[u].id = 0 /\ collection[u] = {}
    BY <1>2 DEF Init, Registering, NoRow
  <2> QED
    BY <1>2, <2>1 DEF FaceInv, UserFaceInv, NumberInv
<1>8. VoucherInv /\ VoucherKeepsOwner
  BY <1>2 DEF Init, VoucherInv, VoucherKeepsOwner
<1> QED
  BY <1>1, <1>4, <1>5, <1>6, <1>7, <1>8 DEF IInv

LEMMA Inductive == IInv /\ [Next]_vars => IInv'
<1> SUFFICES ASSUME IInv, [Next]_vars PROVE IInv'
  OBVIOUS
<1>1. TypeOK'
  BY TypeStep DEF IInv
<1>2. BegunInOrder' /\ \A r \in Requests : RequestInv(r)'
  BY <1>1, RequestStep DEF IInv
<1>3. CodeInv'
  BY <1>1, CodeStep DEF IInv, CodeInv
<1>4. FaceInv' /\ NumberInv'
  BY <1>1, FaceStep DEF IInv
<1>5. VoucherInv' /\ VoucherKeepsOwner'
  BY <1>1, VoucherStep DEF IInv
<1> QED
  BY <1>1, <1>2, <1>3, <1>4, <1>5 DEF IInv, CodeInv

\* The inductive invariant holds in every state.
THEOREM Invariant == Spec => []IInv
  BY InitInvariant, Inductive, PTL DEF Spec

\* The tables, the provider's faces and the local variables of the requests
\* have their types, telephone numbers are unique, and a voucher belongs to a
\* number that somebody has.
THEOREM TypeCorrect == Spec => []TypeOK
<1>1. IInv => TypeOK
  BY DEF IInv
<1> QED
  BY <1>1, Invariant, PTL

\* The code in Redis is the last one made for its user and has not set a
\* password; a code that no two requests read at once sets one password at
\* most (createOTP, validateOTP, resetPassword).
THEOREM CodesAreGoodOnce == Spec => []CodeIsGoodOnce
<1>1. IInv => CodeIsGoodOnce
  BY DEF IInv
<1> QED
  BY <1>1, Invariant, PTL

\* The provider knows the face of a user exactly if he has a row, and that
\* logs him in with his own number, except as FaceFindsOwner says
\* (registerFaceID, loginWithFaceID, updateSecurity, changeSensitiveInfo).
THEOREM FacesFindTheirOwners == Spec => []FaceFindsOwner
<1>1. IInv => FaceFindsOwner
  BY FacesFindOwners DEF IInv
<1> QED
  BY <1>1, Invariant, PTL

\* A voucher that a customer got stays his through every change of numbers,
\* unless two requests found it free (exchangeVoucher,
\* exchangeVoucherByGroup).
THEOREM VouchersKeepTheirOwners == Spec => []VoucherKeepsOwner
<1>1. IInv => VoucherKeepsOwner
  BY DEF IInv
<1> QED
  BY <1>1, Invariant, PTL
=============================================================================
