----------------------------- MODULE Customers -----------------------------
(***************************************************************************)
(* What a customer has besides orders: a telephone number, a one-time      *)
(* password, a face and vouchers.                                          *)
(*   - auth/auth.service.ts and redis/redis.service.ts: forgetPassword and *)
(*     resetPassword, updateSecurity, registerFaceID, loginWithFaceID;     *)
(*   - user/user.service.ts: changeSensitiveInfo;                          *)
(*   - face-recognition/face-recognition.service.ts: the faces that the    *)
(*     provider keeps;                                                     *)
(*   - voucher/voucher.service.ts: issuing, exchanging, removing.          *)
(*                                                                         *)
(* Vouchers belong to a telephone number, and so does the name under which *)
(* a face is registered: that is what ties the parts together.  Every      *)
(* await is a step; a code or a face is known by the request that made it. *)
(* Passwords themselves, tokens and locks are left out, and so are the     *)
(* e-mail addresses, which stand for their users.                          *)
(***************************************************************************)
EXTENDS Integers, FiniteSets

CONSTANTS
    Users,
    Phones,
    Vouchers,      \* the vouchers of one group
    Rich,          \* users with enough points for a voucher
    MaxRequests,   \* bound: requests, numbered as they begin
    MaxInFlight,   \* bound: requests being served at the same time
    Ops,           \* handlers that are called
    MayFail,       \* TRUE if an await may reject
    NoUser, NoPhone, NoVoucher

ASSUME BoundAssumption == MaxRequests \in Nat /\ MaxInFlight \in Nat

ASSUME CustomerAssumption ==
    /\ IsFiniteSet(Users) /\ IsFiniteSet(Phones)
    /\ Cardinality(Users) <= Cardinality(Phones)
    /\ Rich \subseteq Users

ASSUME NullAssumption ==
    NoUser \notin Users /\ NoPhone \notin Phones /\ NoVoucher \notin Vouchers

VARIABLES
    phone,         \* table users: the unique telephone number
    otp,           \* Redis: the code under otp:<email>, or 0
    face,          \* table face_ids, one row per user at most
    collection,    \* the provider: the faces registered with the image of a user,
                   \* each under the number that came with it (ExternalImageId)
    voucher,       \* table vouchers
    pc,            \* the await that each request is suspended on
    loc,           \* local variables of each request
    sent,          \* history: the codes that were made
    given,         \* history: who got each voucher
    astray         \* history: users and vouchers that something went wrong for

vars == <<phone, otp, face, collection, voucher, pc, loc, sent, given, astray>>

accounts == <<phone, given>>
faces == <<face, collection>>

-----------------------------------------------------------------------------
(* Types.                                                                  *)

Requests == 1..MaxRequests

Suspended == {"mail", "compare", "consume", "reset",
              "account", "taken", "secure",
              "row", "forget", "learn", "save",
              "customer", "assign", "first", "grant", "issue"}

Labels == {"idle", "over"} \cup Suspended

NoRow == [id |-> 0, phone |-> NoPhone]

Face == [id : Requests, phone : Phones]

VoucherRow == [state : {"absent", "active", "used", "deleted"}, owner : Phones \cup {NoPhone}]

Local == [user : Users \cup {NoUser}, phone : Phones \cup {NoPhone},
          voucher : Vouchers \cup {NoVoucher},
          code : Nat,              \* the code that the client sends, or vouchers to issue
          old : 0..MaxRequests,    \* the face that was registered before
          new : BOOLEAN,           \* the provider has learned the new face
          late : BOOLEAN]          \* what it read was changed by another request, or was
                                   \* out of date from the start

Code == [user : Users \cup {NoUser}, mailed : BOOLEAN, resets : 0..MaxRequests,
         raced : BOOLEAN]          \* two requests read it before either deleted it

Astray == [torn : SUBSET Users,           \* a registration failed half way or overlapped another
           moved : SUBSET Users,          \* another number came with the face, or it changed since
           contested : SUBSET Vouchers]   \* two requests found the voucher free

TypeOK ==
    /\ phone \in [Users -> Phones]
    /\ \A u, v \in Users : phone[u] = phone[v] => u = v
    /\ otp \in [Users -> 0..MaxRequests]
    /\ face \in [Users -> Face \cup {NoRow}]
    /\ collection \in [Users -> SUBSET Face]
    /\ voucher \in [Vouchers -> VoucherRow]
    /\ \A v \in Vouchers : voucher[v].owner \in {phone[u] : u \in Users} \cup {NoPhone}
    /\ pc \in [Requests -> Labels]
    /\ loc \in [Requests -> Local]
    /\ sent \in [Requests -> Code]
    /\ given \in [Vouchers -> Users \cup {NoUser}]
    /\ astray \in Astray

NoLocal == [user |-> NoUser, phone |-> NoPhone, voucher |-> NoVoucher, code |-> 0, old |-> 0,
            new |-> FALSE, late |-> FALSE]

Init ==
    /\ phone \in [Users -> Phones] /\ \A u, v \in Users : phone[u] = phone[v] => u = v
    /\ otp = [u \in Users |-> 0]
    /\ face = [u \in Users |-> NoRow]
    /\ collection = [u \in Users |-> {}]
    /\ voucher \in [Vouchers -> [state : {"absent", "active"}, owner : {NoPhone}]]
    /\ pc = [r \in Requests |-> "idle"]
    /\ loc = [r \in Requests |-> NoLocal]
    /\ sent = [r \in Requests |-> [user |-> NoUser, mailed |-> FALSE, resets |-> 0, raced |-> FALSE]]
    /\ given = [v \in Vouchers |-> NoUser]
    /\ astray = [torn |-> {}, moved |-> {}, contested |-> {}]

-----------------------------------------------------------------------------
(* Requests.                                                               *)

InFlight == {r \in Requests : pc[r] \in Suspended}

Goto(r, label) == pc' = [pc EXCEPT ![r] = label]

\* The request is answered.
Finish(r) ==
    /\ Goto(r, "over")
    /\ loc' = [loc EXCEPT ![r] = NoLocal]

Starts(r, op) ==
    /\ pc[r] = "idle" /\ \A x \in Requests : x < r => pc[x] # "idle"
    /\ op \in Ops
    /\ Cardinality(InFlight) < MaxInFlight

-----------------------------------------------------------------------------
(* One-time passwords.                                                     *)

\* forgetPassword stores a new code over the old one (createOTP) ...
ForgetPassword(r, u) ==
    /\ Starts(r, "password")
    /\ otp' = [otp EXCEPT ![u] = r]
    /\ sent' = [sent EXCEPT ![r].user = u]
    /\ Goto(r, "mail")
    /\ UNCHANGED <<accounts, faces, voucher, loc, astray>>

\* ... and mails it.
MailCode(r) ==
    /\ pc[r] = "mail"
    /\ sent' = [sent EXCEPT ![r].mailed = TRUE]
    /\ Finish(r)
    /\ UNCHANGED <<accounts, otp, faces, voucher, astray>>

\* resetPassword with a code that the user was sent, maybe an old one.
ResetPassword(r, u, code) ==
    /\ Starts(r, "password")
    /\ sent[code].user = u /\ sent[code].mailed
    /\ loc' = [loc EXCEPT ![r] = [@ EXCEPT !.user = u, !.code = code]]
    /\ Goto(r, "compare")
    /\ UNCHANGED <<accounts, otp, faces, voucher, sent, astray>>

\* The requests that have found their code good and not yet deleted it.
Consuming(code) == {x \in Requests : pc[x] = "consume" /\ loc[x].code = code}

\* validateOTP gets the code ...
CompareCode(r) ==
    LET code == loc[r].code IN
    /\ pc[r] = "compare"
    /\ IF otp[loc[r].user] = code
       THEN /\ sent' = [sent EXCEPT ![code].raced = @ \/ Consuming(code) # {}]
            /\ Goto(r, "consume") /\ loc' = loc
       ELSE Finish(r) /\ sent' = sent
    /\ UNCHANGED <<accounts, otp, faces, voucher, astray>>

\* Mutant of Deleted: the code stays.
NotDeleted(u) == otp[u]

\* The key is deleted, whichever code it has by now.
Deleted(u) == 0

\* ... and deletes it, ...
ConsumeCode(r) ==
    /\ pc[r] = "consume"
    /\ otp' = [otp EXCEPT ![loc[r].user] = Deleted(loc[r].user)]
    /\ Goto(r, "reset")
    /\ UNCHANGED <<accounts, faces, voucher, loc, sent, astray>>

\* ... and the new password is stored.
StorePassword(r) ==
    /\ pc[r] = "reset"
    /\ sent' = [sent EXCEPT ![loc[r].code].resets = @ + 1]
    /\ Finish(r)
    /\ UNCHANGED <<accounts, otp, faces, voucher, astray>>

\* A code lives for 300 seconds.
ExpireCode(u) ==
    /\ otp[u] # 0
    /\ otp' = [otp EXCEPT ![u] = 0]
    /\ UNCHANGED <<accounts, faces, voucher, pc, loc, sent, astray>>

-----------------------------------------------------------------------------
(* Telephone numbers.                                                      *)

UserOf(p) == {u \in Users : phone[u] = p}

Registering(u) == {x \in Requests : pc[x] \in {"row", "forget", "learn", "save"} /\ loc[x].user = u}

\* Mutant of Cascade: a column without a foreign key.
NoCascade(old, new) == voucher

\* vouchers_customerPhone_fkey: ON UPDATE CASCADE.
Cascade(old, new) ==
    [v \in Vouchers |-> IF voucher[v].owner = old THEN [voucher[v] EXCEPT !.owner = new]
                        ELSE voucher[v]]

\* The number of u is written; it is unique.
Write(r, u, new) ==
    /\ IF UserOf(new) \subseteq {u}
       THEN /\ phone' = [phone EXCEPT ![u] = new]
            /\ voucher' = Cascade(phone[u], new)
            /\ IF new = phone[u] THEN loc' = [loc EXCEPT ![r] = NoLocal] /\ astray' = astray
               ELSE /\ loc' = [x \in Requests |->
                                  IF x = r THEN NoLocal
                                  ELSE IF x \in Registering(u) THEN [loc[x] EXCEPT !.late = TRUE]
                                  ELSE loc[x]]
                    /\ astray' = [astray EXCEPT !.moved = @ \cup {u}]
       ELSE UNCHANGED <<phone, voucher, astray>> /\ loc' = [loc EXCEPT ![r] = NoLocal]
    /\ Goto(r, "over")
    /\ UNCHANGED <<otp, faces, sent, given>>

ChangeSensitiveInfo(r, u, new) == Starts(r, "phone") /\ Write(r, u, new)

\* updateSecurity reads the user ...
UpdateSecurity(r, u, new) ==
    /\ Starts(r, "security")
    /\ loc' = [loc EXCEPT ![r] = [@ EXCEPT !.user = u, !.phone = new]]
    /\ Goto(r, "account")
    /\ UNCHANGED <<accounts, otp, faces, voucher, sent, astray>>

ReadAccount(r) ==
    /\ pc[r] = "account"
    /\ Goto(r, IF loc[r].phone = phone[loc[r].user] THEN "secure" ELSE "taken")
    /\ UNCHANGED <<accounts, otp, faces, voucher, loc, sent, astray>>

\* ... looks whether a new number is taken ...
CheckPhone(r) ==
    /\ pc[r] = "taken"
    /\ IF UserOf(loc[r].phone) = {} THEN Goto(r, "secure") /\ loc' = loc ELSE Finish(r)
    /\ UNCHANGED <<accounts, otp, faces, voucher, sent, astray>>

\* ... and writes it.
WriteAccount(r) == pc[r] = "secure" /\ Write(r, loc[r].user, loc[r].phone)

-----------------------------------------------------------------------------
(* Faces.                                                                  *)

\* registerFaceID and updateFaceID take the number from the body, unchecked.  The
\* page sends the one it has cached, which need not be the user's any more.
RegisterFace(r, u, p) ==
    /\ Starts(r, "face")
    /\ loc' = [loc EXCEPT ![r] = [@ EXCEPT !.user = u, !.phone = p, !.late = p # phone[u]]]
    /\ astray' = IF Registering(u) = {} THEN astray ELSE [astray EXCEPT !.torn = @ \cup {u}]
    /\ Goto(r, "row")
    /\ UNCHANGED <<accounts, otp, faces, voucher, sent>>

\* Mutant of AfterRow: the old face is left at the provider.
AfterRowLearn(row) == "learn"

AfterRow(row) == IF row = NoRow THEN "learn" ELSE "forget"

FindFace(r) ==
    /\ pc[r] = "row"
    /\ loc' = [loc EXCEPT ![r].old = face[loc[r].user].id]
    /\ Goto(r, AfterRow(face[loc[r].user]))
    /\ UNCHANGED <<accounts, otp, faces, voucher, sent, astray>>

\* The old face is deleted at the provider, ...
DeleteFace(r) ==
    /\ pc[r] = "forget"
    /\ collection' = [collection EXCEPT ![loc[r].user] = {f \in @ : f.id # loc[r].old}]
    /\ Goto(r, "learn")
    /\ UNCHANGED <<accounts, otp, face, voucher, loc, sent, astray>>

\* ... the new one is registered there ...
LearnFace(r) ==
    /\ pc[r] = "learn"
    /\ collection' = [collection EXCEPT ![loc[r].user] =
                                          @ \cup {[id |-> r, phone |-> loc[r].phone]}]
    /\ loc' = [loc EXCEPT ![r].new = TRUE]
    /\ Goto(r, "save")
    /\ UNCHANGED <<accounts, otp, face, voucher, sent, astray>>

\* ... and written to the row.  create throws if there is one by now.
SaveFace(r) ==
    LET u == loc[r].user IN
    /\ pc[r] = "save"
    /\ IF loc[r].old = 0 /\ face[u] # NoRow
       THEN UNCHANGED <<face, astray>>
       ELSE /\ face' = [face EXCEPT ![u] = [id |-> r, phone |-> loc[r].phone]]
            /\ astray' = [astray EXCEPT !.moved = IF loc[r].late THEN @ \cup {u} ELSE @ \ {u}]
    /\ Finish(r)
    /\ UNCHANGED <<accounts, otp, collection, voucher, sent>>

\* loginWithFaceID, for a face that the provider recognises: the number in
\* the row of that face.
LoginWithFaceID(f) == {face[u].phone : u \in {x \in Users : face[x].id = f.id}}

-----------------------------------------------------------------------------
(* Vouchers.                                                               *)

There(v) == voucher[v].state \in {"active", "used"}

\* create makes some, one after the other.
CreateVouchers(r, quantity) ==
    /\ Starts(r, "vouchers")
    /\ loc' = [loc EXCEPT ![r].code = quantity]
    /\ Goto(r, "issue")
    /\ UNCHANGED <<accounts, otp, faces, voucher, sent, astray>>

CreateVoucher(r, v) ==
    /\ pc[r] = "issue"
    /\ voucher[v].state = "absent"
    /\ voucher' = [voucher EXCEPT ![v].state = "active"]
    /\ IF loc[r].code = 1 THEN Finish(r)
       ELSE loc' = [loc EXCEPT ![r].code = @ - 1] /\ pc' = pc
    /\ UNCHANGED <<accounts, otp, faces, sent, astray>>

\* v gets a new owner: update throws if v is gone, or nobody has the number.
Assign(r, v, p) ==
    IF There(v) /\ UserOf(p) # {}
    THEN /\ voucher' = [voucher EXCEPT ![v].owner = p]
         /\ loc' = [x \in Requests |->
                       IF x = r THEN NoLocal
                       ELSE IF loc[x].voucher = v THEN [loc[x] EXCEPT !.late = TRUE] ELSE loc[x]]
         /\ Goto(r, "over")
    ELSE voucher' = voucher /\ Finish(r)

\* exchangeVoucher finds the voucher, whoever has it, ...
ExchangeVoucher(r, v, p) ==
    /\ Starts(r, "exchange")
    /\ There(v)
    /\ loc' = [loc EXCEPT ![r] = [@ EXCEPT !.voucher = v, !.phone = p]]
    /\ Goto(r, "customer")
    /\ UNCHANGED <<accounts, otp, faces, voucher, sent, astray>>

\* ... compares the points of the customer ...
FindCustomer(r) ==
    /\ pc[r] = "customer"
    /\ IF UserOf(loc[r].phone) \cap Rich # {} THEN Goto(r, "assign") /\ loc' = loc ELSE Finish(r)
    /\ UNCHANGED <<accounts, otp, faces, voucher, sent, astray>>

\* ... and makes it his.
AssignVoucher(r) ==
    LET v == loc[r].voucher IN
    /\ pc[r] = "assign"
    /\ Assign(r, v, loc[r].phone)
    /\ given' = IF voucher' = voucher THEN given
                ELSE [given EXCEPT ![v] = CHOOSE u \in UserOf(loc[r].phone) : TRUE]
    /\ UNCHANGED <<phone, otp, faces, sent, astray>>

\* Mutant of IsFree: whoever it belongs to.
IsActive(v) == voucher[v].state = "active"

IsFree(v) == voucher[v].state = "active" /\ voucher[v].owner = NoPhone

\* exchangeVoucherByGroup opens a transaction ...
ExchangeByGroup(r, p) ==
    /\ Starts(r, "group")
    /\ loc' = [loc EXCEPT ![r].phone = p]
    /\ Goto(r, "first")
    /\ UNCHANGED <<accounts, otp, faces, voucher, sent, astray>>

\* ... finds a voucher of the group that is free ...
FindFree(r) ==
    /\ pc[r] = "first"
    /\ IF \E v \in Vouchers : IsFree(v)
       THEN /\ \E v \in Vouchers : IsFree(v) /\ loc' = [loc EXCEPT ![r].voucher = v]
            /\ Goto(r, "grant")
       ELSE Finish(r)
    /\ UNCHANGED <<accounts, otp, faces, voucher, sent, astray>>

\* ... and gives it away.
GrantVoucher(r) ==
    LET v == loc[r].voucher IN
    /\ pc[r] = "grant"
    /\ Assign(r, v, loc[r].phone)
    /\ IF There(v) /\ UserOf(loc[r].phone) # {}
       THEN /\ given' = IF given[v] # NoUser THEN given
                        ELSE [given EXCEPT ![v] = CHOOSE u \in UserOf(loc[r].phone) : TRUE]
            /\ astray' = IF loc[r].late THEN [astray EXCEPT !.contested = @ \cup {v}] ELSE astray
       ELSE UNCHANGED <<given, astray>>
    /\ UNCHANGED <<phone, otp, faces, sent>>

\* An order uses up the voucher.
UseVoucher(v) ==
    /\ voucher[v].state = "active"
    /\ voucher' = [voucher EXCEPT ![v].state = "used"]
    /\ UNCHANGED <<accounts, otp, faces, pc, loc, sent, astray>>

\* remove and removeByGroup.
RemoveVouchers(r, gone) ==
    /\ Starts(r, "vouchers")
    /\ voucher' = [v \in Vouchers |-> IF v \in gone /\ There(v)
                                      THEN [state |-> "deleted", owner |-> NoPhone] ELSE voucher[v]]
    /\ Finish(r)
    /\ UNCHANGED <<accounts, otp, faces, sent, astray>>

-----------------------------------------------------------------------------

\* The await that r is suspended on rejects.
Abort(r) ==
    /\ MayFail
    /\ pc[r] \in Suspended
    /\ astray' = IF pc[r] \in {"learn", "save"} /\ (loc[r].old # 0 \/ loc[r].new)
                 THEN [astray EXCEPT !.torn = @ \cup {loc[r].user}] ELSE astray
    /\ Finish(r)
    /\ UNCHANGED <<accounts, otp, faces, voucher, sent>>

Continue(r) ==
    \/ MailCode(r) \/ CompareCode(r) \/ ConsumeCode(r) \/ StorePassword(r)
    \/ ReadAccount(r) \/ CheckPhone(r) \/ WriteAccount(r)
    \/ FindFace(r) \/ DeleteFace(r) \/ LearnFace(r) \/ SaveFace(r)
    \/ FindCustomer(r) \/ AssignVoucher(r) \/ FindFree(r) \/ GrantVoucher(r)
    \/ \E v \in Vouchers : CreateVoucher(r, v)

Call(r) ==
    \/ \E u \in Users :
         \/ ForgetPassword(r, u)
         \/ \E code \in Requests : ResetPassword(r, u, code)
         \/ \E p \in Phones :
              RegisterFace(r, u, p) \/ ChangeSensitiveInfo(r, u, p) \/ UpdateSecurity(r, u, p)
    \/ \E p \in Phones : ExchangeByGroup(r, p) \/ \E v \in Vouchers : ExchangeVoucher(r, v, p)
    \/ \E quantity \in 1..Cardinality(Vouchers) : CreateVouchers(r, quantity)
    \/ \E gone \in SUBSET Vouchers : RemoveVouchers(r, gone)

Next ==
    \/ \E r \in Requests : Call(r) \/ Continue(r) \/ Abort(r)
    \/ \E u \in Users : ExpireCode(u)
    \/ \E v \in Vouchers : UseVoucher(v)

Spec == Init /\ [][Next]_vars

-----------------------------------------------------------------------------
(* Properties.                                                             *)

\* The codes that were made for u.
CodesOf(u) == {c \in Requests : sent[c].user = u}

\* The code in Redis is the last one that was made for its user, and has not
\* set a password yet; a code sets one password, unless two requests read it
\* before either deleted it (createOTP, validateOTP, resetPassword).
CodeIsGoodOnce ==
    /\ \A u \in Users : otp[u] # 0 => /\ otp[u] \in CodesOf(u) /\ sent[otp[u]].resets = 0
                                      /\ \A c \in CodesOf(u) : c <= otp[u]
    /\ \A c \in Requests : sent[c].resets > 1 => sent[c].raced

\* Unless a registration of a user failed half way or overlapped another, or
\* is just being made, the provider knows exactly the face of his row, under the
\* number of his row; so a login by his face gives the number that came with the
\* registration.  That is his own number if it was when the registration began
\* and he has not changed it since (registerFaceID, loginWithFaceID,
\* updateSecurity, changeSensitiveInfo).
FaceFindsOwner ==
    \A u \in Users \ astray.torn : Registering(u) = {} =>
        /\ collection[u] = {face[u]} \ {NoRow}
        /\ \A f \in collection[u] :
             /\ LoginWithFaceID(f) = {f.phone}
             /\ u \notin astray.moved => f.phone = phone[u]

\* A voucher that a customer got stays his, whatever his number, until it is
\* removed or exchanged by its own number: the group never gives it to another
\* one, unless two requests found it free (exchangeVoucher,
\* exchangeVoucherByGroup).
VoucherKeepsOwner ==
    \A v \in Vouchers \ astray.contested :
        There(v) /\ given[v] # NoUser => voucher[v].owner = phone[given[v]]
=============================================================================
