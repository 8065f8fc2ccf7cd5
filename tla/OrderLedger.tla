----------------------------- MODULE OrderLedger -----------------------------
(***************************************************************************)
(* What the order component promises, whatever overlaps and whatever       *)
(* fails.  The counter takes up a payment for a pending order only; the    *)
(* gateway's money is also taken for an order that staff have closed       *)
(* (canceled, refunded or shipping), never for one that is settled or      *)
(* gone.  Money is receipted once, for the order that it was taken up for; *)
(* a ticket settles one order, the one of its receipt if it has one, and   *)
(* earns points for it at most once.  A price is lowered once per ticket,  *)
(* by a voucher that the ticket has found unused, and only a voucher that  *)
(* has lowered a price is used up.                                         *)
(*                                                                         *)
(* Not promised: that the order is still as it was when the payment was    *)
(* taken up, nor that a voucher lowers the price of one ticket only.       *)
(***************************************************************************)
CONSTANTS Orders, Vouchers, Counter, Gateway, NoOrder, NoVoucher

VARIABLES
    state,      \* "absent", "pending", "closed", "settled" or "gone"
    admitted,   \* the order that each ticket has taken up a payment for
    receipt,    \* the order that each ticket has taken money for
    checked,    \* the voucher that each ticket has just found unused
    quoted,     \* the voucher that each ticket has lowered a price by
    spent,      \* vouchers that are used up
    settler,    \* the order that each ticket has settled
    credited    \* tickets whose settlement has earned points

vars == <<state, admitted, receipt, checked, quoted, spent, settler, credited>>

Tickets == Counter \cup Gateway

Living == {"pending", "closed", "settled"}

Init ==
    /\ state = [o \in Orders |-> "absent"]
    /\ admitted = [t \in Tickets |-> NoOrder]
    /\ receipt = [t \in Tickets |-> NoOrder]
    /\ checked = [t \in Tickets |-> NoVoucher]
    /\ quoted = [t \in Tickets |-> NoVoucher]
    /\ spent = {}
    /\ settler = [t \in Tickets |-> NoOrder]
    /\ credited = {}

Move(o, from, to) ==
    /\ state[o] \in from
    /\ state' = [state EXCEPT ![o] = to]

Open(o) ==
    /\ Move(o, {"absent"}, "pending")
    /\ UNCHANGED <<admitted, receipt, checked, quoted, spent, settler, credited>>

Delete(o) ==
    /\ Move(o, Living, "gone")
    /\ UNCHANGED <<admitted, receipt, checked, quoted, spent, settler, credited>>

\* Staff reopen or close any order.
Unsettle(o, to) ==
    /\ to \in {"pending", "closed"}
    /\ Move(o, Living, to)
    /\ UNCHANGED <<admitted, receipt, checked, quoted, spent, settler, credited>>

Admit(t, o) ==
    /\ \/ t \in Counter /\ state[o] = "pending"
       \/ t \in Gateway /\ state[o] \in {"pending", "closed"}
    /\ admitted[t] = NoOrder
    /\ admitted' = [admitted EXCEPT ![t] = o]
    /\ UNCHANGED <<state, receipt, checked, quoted, spent, settler, credited>>

Check(t, v) ==
    /\ v \notin spent
    /\ checked[t] = NoVoucher
    /\ checked' = [checked EXCEPT ![t] = v]
    /\ UNCHANGED <<state, admitted, receipt, quoted, spent, settler, credited>>

Forget(t) ==
    /\ checked' = [checked EXCEPT ![t] = NoVoucher]
    /\ UNCHANGED <<state, admitted, receipt, quoted, spent, settler, credited>>

Quote(t) ==
    /\ checked[t] \in Vouchers
    /\ quoted[t] = NoVoucher
    /\ quoted' = [quoted EXCEPT ![t] = checked[t]]
    /\ checked' = [checked EXCEPT ![t] = NoVoucher]
    /\ UNCHANGED <<state, admitted, receipt, spent, settler, credited>>

Spend(t) ==
    /\ quoted[t] \in Vouchers
    /\ spent' = spent \cup {quoted[t]}
    /\ UNCHANGED <<state, admitted, receipt, checked, quoted, settler, credited>>

Receive(t, o) ==
    /\ admitted[t] = o
    /\ receipt[t] = NoOrder
    /\ receipt' = [receipt EXCEPT ![t] = o]
    /\ UNCHANGED <<state, admitted, checked, quoted, spent, settler, credited>>

Settle(t, o) ==
    /\ Move(o, Living, "settled")
    /\ settler[t] = NoOrder
    /\ admitted[t] = receipt[t]
    /\ receipt[t] \in {o, NoOrder}
    /\ settler' = [settler EXCEPT ![t] = o]
    /\ UNCHANGED <<admitted, receipt, checked, quoted, spent, credited>>

Credit(t) ==
    /\ settler[t] # NoOrder
    /\ t \notin credited
    /\ credited' = credited \cup {t}
    /\ UNCHANGED <<state, admitted, receipt, checked, quoted, spent, settler>>

Next ==
    \/ \E o \in Orders : Open(o) \/ Delete(o) \/ \E to \in {"pending", "closed"} : Unsettle(o, to)
    \/ \E t \in Tickets, v \in Vouchers : Check(t, v)
    \/ \E t \in Tickets, o \in Orders : Admit(t, o) \/ Receive(t, o) \/ Settle(t, o)
    \/ \E t \in Tickets : Forget(t) \/ Quote(t) \/ Spend(t) \/ Credit(t)

Spec == Init /\ [][Next]_vars
=============================================================================
