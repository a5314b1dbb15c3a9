----------------------------- MODULE InvoiceRow -----------------------------
(***************************************************************************)
(* One row of the invoices table and what each handler computes from the  *)
(* copy of the row its session has loaded.  A handler writes absolute     *)
(* column values, never increments: every operator below maps the loaded  *)
(* copy to the copy the session flushes.  Amounts are whole units of      *)
(* money; the columns kept are the ones the money handlers read or write. *)
(***************************************************************************)
EXTENDS Integers

CONSTANTS
    Intents,    \* Stripe PaymentIntents that may be created
    NoIntent    \* stands for a NULL stripe_payment_intent_id

Status == {"draft", "issued", "partially_paid", "overdue", "paid", "voided",
           "refunded", "partially_refunded"}

\* "none": no row yet; "deleted": a tombstone that keeps the number, so that
\* numbering can be stated over every number ever handed out.
RowStatus == Status \cup {"none", "deleted"}

Row == [status : RowStatus, number : Nat, total : Nat, paid : Int, due : Int,
        pi : Intents \cup {NoIntent}]

BlankRow == [status |-> "none", number |-> 0, total |-> 0, paid |-> 0,
             due |-> 0, pi |-> NoIntent]

NewRow(status, number, total, k) ==
    [status |-> status, number |-> number, total |-> total, paid |-> 0,
     due |-> total, pi |-> k]

Exists(r) == r.status \notin {"none", "deleted"}

-----------------------------------------------------------------------------
(* Which statuses admit which handler *)

TransitionsWithoutTerminalVoid ==
    [s \in Status |->
        CASE s = "draft"          -> {"issued", "voided"}
          [] s = "issued"         -> {"partially_paid", "paid", "overdue", "voided"}
          [] s = "partially_paid" -> {"partially_paid", "paid", "overdue", "voided"}
          [] s = "overdue"        -> {"partially_paid", "paid", "voided"}
          [] s = "paid"           -> {"voided"}
          [] s = "voided"         -> {"issued"}
          [] OTHER                -> {}]

VALID_TRANSITIONS ==
    [s \in Status |->
        CASE s = "draft"          -> {"issued", "voided"}
          [] s = "issued"         -> {"partially_paid", "paid", "overdue", "voided"}
          [] s = "partially_paid" -> {"partially_paid", "paid", "overdue", "voided"}
          [] s = "overdue"        -> {"partially_paid", "paid", "voided"}
          [] s = "paid"           -> {"voided"}
          [] OTHER                -> {}]

ValidTransition(r, target) ==
    r.status \in Status /\ target \in VALID_TRANSITIONS[r.status]

Payable(r)    == r.status \in {"issued", "partially_paid", "overdue"}
Refundable(r) == r.status \in {"paid", "partially_paid", "overdue", "refunded",
                               "partially_refunded"}

Creditable(r) == r.status \in {"issued", "partially_paid", "paid", "overdue"}

-----------------------------------------------------------------------------
(* What a handler leaves in its copy of the row *)

\* Only the columns that differ from the loaded copy are in the UPDATE.
Column(current, loaded, new) == IF new # loaded THEN new ELSE current

Written(current, loaded, new) ==
    [status |-> Column(current.status, loaded.status, new.status),
     number |-> Column(current.number, loaded.number, new.number),
     total  |-> Column(current.total, loaded.total, new.total),
     paid   |-> Column(current.paid, loaded.paid, new.paid),
     due    |-> Column(current.due, loaded.due, new.due),
     pi     |-> Column(current.pi, loaded.pi, new.pi)]

Lesser(a, b) == IF a < b THEN a ELSE b
AtLeastZero(a) == IF a < 0 THEN 0 ELSE a

\* A payment of the given amount: the tail that record_cash_payment and
\* handle_stripe_webhook share.
SettledNeverPartial(r, amount) ==
    [r EXCEPT !.paid = @ + amount, !.due = @ - amount, !.status = "paid"]

Settled(r, amount) ==
    [r EXCEPT !.paid = @ + amount,
              !.due = @ - amount,
              !.status = IF r.due = amount THEN "paid" ELSE "partially_paid"]

\* The webhook caps the payment at the balance and clears the PaymentIntent.
Captured(r, amount) == [Settled(r, Lesser(amount, r.due)) EXCEPT !.pi = NoIntent]

\* A refund lowers amount_paid and leaves balance_due alone.
RefundedReopeningBalance(r, amount) ==
    [r EXCEPT !.paid = @ - amount, !.due = @ + amount,
              !.status = IF r.paid - amount <= 0 THEN "refunded"
                         ELSE "partially_refunded"]

Refunded(r, amount) ==
    [r EXCEPT !.paid = AtLeastZero(@ - amount),
              !.status = IF r.paid - amount <= 0 THEN "refunded"
                         ELSE IF r.paid - amount < r.total THEN "partially_refunded"
                         ELSE "paid"]

CreditedUnclamped(r, amount) ==
    [r EXCEPT !.due = @ - amount,
              !.status = IF r.due - amount = 0 THEN "paid"
                         ELSE IF r.paid > 0 THEN "partially_paid" ELSE @]

Credited(r, amount) ==
    LET left == AtLeastZero(r.due - amount)
    IN  [r EXCEPT !.due = left,
                  !.status = IF left = 0 THEN "paid"
                             ELSE IF r.paid > 0 THEN "partially_paid" ELSE @]

Issued(r, number, k) ==
    [r EXCEPT !.status = "issued", !.number = number,
              !.pi = IF k = NoIntent THEN @ ELSE k]

Recalculated(r, total) == [r EXCEPT !.total = total, !.due = total - r.paid]
=============================================================================
