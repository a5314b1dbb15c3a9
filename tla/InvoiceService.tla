--------------------------- MODULE InvoiceService ---------------------------
(***************************************************************************)
(* The handlers that issue, edit, pay, refund, credit, void and delete an *)
(* invoice, as overlapping database transactions.                          *)
(*                                                                         *)
(* A request occupies a slot and goes through the phases of its session:   *)
(*   "read"    the row is loaded, without a lock, and validated;           *)
(*   "called"  Stripe has answered the call the handler makes;             *)
(*   "held"    the handler's UPDATE (or its SELECT ... FOR UPDATE) holds   *)
(*             the row lock; what it wrote is visible only to itself;      *)
(* and then commits, or is aborted at any phase (crash, disconnect,        *)
(* database error), which releases the lock and loses the writes.          *)
(* PostgreSQL runs at READ COMMITTED: a plain SELECT never waits and sees  *)
(* the committed row.                                                      *)
(***************************************************************************)
EXTENDS InvoiceRow, FiniteSets

CONSTANTS
    Invoices,       \* invoice ids of one organisation
    NoInvoice,
    Slots,          \* sessions that may be in flight at once
    NoSlot,
    Ops,            \* the kinds of request this instance receives
    MaxTotal,       \* bound: largest invoice total
    MaxRequests     \* bound: requests of staff and customers in a behaviour

AllOps == {"create", "issue", "edit", "cash", "webhook", "confirm", "cash_refund",
           "stripe_refund", "credit", "void", "overdue", "link", "qr_link",
           "delete", "defer"}

ASSUME ConstantsAssumption ==
    /\ NoInvoice \notin Invoices
    /\ NoIntent \notin Intents
    /\ NoSlot \notin Slots
    /\ MaxTotal \in Nat
    /\ MaxRequests \in Nat

VARIABLES
    row,        \* the committed invoices rows
    books,      \* per invoice: sums over its committed payments, refunds, credit notes
    intent,     \* PaymentIntents: Stripe's side, and what payments records of them
    lastNumber, \* invoice_sequences.last_number, 0 when the row does not exist
    pastDue,    \* invoices whose due_date lies before today
    lock,       \* the slot that holds the row lock of an invoice
    req,        \* the request in each slot
    begun       \* requests begun so far (bounded by MaxRequests)

vars == <<row, books, intent, lastNumber, pastDue, lock, req, begun>>
tables == <<row, books, intent, lastNumber, pastDue>>

Phase == {"idle", "read", "called", "held"}

Request == [op : AllOps \cup {"none"}, inv : Invoices \cup {NoInvoice}, amt : Nat,
            k : Intents \cup {NoIntent}, snap : Row, phase : Phase]

Idle == [op |-> "none", inv |-> NoInvoice, amt |-> 0, k |-> NoIntent,
         snap |-> BlankRow, phase |-> "idle"]

Books == [gross : Nat, refunded : Nat, credited : Nat]
NoBooks == [gross |-> 0, refunded |-> 0, credited |-> 0]

Intent == [inv : Invoices \cup {NoInvoice}, amount : Nat,
           st : {"none", "open", "succeeded", "canceled"},
           captures : Nat,      \* payments rows that record this intent
           sentBack : Nat,      \* refunded by Stripe
           recordedBack : Nat,  \* refunded according to payments rows
           told : BOOLEAN]      \* its event was answered with 200: no more retries

NoIntentYet == [inv |-> NoInvoice, amount |-> 0, st |-> "none", captures |-> 0,
                sentBack |-> 0, recordedBack |-> 0, told |-> FALSE]

Init ==
    /\ row = [i \in Invoices |-> BlankRow]
    /\ books = [i \in Invoices |-> NoBooks]
    /\ intent = [k \in Intents |-> NoIntentYet]
    /\ lastNumber = 0
    /\ pastDue = {}
    /\ lock = [i \in Invoices |-> NoSlot]
    /\ req = [s \in Slots |-> Idle]
    /\ begun = 0

-----------------------------------------------------------------------------
(* Sessions *)

Budget == begun < MaxRequests /\ begun' = begun + 1

\* Loads the row into slot s, without a lock, for a request that was admitted.
Load(s, op, i, amount, k) ==
    /\ op \in Ops
    /\ req[s] = Idle
    /\ req' = [req EXCEPT ![s] = [op |-> op, inv |-> i, amt |-> amount, k |-> k,
                                  snap |-> row[i], phase |-> "read"]]
    /\ UNCHANGED <<tables, lock>>

\* Nobody waits for the lock of the row.
LockIgnored(i) == TRUE

RowUnlocked(i) == lock[i] = NoSlot

\* A request that calls Stripe after loading the row and before flushing.
CallsStripe(op) == op \in {"stripe_refund", "qr_link", "confirm"}

\* The first write of the session: it waits for the lock of the row.
Flush(s) ==
    LET r == req[s] IN
    /\ r.phase = IF CallsStripe(r.op) THEN "called" ELSE "read"
    /\ r.op # "confirm"
    /\ RowUnlocked(r.inv)
    /\ Exists(row[r.inv])
    /\ lock' = [lock EXCEPT ![r.inv] = s]
    /\ req' = [req EXCEPT ![s].phase = "held"]
    /\ UNCHANGED <<tables, begun>>

\* Commits the session's copy of the row and frees the slot.
Commit(s, op, new) ==
    LET r == req[s] IN
    /\ r.phase = "held"
    /\ r.op = op
    /\ row' = [row EXCEPT ![r.inv] = Written(@, r.snap, new)]
    /\ lock' = [lock EXCEPT ![r.inv] = NoSlot]
    /\ req' = [req EXCEPT ![s] = Idle]
    /\ UNCHANGED begun

\* The session ends without committing.
Abort(s) ==
    /\ req[s] # Idle
    /\ req' = [req EXCEPT ![s] = Idle]
    /\ lock' = IF req[s].phase = "held"
               THEN [lock EXCEPT ![req[s].inv] = NoSlot] ELSE lock
    /\ UNCHANGED <<tables, begun>>

-----------------------------------------------------------------------------
(* Creating, editing, issuing *)

FreshIntents == {k \in Intents : intent[k].st = "none"}

\* A handler that may store a PaymentIntent k for the amount, or none.
Opened(k, i, amount) ==
    intent' = IF k = NoIntent THEN intent
              ELSE [intent EXCEPT ![k] = [NoIntentYet EXCEPT !.inv = i,
                                              !.amount = amount, !.st = "open"]]

MaybeIntent(amount) == {NoIntent} \cup IF amount > 0 THEN FreshIntents ELSE {}

\* The sequence row is locked from its SELECT ... FOR UPDATE to the commit, so
\* reading it and writing it back are one step.
NextNumberByCounting ==
    Cardinality({i \in Invoices : Exists(row[i]) /\ row[i].number # 0}) + 1

NextNumber == lastNumber + 1

\* create_invoice inserts its row with one commit; nothing can overlap with it
\* but the numbering.
CreateDraft(i, total) ==
    /\ "create" \in Ops
    /\ Budget
    /\ row[i].status = "none"
    /\ row' = [row EXCEPT ![i] = NewRow("draft", 0, total, NoIntent)]
    /\ UNCHANGED <<books, intent, lastNumber, pastDue, lock, req>>

CreateIssued(i, total, k) ==
    /\ "create" \in Ops
    /\ Budget
    /\ row[i].status = "none"
    /\ k \in MaybeIntent(total)
    /\ row' = [row EXCEPT ![i] = NewRow("issued", NextNumber, total, k)]
    /\ lastNumber' = NextNumber
    /\ Opened(k, i, total)
    /\ UNCHANGED <<books, pastDue, lock, req>>

StartEditWhileOpen(s, i, total) ==
    /\ Budget
    /\ row[i].status \in {"draft", "issued", "overdue"}
    /\ Load(s, "edit", i, total, NoIntent)

StartEdit(s, i, total) ==
    /\ Budget
    /\ row[i].status = "draft"
    /\ Load(s, "edit", i, total, NoIntent)

CommitEdit(s) ==
    /\ Commit(s, "edit", Recalculated(req[s].snap, req[s].amt))
    /\ UNCHANGED <<books, intent, lastNumber, pastDue>>

StartIssueTwice(s, i) ==
    /\ Budget
    /\ row[i].status \in {"draft", "issued"}
    /\ Load(s, "issue", i, 0, NoIntent)

StartIssue(s, i) ==
    /\ Budget
    /\ ValidTransition(row[i], "issued")
    /\ Load(s, "issue", i, 0, NoIntent)

\* The row is refreshed after the flush: the intent is for the balance under the lock.
CommitIssue(s, k) ==
    LET r == req[s] IN
    /\ Commit(s, "issue", Issued(r.snap, NextNumber, k))
    /\ k \in MaybeIntent(row[r.inv].due)
    /\ lastNumber' = NextNumber
    /\ Opened(k, r.inv, row[r.inv].due)
    /\ UNCHANGED <<books, pastDue>>

-----------------------------------------------------------------------------
(* Money in *)

StartCash(s, i, amount) ==
    /\ Budget
    /\ Payable(row[i])
    /\ amount \in 1..row[i].due
    /\ Load(s, "cash", i, amount, NoIntent)

CommitCash(s) ==
    LET r == req[s] IN
    /\ Commit(s, "cash", Settled(r.snap, r.amt))
    /\ books' = [books EXCEPT ![r.inv].gross = @ + r.amt]
    /\ UNCHANGED <<intent, lastNumber, pastDue>>

\* Stripe: the customer completes an intent whose client secret was shown.
CustomerPays(k) ==
    /\ intent[k].st = "open"
    /\ intent' = [intent EXCEPT ![k].st = "succeeded"]
    /\ UNCHANGED <<row, books, lastNumber, pastDue, lock, req, begun>>

\* The dedupe query finds no payment of this intent.
NotCapturedUnchecked(k) == TRUE
NoPaymentYet(k) == row[intent[k].inv].paid = 0

NotCaptured(k) == intent[k].captures = 0

\* The handler goes on to record the payment.
Recordable(k) ==
    LET r == row[intent[k].inv] IN
    Payable(r) /\ NotCaptured(k) /\ Lesser(intent[k].amount, r.due) > 0

\* Session s has recorded the payment of intent k and has not committed.
Recording(s, k) == req[s].op = "webhook" /\ req[s].k = k /\ req[s].phase = "held"

\* Stripe delivers the event of a succeeded intent, any number of times; both
\* webhook endpoints run this handler.  The SELECT ... FOR UPDATE loads the row.
DeliverWebhook(s, k) ==
    LET i == intent[k].inv IN
    /\ "webhook" \in Ops
    /\ req[s] = Idle
    /\ intent[k].st = "succeeded"
    /\ RowUnlocked(i)
    /\ Recordable(k)
    /\ lock' = [lock EXCEPT ![i] = s]
    /\ req' = [req EXCEPT ![s] = [op |-> "webhook", inv |-> i, amt |-> intent[k].amount,
                                  k |-> k, snap |-> row[i], phase |-> "held"]]
    /\ UNCHANGED <<tables, begun>>

\* The endpoint answers 200, and Stripe stops delivering on its own: for every early
\* return of the handler as for a payment it has recorded.  get_db_session commits
\* when the dependency is closed, which may be after the answer has been sent.
AnswerEvent(k) ==
    /\ "webhook" \in Ops
    /\ intent[k].st = "succeeded"
    /\ \/ RowUnlocked(intent[k].inv) /\ ~Recordable(k)
       \/ \E s \in Slots : Recording(s, k)
    /\ intent' = [intent EXCEPT ![k].told = TRUE]
    /\ UNCHANGED <<row, books, lastNumber, pastDue, lock, req, begun>>

\* The payment page asks for its payment to be confirmed: the row is loaded ...
StartConfirm(s, i) ==
    /\ Budget
    /\ Payable(row[i])
    /\ row[i].pi # NoIntent
    /\ Load(s, "confirm", i, intent[row[i].pi].amount, row[i].pi)

\* ... Stripe says that the intent has succeeded ...
StripeConfirms(s) ==
    LET r == req[s] IN
    /\ r.op = "confirm"
    /\ r.phase = "read"
    /\ intent[r.k].st = "succeeded"
    /\ req' = [req EXCEPT ![s].phase = "called"]
    /\ UNCHANGED <<tables, lock, begun>>

\* ... and the webhook handler runs in the same session: the row is locked, but
\* the copy the session loaded before the call is not refreshed.  The dedupe
\* query is a new statement and sees what has been committed.
LockConfirm(s) ==
    LET r == req[s] IN
    /\ r.op = "confirm"
    /\ r.phase = "called"
    /\ RowUnlocked(r.inv)
    /\ Exists(row[r.inv])
    /\ NotCaptured(r.k)
    /\ Lesser(r.amt, r.snap.due) > 0
    /\ lock' = [lock EXCEPT ![r.inv] = s]
    /\ req' = [req EXCEPT ![s].phase = "held"]
    /\ UNCHANGED <<tables, begun>>

CommitCapture(s, op) ==
    LET r == req[s] IN
    /\ op \in {"webhook", "confirm"}
    /\ Commit(s, op, Captured(r.snap, r.amt))
    /\ books' = [books EXCEPT ![r.inv].gross = @ + Lesser(r.amt, r.snap.due)]
    /\ intent' = [intent EXCEPT ![r.k].captures = @ + 1]
    /\ UNCHANGED <<lastNumber, pastDue>>

-----------------------------------------------------------------------------
(* Money out *)

StartRefund(s, i, amount, op) ==
    /\ op \in {"cash_refund", "stripe_refund"}
    /\ Budget
    /\ Refundable(row[i])
    /\ amount \in 1..row[i].paid
    /\ Load(s, op, i, amount, NoIntent)

CapturedIntents(i) == {k \in Intents : intent[k].inv = i /\ intent[k].captures > 0}

\* The original payment is looked up with scalar_one_or_none, which raises when
\* the invoice has several; Stripe refuses to send back more than it took.
StripeRefundUnchecked(s, k) ==
    LET r == req[s] IN
    /\ r.op = "stripe_refund"
    /\ r.phase = "read"
    /\ CapturedIntents(r.inv) = {k}
    /\ req' = [req EXCEPT ![s].phase = "called", ![s].k = k]
    /\ UNCHANGED <<tables, lock, begun>>

StripeRefunds(s, k) ==
    LET r == req[s] IN
    /\ r.op = "stripe_refund"
    /\ r.phase = "read"
    /\ CapturedIntents(r.inv) = {k}
    /\ intent[k].captures = 1
    /\ intent[k].sentBack + r.amt <= intent[k].amount
    /\ intent' = [intent EXCEPT ![k].sentBack = @ + r.amt]
    /\ req' = [req EXCEPT ![s].phase = "called", ![s].k = k]
    /\ UNCHANGED <<row, books, lastNumber, pastDue, lock, begun>>

CommitRefund(s, op) ==
    LET r == req[s] IN
    /\ op \in {"cash_refund", "stripe_refund"}
    /\ Commit(s, op, Refunded(r.snap, r.amt))
    /\ books' = [books EXCEPT ![r.inv].refunded = @ + r.amt]
    /\ intent' = IF op = "stripe_refund"
                 THEN [intent EXCEPT ![r.k].recordedBack = @ + r.amt] ELSE intent
    /\ UNCHANGED <<lastNumber, pastDue>>

\* Credit notes already given are summed when the request is validated.
WithinInvoice(i, amount) == amount <= row[i].total
WithinRemainder(i, amount) == amount <= row[i].total - books[i].credited

StartCredit(s, i, amount) ==
    /\ Budget
    /\ Creditable(row[i])
    /\ amount > 0
    /\ WithinRemainder(i, amount)
    /\ Load(s, "credit", i, amount, NoIntent)

CommitCredit(s) ==
    LET r == req[s] IN
    /\ Commit(s, "credit", Credited(r.snap, r.amt))
    /\ books' = [books EXCEPT ![r.inv].credited = @ + r.amt]
    /\ UNCHANGED <<intent, lastNumber, pastDue>>

-----------------------------------------------------------------------------
(* Payment links *)

\* The payment-link endpoint opens an intent for the whole balance; the QR
\* endpoint for the amount asked for, and it first cancels the stored intent.
StartLink(s, i, amount, op) ==
    /\ \/ op = "link" /\ amount = row[i].due
       \/ op = "qr_link" /\ amount \in 1..row[i].due
    /\ Budget
    /\ Payable(row[i])
    /\ row[i].due > 0
    /\ Load(s, op, i, amount, NoIntent)

\* Best effort: an intent in a terminal state, or a Stripe failure, is ignored.
CancelOldIntent(s, cancelled) ==
    LET r == req[s] IN
    /\ r.op = "qr_link"
    /\ r.phase = "read"
    /\ intent' = IF cancelled /\ r.snap.pi # NoIntent /\ intent[r.snap.pi].st = "open"
                 THEN [intent EXCEPT ![r.snap.pi].st = "canceled"] ELSE intent
    /\ req' = [req EXCEPT ![s].phase = "called"]
    /\ UNCHANGED <<row, books, lastNumber, pastDue, lock, begun>>

CommitLink(s, op, k) ==
    LET r == req[s] IN
    /\ op \in {"link", "qr_link"}
    /\ k \in FreshIntents
    /\ Commit(s, op, [r.snap EXCEPT !.pi = k])
    /\ Opened(k, r.inv, r.amt)
    /\ UNCHANGED <<books, lastNumber, pastDue>>

-----------------------------------------------------------------------------
(* Voiding, deleting, the due date *)

StartVoid(s, i) ==
    /\ Budget
    /\ ValidTransition(row[i], "voided")
    /\ Load(s, "void", i, 0, NoIntent)

CommitVoidMisspelt(s) ==
    /\ Commit(s, "void", [req[s].snap EXCEPT !.status = "void"])
    /\ UNCHANGED <<books, intent, lastNumber, pastDue>>

CommitVoid(s) ==
    /\ Commit(s, "void", [req[s].snap EXCEPT !.status = "voided"])
    /\ UNCHANGED <<books, intent, lastNumber, pastDue>>

\* The nightly task; each invoice of its batch is a request of its own.
OnlyIssuedBecomesOverdue(i) ==
    i \in pastDue /\ row[i].status = "issued" /\ row[i].due > 0

OverdueUnlessVoided(i) ==
    i \in pastDue /\ row[i].status \in {"issued", "partially_paid", "paid"}

BecomesOverdue(i) ==
    /\ i \in pastDue
    /\ row[i].status \in {"issued", "partially_paid"}
    /\ row[i].due > 0

StartOverdue(s, i) ==
    /\ BecomesOverdue(i)
    /\ Load(s, "overdue", i, 0, NoIntent)
    /\ UNCHANGED begun

CommitOverdue(s) ==
    /\ Commit(s, "overdue", [req[s].snap EXCEPT !.status = "overdue"])
    /\ UNCHANGED <<books, intent, lastNumber, pastDue>>

\* bulk_delete_invoices deletes an invoice of any status; payments and credit
\* notes go with it.
BulkDelete(i) ==
    /\ "delete" \in Ops
    /\ Budget
    /\ Exists(row[i])
    /\ RowUnlocked(i)
    /\ row' = [row EXCEPT ![i] = [BlankRow EXCEPT !.status = "deleted",
                                                  !.number = row[i].number]]
    /\ books' = [books EXCEPT ![i] = NoBooks]
    /\ intent' = [k \in Intents |-> IF intent[k].inv = i
                                    THEN [intent[k] EXCEPT !.captures = 0,
                                                           !.recordedBack = 0]
                                    ELSE intent[k]]
    /\ pastDue' = pastDue \ {i}
    /\ UNCHANGED <<lastNumber, lock, req>>

DueDatePasses(i) ==
    /\ Exists(row[i])
    /\ i \notin pastDue
    /\ pastDue' = pastDue \cup {i}
    /\ UNCHANGED <<row, books, intent, lastNumber, lock, req, begun>>

\* A limited edit moves due_date and leaves the status alone.
DeferDueDate(i) ==
    /\ "defer" \in Ops
    /\ Budget
    /\ row[i].status = "draft" \/ Payable(row[i])
    /\ pastDue' = pastDue \ {i}
    /\ UNCHANGED <<row, books, intent, lastNumber, lock, req>>

-----------------------------------------------------------------------------
Amounts == 0..MaxTotal

Start(s, i) ==
    \/ \E amount \in Amounts :
        \/ StartEdit(s, i, amount)
        \/ StartCash(s, i, amount)
        \/ StartCredit(s, i, amount)
        \/ \E op \in {"cash_refund", "stripe_refund"} : StartRefund(s, i, amount, op)
        \/ \E op \in {"link", "qr_link"} : StartLink(s, i, amount, op)
    \/ StartIssue(s, i)
    \/ StartConfirm(s, i)
    \/ StartVoid(s, i)
    \/ StartOverdue(s, i)

StripeAnswers(s) ==
    \/ StripeConfirms(s)
    \/ \E k \in Intents : StripeRefunds(s, k)
    \/ \E cancelled \in BOOLEAN : CancelOldIntent(s, cancelled)

Finish(s) ==
    \/ CommitEdit(s)
    \/ \E k \in Intents \cup {NoIntent} : CommitIssue(s, k)
    \/ CommitCash(s)
    \/ \E op \in {"webhook", "confirm"} : CommitCapture(s, op)
    \/ \E op \in {"cash_refund", "stripe_refund"} : CommitRefund(s, op)
    \/ CommitCredit(s)
    \/ \E op \in {"link", "qr_link"}, k \in Intents : CommitLink(s, op, k)
    \/ CommitVoid(s)
    \/ CommitOverdue(s)

Next ==
    \/ \E i \in Invoices :
        \/ \E total \in Amounts : CreateDraft(i, total)
        \/ \E total \in Amounts, k \in Intents \cup {NoIntent} : CreateIssued(i, total, k)
        \/ BulkDelete(i)
        \/ DueDatePasses(i)
        \/ DeferDueDate(i)
    \/ \E s \in Slots, i \in Invoices : Start(s, i)
    \/ \E s \in Slots :
        \/ StripeAnswers(s)
        \/ Flush(s)
        \/ LockConfirm(s)
        \/ Finish(s)
        \/ Abort(s)
    \/ \E s \in Slots, k \in Intents : DeliverWebhook(s, k)
    \/ \E k \in Intents : CustomerPays(k) \/ AnswerEvent(k)

Spec == Init /\ [][Next]_vars

\* A request that is in flight ends: it commits, or its session is rolled back.
RequestsEnd == \A s \in Slots :
    WF_vars(StripeAnswers(s) \/ Flush(s) \/ LockConfirm(s) \/ Finish(s) \/ Abort(s))

\* Stripe delivers an event until it is answered with 200, and not every delivery
\* is rolled back.
Redelivered(k) ==
    ~intent[k].told /\ (AnswerEvent(k) \/ \E s \in Slots : DeliverWebhook(s, k))

StripeRetries ==
    \A k \in Intents :
        /\ SF_vars(Redelivered(k))
        /\ SF_vars(\E s \in Slots : Recording(s, k) /\ CommitCapture(s, "webhook"))

\* The task runs every night, and not every run is rolled back.
TaskRepeats ==
    /\ \A i \in Invoices : SF_vars(\E s \in Slots : StartOverdue(s, i))
    /\ SF_vars(\E s \in Slots : req[s].op = "overdue" /\ Flush(s))
    /\ SF_vars(\E s \in Slots : CommitOverdue(s))

FairSpec == Spec /\ RequestsEnd /\ StripeRetries /\ TaskRepeats

-----------------------------------------------------------------------------
(* What holds however requests overlap *)

\* Every variable keeps its type; amounts in flight are natural numbers.
TypeOK ==
    /\ row \in [Invoices -> Row]
    /\ books \in [Invoices -> Books]
    /\ intent \in [Intents -> Intent]
    /\ lastNumber \in Nat
    /\ pastDue \subseteq Invoices
    /\ lock \in [Invoices -> Slots \cup {NoSlot}]
    /\ req \in [Slots -> Request]
    /\ begun \in Nat

\* However often Stripe delivers the event of a PaymentIntent, and whatever the
\* payment page confirms meanwhile, handle_stripe_webhook records it at most once.
OneCapturePerIntent == \A k \in Intents : intent[k].captures <= 1

\* No interleaving of handlers, each writing from the row it loaded, drives
\* amount_paid or balance_due below zero.
BalancesNonNegative == \A i \in Invoices : row[i].paid >= 0 /\ row[i].due >= 0

\* No invoice number is handed to two invoices (a deleted one keeps its number).
UniqueNumbers ==
    \A i, j \in Invoices :
        row[i].number # 0 /\ row[i].number = row[j].number => i = j

\* While handle_stripe_webhook runs, the copy of the row it writes from is the
\* committed row: no request that overlaps with it can lose it an update.
WebhookSeesCommittedRow ==
    \A s \in Slots :
        req[s].phase = "held" /\ req[s].op = "webhook" => req[s].snap = row[req[s].inv]

\* process_refund records a Stripe refund only when Stripe has made it.
RecordedRefundsWereMade ==
    \A k \in Intents : intent[k].recordedBack <= intent[k].sentBack

-----------------------------------------------------------------------------
(* What holds when no two requests overlap, or only webhooks do *)

Kept(i) == Exists(row[i]) /\ row[i].status # "draft"

\* amount_paid is what came in less what went back, and balance_due is what is
\* left of the total after payments and credit notes, never below zero.
BooksBalance ==
    \A i \in Invoices : Exists(row[i]) =>
        /\ row[i].paid = books[i].gross - books[i].refunded
        /\ row[i].due = AtLeastZero(row[i].total - books[i].gross - books[i].credited)

\* The status tells the truth about the books: nothing is owed on a paid invoice,
\* something on an open one, and a refunded one keeps nothing.
StatusAgreesWithBooks ==
    \A i \in Invoices :
        LET r == row[i] b == books[i] IN
        /\ r.status = "draft"  => r.number = 0 /\ b = NoBooks
        /\ r.status = "issued" => b.gross = 0
        /\ r.status = "paid"   => r.due = 0 /\ b.refunded = 0
        /\ r.status = "partially_paid" => r.paid > 0 /\ b.refunded = 0
        /\ Payable(r) /\ r.total > 0 => r.due > 0
        /\ r.status = "refunded" => r.paid = 0 /\ b.refunded > 0
        /\ r.status = "partially_refunded" => r.paid > 0 /\ b.refunded > 0

\* Credit notes never exceed the invoice total.
CreditWithinTotal == \A i \in Invoices : books[i].credited <= row[i].total
                                          \/ row[i].status = "deleted"

\* The numbers handed out are 1 .. last_number: no gap, none used twice.
ContiguousNumbers ==
    /\ {row[i].number : i \in {j \in Invoices : row[j].number # 0}} = 1..lastNumber
    /\ UniqueNumbers

-----------------------------------------------------------------------------
(* What a step may never do *)

\* A voided invoice stays voided, with its money, until it is deleted.
VoidedIsTerminal ==
    [][\A i \in Invoices :
          row[i].status = "voided" => row'[i].status \in {"voided", "deleted"}]_vars

\* An invoice keeps the number it was given.
NumberImmutable ==
    [][\A i \in Invoices : row[i].number # 0 => row'[i].number = row[i].number]_vars

\* The total of an invoice is fixed once it is issued.
TotalFixedOnceIssued ==
    [][\A i \in Invoices : Kept(i) /\ Exists(row'[i]) => row'[i].total = row[i].total]_vars

\* Only a refund, a void or a deletion takes an invoice out of "paid".
PaidLeavesOnlyByMoneyOut ==
    [][\A i \in Invoices : row[i].status = "paid" =>
          row'[i].status \in {"paid", "refunded", "partially_refunded", "voided",
                              "deleted"}]_vars

\* When requests do not overlap, every handler behaves as the one indivisible
\* step of InvoiceBook: phases, Stripe calls and rollbacks leave no trace.
Book == INSTANCE InvoiceBook
            WITH captured <- {k \in Intents : intent[k].captures > 0}
HandlersLookAtomic == Book!Spec

-----------------------------------------------------------------------------
(* What must happen in the end *)

Owing(i) == Payable(row[i]) /\ row[i].due > 0

\* Stripe is never told that the event of a payment has been dealt with while the
\* payment is due and nothing has recorded it.  A payment whose event is not yet
\* answered is recorded, or its invoice stops owing, or a session that has recorded
\* it answers before it commits.  What owes again later, or is rolled back after the
\* answer, handle_stripe_webhook gets no second event for.
SucceededIntentIsRecorded ==
    \A k \in Intents, i \in Invoices :
        (intent[k].st = "succeeded" /\ intent[k].inv = i /\ ~intent[k].told)
            ~> \/ intent[k].captures = 1
               \/ ~Owing(i)
               \/ intent[k].told /\ \E s \in Slots : Recording(s, k)

\* An invoice that stays past its due date and owing becomes overdue.
PastDueBecomesOverdue ==
    \A i \in Invoices :
        (i \in pastDue /\ Owing(i)) ~> (row[i].status = "overdue" \/ i \notin pastDue
                                         \/ ~Owing(i))
=============================================================================
