------------------------------ MODULE QrPayment ------------------------------
(***************************************************************************)
(* Card payments by QR code: staff ask for a payment session, the kiosk    *)
(* shows its code, the customer pays on a phone, Stripe tells the server.  *)
(*                                                                         *)
(* A session is its PaymentIntent, and so is the payment link minted with  *)
(* it: staff popups, the kiosk's row, the links and the customers' pages   *)
(* all name an intent.  A request reads, calls Stripe and commits in steps *)
(* of its own: between them others commit, and a rollback leaves what      *)
(* Stripe has done.  It writes under the lock of the invoice's row or the  *)
(* unique key of the kiosk's, so the commit is one step; but the links it  *)
(* retires are those that were committed when it made its own.             *)
(*                                                                         *)
(* Amounts are in units of the smallest payment.  A payment link stays     *)
(* valid for 72 hours, longer than anything here.  Of the kiosk there is    *)
(* only what the server tells it; its popup is not modelled.               *)
(***************************************************************************)
EXTENDS Integers, FiniteSets

CONSTANTS
    Invoices,
    Staff,          \* browsers that ask for sessions
    Intents,        \* bound: PaymentIntents, in the order Stripe makes them
    Total,          \* what an invoice is issued for
    MaxSurcharge,   \* bound: what a payment method adds
    MaxFailures     \* bound: requests and calls to Stripe that fail

ASSUME QrPaymentAssumption ==
    /\ Invoices # {}
    /\ Intents \subseteq Nat \ {0}
    /\ Total \in Nat \ {0}
    /\ MaxSurcharge \in Nat /\ MaxFailures \in Nat

VARIABLES
    invoice,    \* the rows of invoices
    link,       \* the rows of payment_tokens, by the intent they came with
    pending,    \* what the organisation's kiosk is told: its row of pending_qr_sessions
    recorded,   \* by intent, what the payments table holds of it
    stripe,     \* external: the PaymentIntents
    events,     \* payment_intent.succeeded events Stripe has not seen accepted
    scanned,    \* the intents whose client secret a customer's page holds
    staff,      \* requests and waiting popups
    failures

vars == <<invoice, link, pending, recorded, stripe, events, scanned, staff, failures>>

None == 0                                   \* null, for an intent or an amount
Amount == Nat
OptIntent == Intents \cup {None}

Invoice == [issued : BOOLEAN, balance : Amount, intent : OptIntent]
Link == [active : BOOLEAN, override : Amount, last : Amount]
Intent == [status : {"unmade", "open", "succeeded", "canceled"},
           kiosk : BOOLEAN,         \* metadata source = kiosk_qr
           invoice : Invoices,
           original : Amount]       \* metadata original_amount: to be recorded
\* steps: of the request, then of the popup
Desk == [step : {"idle", "look", "reuse", "cancel", "create", "commit",
                 "waiting", "success", "superseded"},
         kind : {"new", "qr", "link"}, invoice : Invoices,
         amount : Amount, override : Amount, old : OptIntent, session : OptIntent,
         retire : SUBSET Intents]   \* links the request has set to inactive, not yet committed

NoLink == [active |-> FALSE, override |-> None, last |-> None]   \* none, or inactive
AnInvoice == CHOOSE i \in Invoices : TRUE
NotMade == [status |-> "unmade", kiosk |-> FALSE, invoice |-> AnInvoice,
            original |-> 0]
Idle == [step |-> "idle", kind |-> "new", invoice |-> AnInvoice, amount |-> 0,
         override |-> None, old |-> None, session |-> None, retire |-> {}]
Popup(p) == [Idle EXCEPT !.step = "waiting", !.session = p]

Payable(i) == invoice[i].issued /\ invoice[i].balance > 0
Fresh(p) == /\ stripe[p].status = "unmade"
            /\ \A q \in Intents : q < p => stripe[q].status # "unmade"

To(s, step) == staff' = [staff EXCEPT ![s].step = step]
Fails == failures < MaxFailures /\ failures' = failures + 1

-----------------------------------------------------------------------------
(* Requests for a session: create_qr_payment_session with a new invoice,   *)
(* create_qr_session_for_existing_invoice, regenerate-payment-link.        *)

Ask(s, step, kind, i, amount, override, old) ==
    staff' = [staff EXCEPT ![s] =
        [Idle EXCEPT !.step = step, !.kind = kind, !.invoice = i, !.amount = amount,
                     !.override = override, !.old = old]]

OnlyStaff ==
    UNCHANGED <<invoice, link, pending, recorded, stripe, events, scanned, failures>>

\* The invoice is created by the request, so that nobody else knows it before.
AskNew(s, i) ==
    /\ staff[s].step = "idle"
    /\ ~invoice[i].issued
    /\ \A t \in Staff : staff[t].kind = "new" /\ staff[t].invoice = i =>
           staff[t].step \notin {"create", "commit"}
    /\ Ask(s, "create", "new", i, Total, None, None)
    /\ OnlyStaff

AskLink(s, i) ==
    /\ staff[s].step = "idle"
    /\ Payable(i)
    /\ Ask(s, "create", "link", i, invoice[i].balance, None, None)
    /\ OnlyStaff

\* part is the amount of a partial payment, None for the whole balance.  The
\* invoice is read here, and not again.
AskQr(s, i, part) ==
    LET amount == IF part = None THEN invoice[i].balance ELSE part
        old == invoice[i].intent
        step == IF old = None THEN "create" ELSE "look"
    IN  /\ staff[s].step = "idle"
        /\ Payable(i)
        /\ amount <= invoice[i].balance
        /\ Ask(s, step, "qr", i, amount, part, old)
        /\ OnlyStaff

ActiveLinks(i) == {q \in Intents : link[q].active /\ stripe[q].invoice = i}

\* The session the invoice had is reused when its link is for this very
\* amount; scalar_one_or_none raises when there are two.
Look(s) ==
    LET active == ActiveLinks(staff[s].invoice)
        two == \E q, r \in active : q # r
        same == \E q \in active : link[q].last = staff[s].amount
    IN  /\ staff[s].step = "look"
        /\ \/ two /\ staff' = [staff EXCEPT ![s] = Idle]
           \/ ~two /\ same /\ To(s, "reuse")
           \/ ~two /\ ~same /\ To(s, "cancel")
        /\ OnlyStaff

\* The popup opens unless the answer is lost on its way.
Opens(s, p) ==
    \/ staff' = [staff EXCEPT ![s] = Popup(p)] /\ UNCHANGED failures
    \/ staff' = [staff EXCEPT ![s] = Idle] /\ Fails

\* As if the kiosk's row named the invoice in place of the session.
ReuseNamesInvoice(s) ==
    /\ staff[s].step = "reuse"
    /\ pending' = staff[s].invoice
    /\ Opens(s, staff[s].old)
    /\ UNCHANGED <<invoice, link, recorded, stripe, events, scanned>>

\* The kiosk is told of the session again, whatever became of it meanwhile.
Reuse(s) ==
    /\ staff[s].step = "reuse"
    /\ pending' = staff[s].old
    /\ Opens(s, staff[s].old)
    /\ UNCHANGED <<invoice, link, recorded, stripe, events, scanned>>

\* _cancel_payment_intent: an intent that is settled stays as it is, and an
\* error of Stripe's is swallowed.
CancelOld(s) ==
    /\ staff[s].step = "cancel"
    /\ staff' = [staff EXCEPT ![s].step = "create", ![s].old = None]
    /\ \/ /\ stripe' = IF stripe[staff[s].old].status = "open"
                       THEN [stripe EXCEPT ![staff[s].old].status = "canceled"] ELSE stripe
          /\ UNCHANGED failures
       \/ Fails /\ UNCHANGED stripe
    /\ UNCHANGED <<invoice, link, pending, recorded, events, scanned>>

\* generate_payment_token follows at once: its UPDATE sees the links that are
\* committed now.
CreateIntent(s, p) ==
    /\ staff[s].step = "create"
    /\ Fresh(p)
    /\ stripe' = [stripe EXCEPT ![p] =
           [status |-> "open", kiosk |-> staff[s].kind # "link",
            invoice |-> staff[s].invoice, original |-> staff[s].amount]]
    /\ staff' = [staff EXCEPT ![s].step = "commit", ![s].session = p,
                              ![s].retire = ActiveLinks(staff[s].invoice)]
    /\ UNCHANGED <<invoice, link, pending, recorded, events, scanned, failures>>

\* The request's own link, and the ones it set to inactive.
Mint(p, retire, new) ==
    [q \in Intents |-> IF q = p THEN new ELSE IF q \in retire THEN NoLink ELSE link[q]]

Commit(s) ==
    LET p == staff[s].session
        i == staff[s].invoice
        qr == staff[s].kind # "link"
    IN  /\ staff[s].step = "commit"
        /\ link' = Mint(p, staff[s].retire, [active |-> TRUE, override |-> staff[s].override,
                        last |-> IF staff[s].kind = "qr" THEN staff[s].amount ELSE None])
        /\ invoice' = [invoice EXCEPT ![i].issued = TRUE, ![i].intent = p]
        /\ pending' = IF qr THEN p ELSE pending
        /\ IF qr THEN Opens(s, p)
           ELSE staff' = [staff EXCEPT ![s] = Idle] /\ UNCHANGED failures
        /\ UNCHANGED <<recorded, stripe, events, scanned>>

\* The request fails and its transaction is rolled back.
Fail(s) ==
    /\ staff[s].step \in {"look", "reuse", "cancel", "create", "commit"}
    /\ Fails
    /\ staff' = [staff EXCEPT ![s] = Idle]
    /\ UNCHANGED <<invoice, link, pending, recorded, stripe, events, scanned>>

-----------------------------------------------------------------------------
(* The waiting popup (QrPaymentWaitingPopup), asking every three seconds.  *)

\* As if only the local payments were asked.
StatusLocalOnly(p) ==
    IF recorded[p] > 0 THEN "complete"
    ELSE IF stripe[p].status = "canceled" THEN "expired" ELSE "open"

\* As if a canceled intent counted as done.
StatusDoneIsPaid(p) == IF stripe[p].status = "open" THEN "open" ELSE "complete"

\* get_qr_session_status
Status(p) ==
    IF recorded[p] > 0 \/ stripe[p].status = "succeeded" THEN "complete"
    ELSE IF stripe[p].status = "canceled" THEN "expired" ELSE "open"

Poll(s) ==
    /\ staff[s].step = "waiting"
    /\ \/ Status(staff[s].session) = "complete" /\ To(s, "success")
       \/ Status(staff[s].session) = "expired" /\ To(s, "superseded")
    /\ UNCHANGED <<invoice, link, pending, recorded, stripe, events, scanned, failures>>

\* Closed by hand, or three seconds after success.
ClosePopup(s) ==
    /\ staff[s].step \in {"waiting", "success", "superseded"}
    /\ staff' = [staff EXCEPT ![s] = Idle]
    /\ UNCHANGED <<invoice, link, pending, recorded, stripe, events, scanned, failures>>

\* The row is two minutes old, or the kiosk's Close dismissed it: the kiosk is
\* no longer told of it.
Hide ==
    /\ pending # None
    /\ pending' = None
    /\ UNCHANGED <<invoice, link, recorded, stripe, events, scanned, staff, failures>>

-----------------------------------------------------------------------------
(* The customer's page (InvoicePaymentPage) and Stripe.                    *)

\* get_payment_page: the link's page holds the secret of the invoice's intent.
Scan(p) ==
    /\ link[p].active /\ Payable(stripe[p].invoice)
    /\ invoice[stripe[p].invoice].intent # None
    /\ scanned' = scanned \cup {invoice[stripe[p].invoice].intent}
    /\ scanned' # scanned
    /\ UNCHANGED <<invoice, link, pending, recorded, stripe, events, staff, failures>>

\* What the link asks for, before the surcharge.
Base(p) == IF link[p].override # None THEN link[p].override
           ELSE invoice[stripe[p].invoice].balance

\* update_surcharge: the customer picks a payment method that adds x.
UpdateSurcharge(p, x) ==
    LET q == invoice[stripe[p].invoice].intent
    IN  /\ p \in scanned /\ link[p].active
        /\ q # None
        /\ stripe[q].status = "open"
        /\ Base(p) > 0
        /\ stripe' = [stripe EXCEPT ![q].original = Base(p)]
        /\ link' = [link EXCEPT ![p].last = Base(p) + x]
        /\ UNCHANGED <<invoice, pending, recorded, events, scanned, staff, failures>>

\* stripe.confirmPayment with the secret the page holds.
Pay(p) ==
    /\ p \in scanned /\ stripe[p].status = "open"
    /\ stripe' = [stripe EXCEPT ![p].status = "succeeded"]
    /\ events' = events \cup {p}
    /\ UNCHANGED <<invoice, link, pending, recorded, scanned, staff, failures>>

\* As if the invoice kept the session that was paid.
RecordKeepsSession(p) ==
    LET i == stripe[p].invoice
        paid == IF stripe[p].original < invoice[i].balance
                THEN stripe[p].original ELSE invoice[i].balance
    IN  /\ recorded' = [recorded EXCEPT ![p] = paid]
        /\ invoice' = [invoice EXCEPT ![i].balance = @ - paid]
        /\ pending' = IF stripe[p].kiosk /\ pending = p THEN None ELSE pending
        /\ link' = [q \in Intents |-> IF stripe[q].invoice = i THEN NoLink ELSE link[q]]

\* handle_stripe_webhook on an invoice that is payable, for an intent it has
\* not recorded: at most the balance is recorded, and whatever session the
\* invoice has now is forgotten.
Record(p) ==
    LET i == stripe[p].invoice
        paid == IF stripe[p].original < invoice[i].balance
                THEN stripe[p].original ELSE invoice[i].balance
    IN  /\ recorded' = [recorded EXCEPT ![p] = paid]
        /\ invoice' = [invoice EXCEPT ![i].balance = @ - paid, ![i].intent = None]
        /\ pending' = IF stripe[p].kiosk /\ pending = p THEN None ELSE pending
        /\ link' = [q \in Intents |-> IF stripe[q].invoice = i THEN NoLink ELSE link[q]]

Recordable(p) == Payable(stripe[p].invoice) /\ recorded[p] = 0

\* An event is delivered; Stripe may deliver it again.
Webhook(p) ==
    /\ p \in events
    /\ events' \in {events, events \ {p}}
    /\ \/ Recordable(p) /\ Record(p)
       \/ ~Recordable(p) /\ events' # events /\ UNCHANGED <<invoice, link, pending, recorded>>
    /\ UNCHANGED <<stripe, scanned, staff, failures>>

\* confirm_payment: the page asks about its invoice's intent.
Confirm(p) ==
    LET q == invoice[stripe[p].invoice].intent
    IN  /\ p \in scanned /\ stripe[p].status = "succeeded" /\ link[p].active
        /\ q # None
        /\ stripe[q].status = "succeeded" /\ Recordable(q)
        /\ Record(q)
        /\ UNCHANGED <<stripe, events, scanned, staff, failures>>

\* record_cash_payment leaves the session as it is.
Cash(i, amount) ==
    /\ Payable(i) /\ amount <= invoice[i].balance
    /\ invoice' = [invoice EXCEPT ![i].balance = @ - amount]
    /\ UNCHANGED <<link, pending, recorded, stripe, events, scanned, staff, failures>>

-----------------------------------------------------------------------------
\* An invoice is yet to be created, or was issued without a session.
Init ==
    /\ invoice \in [Invoices -> [issued : BOOLEAN, balance : {Total}, intent : {None}]]
    /\ link = [p \in Intents |-> NoLink]
    /\ pending = None
    /\ recorded = [p \in Intents |-> 0]
    /\ stripe = [p \in Intents |-> NotMade]
    /\ events = {} /\ scanned = {}
    /\ staff = [s \in Staff |-> Idle]
    /\ failures = 0

Request(s) ==
    \/ \E i \in Invoices : AskNew(s, i) \/ AskLink(s, i)
    \/ \E i \in Invoices, part \in 0 .. Total : AskQr(s, i, part)
    \/ Look(s) \/ Reuse(s) \/ CancelOld(s) \/ Commit(s) \/ Fail(s)
    \/ \E p \in Intents : CreateIntent(s, p)

Customer(p) ==
    \/ Scan(p) \/ Pay(p) \/ Confirm(p)
    \/ \E x \in 0 .. MaxSurcharge : UpdateSurcharge(p, x)

Next ==
    \/ \E s \in Staff : Request(s) \/ Poll(s) \/ ClosePopup(s)
    \/ Hide
    \/ \E p \in Intents : Customer(p) \/ Webhook(p)
    \/ \E i \in Invoices, amount \in 1 .. Total : Cash(i, amount)

Spec == Init /\ [][Next]_vars

\* The popup's timer asks again until it is told.
FairSpec == Spec /\ \A s \in Staff : WF_vars(Poll(s))

-----------------------------------------------------------------------------
(* Properties.                                                             *)

\* Every variable has its type.
TypeOK ==
    /\ invoice \in [Invoices -> Invoice]
    /\ link \in [Intents -> Link]
    /\ pending \in OptIntent
    /\ recorded \in [Intents -> Amount]
    /\ stripe \in [Intents -> Intent]
    /\ events \subseteq Intents /\ scanned \subseteq Intents
    /\ staff \in [Staff -> Desk]
    /\ failures \in 0 .. MaxFailures

\* The session an invoice offers is its own and its link works, however requests overlap
\* with each other and with the webhook: a customer sent to it does not meet a dead link.
SessionHasItsLink ==
    \A i \in Invoices : invoice[i].intent # None =>
        /\ stripe[invoice[i].intent].invoice = i
        /\ link[invoice[i].intent].active

\* "When a new token is generated for the same invoice, all previous tokens are set to
\* is_active = False" (PaymentToken): an invoice has one link that works.
OneLinkWorks ==
    \A p, q \in Intents :
        link[p].active /\ link[q].active /\ stripe[p].invoice = stripe[q].invoice => p = q

\* A link that works is the one of its invoice's intent, and the intent of a partial
\* payment's link is for that part.  It needs that no two requests make a link for one
\* invoice at the same time.
OffersAreCurrent ==
    \A p \in Intents : link[p].active =>
        /\ invoice[stripe[p].invoice].intent = p
        /\ link[p].override # None => stripe[p].original = link[p].override

\* The kiosk is told of no session whose payment is recorded: "WHEN the webhook records a
\* payment, THE system SHALL clear the Pending_QR_Session" (requirement 8.5 of the kiosk).
KioskForgetsThePaid == pending # None => recorded[pending] = 0

\* A popup that says "received" is of an intent Stripe has captured; one that
\* says "superseded" is of an intent nobody can pay any more.
PopupsTellTheTruth ==
    \A s \in Staff :
        /\ staff[s].step = "success" => stripe[staff[s].session].status = "succeeded"
        /\ staff[s].step = "superseded" => stripe[staff[s].session].status = "canceled"

\* A popup that waits for an intent that is paid or canceled stops waiting,
\* although the server may never record the payment.
WaitingEnds ==
    \A s \in Staff :
        (/\ staff[s].step = "waiting"
         /\ stripe[staff[s].session].status \in {"succeeded", "canceled"})
        ~> staff[s].step # "waiting"

\* A payment Stripe tells of is recorded in full (requirements 8 of the kiosk
\* and 10.3 of partial payments: so that no payment is lost).
PaymentsAreRecorded ==
    [][\A p \in events \ events' : recorded'[p] = stripe[p].original]_vars
=============================================================================
