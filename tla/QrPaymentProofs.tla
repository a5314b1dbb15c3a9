--------------------------- MODULE QrPaymentProofs ---------------------------
(***************************************************************************)
(* For any invoices, staff, intents and bounds: the types of QrPayment,    *)
(* that the session of an invoice has its link, and that popups tell the   *)
(* truth; and, while no two requests make a link for one invoice at the    *)
(* same time, that what is on offer is current.                            *)
(*                                                                         *)
(* The invariants need what a request knows between its call to Stripe and *)
(* its commit: the intent it made is its own, no row, page or event names  *)
(* it before the commit does, and the links it retires are its invoice's.  *)
(***************************************************************************)
EXTENDS QrPayment, TLAPS

USE DEF None

Steps == {"idle", "look", "reuse", "cancel", "create", "commit",
          "waiting", "success", "superseded"}
Asking == {"look", "reuse", "cancel", "create", "commit"}
Kinds == {"new", "qr", "link"}
Statuses == {"unmade", "open", "succeeded", "canceled"}

\* Nothing but the request that made it knows of intent p.
Unknown(p) ==
    /\ ~link[p].active
    /\ recorded[p] = 0
    /\ p \notin events /\ p \notin scanned
    /\ \A i \in Invoices : invoice[i].intent # p

DeskOK(d) ==
    /\ d.step \in {"look", "reuse", "cancel"} => d.old # None
    /\ d.step \in Asking /\ d.override # None => d.amount = d.override
    /\ d.step = "commit" =>
           /\ d.session # None
           /\ stripe[d.session].status # "unmade"
           /\ stripe[d.session].invoice = d.invoice
           /\ stripe[d.session].original = d.amount
           /\ Unknown(d.session)
           /\ \A q \in d.retire :
                  q # d.session /\ stripe[q].status # "unmade" /\ stripe[q].invoice = d.invoice
    /\ d.step \in {"waiting", "success", "superseded"} => d.session # None
    /\ d.step = "success" => stripe[d.session].status = "succeeded"
    /\ d.step = "superseded" => stripe[d.session].status = "canceled"

Desks == \A s \in Staff : DeskOK(staff[s])

\* No two requests made the same intent.
OwnIntents ==
    \A s, t \in Staff :
        /\ staff[s].step = "commit" /\ staff[t].step = "commit"
        /\ staff[s].session = staff[t].session
        => s = t

UnmadeIsUnknown == \A p \in Intents : stripe[p].status = "unmade" => Unknown(p)

Captured ==
    \A p \in Intents : recorded[p] > 0 \/ p \in events => stripe[p].status = "succeeded"

IInv ==
    /\ TypeOK
    /\ Desks /\ OwnIntents
    /\ UnmadeIsUnknown /\ SessionHasItsLink /\ Captured

-----------------------------------------------------------------------------
(* Types.                                                                  *)

\* There is an invoice to name where none matters.
LEMMA SomeInvoice == AnInvoice \in Invoices
BY QrPaymentAssumption DEF AnInvoice

\* The blanks are of their types.
LEMMA Blanks == /\ NoLink \in Link /\ NotMade \in Intent /\ Idle \in Desk
                /\ ~NoLink.active
                /\ Idle.step = "idle" /\ Idle.session = None /\ Idle.old = None
                /\ Idle.retire = {}
<1>1. NoLink \in Link /\ ~NoLink.active
    BY DEF NoLink, Link, Amount
<1>2. NotMade \in Intent
    BY SomeInvoice DEF NotMade, Intent, Amount
<1>3. Idle \in Desk
    BY SomeInvoice DEF Idle, Desk, Amount, OptIntent
<1> QED
    BY <1>1, <1>2, <1>3 DEF Idle

\* A popup for an intent.
LEMMA PopupType ==
    ASSUME NEW p \in Intents
    PROVE  /\ Popup(p) \in Desk
           /\ Popup(p).step = "waiting" /\ Popup(p).session = p
BY SomeInvoice DEF Popup, Idle, Desk, Amount, OptIntent

\* Intents are positive numbers: none of them is null.
LEMMA IntentsAreSome == \A p \in Intents : p \in Nat /\ p # None
BY QrPaymentAssumption

\* The fields of a desk.
LEMMA DeskFields ==
    ASSUME NEW d \in Desk
    PROVE  /\ d.step \in Steps /\ d.kind \in Kinds
           /\ d.invoice \in Invoices
           /\ d.amount \in Nat /\ d.override \in Nat
           /\ d.old \in OptIntent /\ d.session \in OptIntent
           /\ d.retire \subseteq Intents
BY DEF Desk, Steps, Kinds, Amount

\* A desk with another step.
LEMMA StepFields ==
    ASSUME NEW d \in Desk, NEW step \in Steps
    PROVE  LET e == [d EXCEPT !.step = step]
           IN  /\ e \in Desk
               /\ e.step = step /\ e.kind = d.kind /\ e.invoice = d.invoice
               /\ e.amount = d.amount /\ e.override = d.override
               /\ e.old = d.old /\ e.session = d.session
BY DEF Desk, Steps

-----------------------------------------------------------------------------
(* Steps that change a desk, and perhaps the count of failures, only.      *)

LEMMA StaffStep ==
    ASSUME IInv, NEW s \in Staff, NEW d \in Desk,
           d.step # "commit", DeskOK(d),
           staff' = [staff EXCEPT ![s] = d],
           failures' \in 0 .. MaxFailures,
           UNCHANGED <<invoice, link, pending, recorded, stripe, events, scanned>>
    PROVE  IInv'
<1>1. TypeOK'
    BY DEF IInv, TypeOK
<1>2. Desks'
    BY DEF IInv, TypeOK, Desks, DeskOK, Unknown
<1>3. OwnIntents'
    BY DEF IInv, TypeOK, OwnIntents
<1>4. (UnmadeIsUnknown /\ SessionHasItsLink /\ Captured)'
    BY DEF IInv, UnmadeIsUnknown, Unknown, SessionHasItsLink, Captured
<1> QED
    BY <1>1, <1>2, <1>3, <1>4 DEF IInv

\* What a request starts from.
LEMMA AskDesk ==
    ASSUME NEW i \in Invoices, NEW kind \in Kinds, NEW amount \in Nat, NEW override \in Nat,
           NEW old \in OptIntent, NEW step \in {"create", "look"},
           override # None => amount = override, step = "look" => old # None
    PROVE  LET d == [Idle EXCEPT !.step = step, !.kind = kind, !.invoice = i,
                                 !.amount = amount, !.override = override, !.old = old]
           IN  d \in Desk /\ d.step # "commit" /\ DeskOK(d)
<1> DEFINE d == [Idle EXCEPT !.step = step, !.kind = kind, !.invoice = i,
                             !.amount = amount, !.override = override, !.old = old]
<1>1. d \in Desk
    BY Blanks DEF Desk, Amount, Kinds
<1>2. d.step = step /\ d.old = old /\ d.amount = amount /\ d.override = override
    BY DEF Idle
<1> HIDE DEF d
<1>3. d.step # "commit" /\ DeskOK(d)
    BY <1>2 DEF DeskOK
<1> QED
    BY <1>1, <1>3 DEF d

LEMMA FailuresGrow == TypeOK /\ Fails => failures' \in 0 .. MaxFailures
BY QrPaymentAssumption DEF TypeOK, Fails

LEMMA AskNewStep ==
    ASSUME IInv, NEW s \in Staff, NEW i \in Invoices, AskNew(s, i)
    PROVE  IInv'
<1>1. Total \in Nat /\ None \in Nat /\ None \in OptIntent /\ "new" \in Kinds
    BY QrPaymentAssumption DEF OptIntent, Kinds
<1> QED
    BY <1>1, AskDesk, StaffStep DEF AskNew, OnlyStaff, Ask, IInv, TypeOK

LEMMA AskLinkStep ==
    ASSUME IInv, NEW s \in Staff, NEW i \in Invoices, AskLink(s, i)
    PROVE  IInv'
<1>1. invoice[i].balance \in Nat
    BY DEF IInv, TypeOK, Invoice, Amount
<1>2. None \in Nat /\ None \in OptIntent /\ "link" \in Kinds
    BY DEF OptIntent, Kinds
<1> QED
    BY <1>1, <1>2, AskDesk, StaffStep DEF AskLink, OnlyStaff, Ask, IInv, TypeOK

LEMMA AskQrStep ==
    ASSUME IInv, NEW s \in Staff, NEW i \in Invoices, NEW part \in 0 .. Total, AskQr(s, i, part)
    PROVE  IInv'
<1> DEFINE amount == IF part = None THEN invoice[i].balance ELSE part
           old == invoice[i].intent
           step == IF old = None THEN "create" ELSE "look"
           d == [Idle EXCEPT !.step = step, !.kind = "qr", !.invoice = i,
                             !.amount = amount, !.override = part, !.old = old]
<1>1. invoice[i].balance \in Nat /\ old \in OptIntent
    BY DEF IInv, TypeOK, Invoice, Amount
<1>2. part \in Nat /\ amount \in Nat /\ (part # None => amount = part) /\ "qr" \in Kinds
    BY <1>1, QrPaymentAssumption DEF Kinds
<1>3. staff' = [staff EXCEPT ![s] = d] /\ OnlyStaff
    BY DEF AskQr, Ask
<1>4. step \in {"create", "look"} /\ (step = "look" => old # None)
    OBVIOUS
<1> HIDE DEF amount, old, step
<1>5. d \in Desk /\ d.step # "commit" /\ DeskOK(d)
    BY <1>1, <1>2, <1>4, AskDesk
<1> HIDE DEF d
<1> QED
    BY <1>3, <1>5, StaffStep DEF OnlyStaff, IInv, TypeOK

LEMMA LookStep ==
    ASSUME IInv, NEW s \in Staff, Look(s)
    PROVE  IInv'
<1>1. staff[s] \in Desk /\ DeskOK(staff[s]) /\ staff[s].step = "look" /\ OnlyStaff
    BY DEF IInv, TypeOK, Desks, Look
<1>2. ASSUME NEW step \in {"reuse", "cancel"}, To(s, step) PROVE IInv'
    <2>1. step \in Steps
        BY DEF Steps
    <2>2. LET e == [staff[s] EXCEPT !.step = step]
          IN  e \in Desk /\ e.step # "commit" /\ DeskOK(e)
        BY <1>1, <2>1, StepFields DEF DeskOK, Asking
    <2> QED
        BY <1>1, <1>2, <2>2, StaffStep DEF To, OnlyStaff, IInv, TypeOK
<1>3. CASE staff' = [staff EXCEPT ![s] = Idle]
    BY <1>1, <1>3, Blanks, StaffStep DEF OnlyStaff, IInv, TypeOK, DeskOK, Asking
<1> QED
    BY <1>2, <1>3 DEF Look

\* Only the kiosk's row and the popup name a session that is offered again.
LEMMA ReuseStep ==
    ASSUME IInv, NEW s \in Staff, Reuse(s)
    PROVE  IInv'
<1> DEFINE p == staff[s].old
<1>1. p \in Intents
    BY DeskFields DEF Reuse, IInv, TypeOK, Desks, DeskOK, OptIntent
<1>2. PICK f \in {Idle, Popup(p)} : staff' = [staff EXCEPT ![s] = f]
    BY DEF Reuse, Opens
<1>3. f \in Desk /\ f.step \in {"idle", "waiting"} /\ (f.step = "waiting" => f.session = p)
    BY <1>1, Blanks, PopupType
<1>4. failures' \in 0 .. MaxFailures
    BY FailuresGrow DEF Reuse, Opens, IInv, TypeOK
<1>5. pending' = p /\ UNCHANGED <<invoice, link, recorded, stripe, events, scanned>>
    BY DEF Reuse
<1> HIDE DEF p
<1>6. TypeOK'
    BY <1>1, <1>2, <1>3, <1>4, <1>5 DEF IInv, TypeOK, OptIntent
<1>7. Desks'
    <2> SUFFICES ASSUME NEW t \in Staff PROVE DeskOK(staff[t])'
        BY DEF Desks
    <2>1. CASE t = s
        <3>1. staff'[t] = f
            BY <1>2, <2>1 DEF IInv, TypeOK
        <3> QED
            BY <1>1, <1>3, <3>1, IntentsAreSome DEF DeskOK, Asking
    <2>2. CASE t # s
        <3>1. staff'[t] = staff[t] /\ DeskOK(staff[t])
            BY <1>2, <2>2 DEF IInv, TypeOK, Desks
        <3> QED
            BY <1>5, <3>1 DEF DeskOK, Unknown
    <2> QED
        BY <2>1, <2>2
<1>8. OwnIntents'
    BY <1>2, <1>3 DEF IInv, TypeOK, OwnIntents
<1>9. (UnmadeIsUnknown /\ SessionHasItsLink /\ Captured)'
    BY <1>5 DEF IInv, UnmadeIsUnknown, Unknown, SessionHasItsLink, Captured
<1> QED
    BY <1>6, <1>7, <1>8, <1>9 DEF IInv

LEMMA FailStep ==
    ASSUME IInv, NEW s \in Staff, Fail(s)
    PROVE  IInv'
BY Blanks, StaffStep, FailuresGrow DEF Fail, IInv, DeskOK, Asking

LEMMA ClosePopupStep ==
    ASSUME IInv, NEW s \in Staff, ClosePopup(s)
    PROVE  IInv'
BY Blanks, StaffStep DEF ClosePopup, IInv, TypeOK, DeskOK, Asking

LEMMA PollStep ==
    ASSUME IInv, NEW s \in Staff, Poll(s)
    PROVE  IInv'
<1> DEFINE p == staff[s].session
<1>1. staff[s] \in Desk /\ DeskOK(staff[s]) /\ staff[s].step = "waiting"
    BY DEF IInv, TypeOK, Desks, Poll
<1>2. p \in Intents
    BY <1>1, DeskFields DEF DeskOK, OptIntent
<1>3. CASE Status(p) = "complete" /\ To(s, "success")
    <2>1. stripe[p].status = "succeeded"
        <3>1. recorded[p] \in Nat
            BY <1>2 DEF IInv, TypeOK, Amount
        <3> QED
            BY <1>2, <1>3, <3>1 DEF Status, IInv, Captured
    <2>2. "success" \in Steps
        BY DEF Steps
    <2>3. LET e == [staff[s] EXCEPT !.step = "success"]
          IN  e \in Desk /\ e.step # "commit" /\ DeskOK(e)
        BY <1>1, <1>2, <2>1, <2>2, StepFields, IntentsAreSome DEF DeskOK, Asking
    <2> QED
        BY <1>1, <1>3, <2>3, StaffStep DEF Poll, To, IInv, TypeOK
<1>4. CASE Status(p) = "expired" /\ To(s, "superseded")
    <2>1. stripe[p].status = "canceled"
        BY <1>4 DEF Status
    <2>2. "superseded" \in Steps
        BY DEF Steps
    <2>3. LET e == [staff[s] EXCEPT !.step = "superseded"]
          IN  e \in Desk /\ e.step # "commit" /\ DeskOK(e)
        BY <1>1, <1>2, <2>1, <2>2, StepFields, IntentsAreSome DEF DeskOK, Asking
    <2> QED
        BY <1>1, <1>4, <2>3, StaffStep DEF Poll, To, IInv, TypeOK
<1> QED
    BY <1>3, <1>4 DEF Poll

-----------------------------------------------------------------------------
(* Steps of the requests.                                                  *)

\* Canceling touches the status of an intent that is open, no more.
LEMMA CancelOldStep ==
    ASSUME IInv, NEW s \in Staff, CancelOld(s)
    PROVE  IInv'
<1> DEFINE o == staff[s].old
           e == [staff[s] EXCEPT !.step = "create", !.old = None]
<1>1. staff[s] \in Desk /\ DeskOK(staff[s]) /\ staff[s].step = "cancel" /\ o \in Intents
    BY DeskFields DEF IInv, TypeOK, Desks, CancelOld, DeskOK, OptIntent
<1>2. e \in Desk /\ e.step = "create" /\ e.amount = staff[s].amount
      /\ e.override = staff[s].override
    BY <1>1 DEF Desk, OptIntent
<1>3. staff' = [staff EXCEPT ![s] = e] /\ DeskOK(e)
    BY <1>1, <1>2 DEF CancelOld, IInv, TypeOK, DeskOK, Asking
<1> HIDE DEF e
<1>4. failures' \in 0 .. MaxFailures
    BY FailuresGrow DEF CancelOld, IInv, TypeOK
<1>5. CASE UNCHANGED stripe
    BY <1>2, <1>3, <1>4, <1>5, StaffStep DEF CancelOld
<1>6. CASE stripe[o].status = "open" /\ stripe' = [stripe EXCEPT ![o].status = "canceled"]
    <2>1. stripe' \in [Intents -> Intent]
        BY <1>1, <1>6 DEF IInv, TypeOK, Intent
    <2>2. \A p \in Intents :
              /\ stripe'[p].kiosk = stripe[p].kiosk /\ stripe'[p].invoice = stripe[p].invoice
              /\ stripe'[p].original = stripe[p].original
              /\ stripe'[p].status = "unmade" <=> stripe[p].status = "unmade"
              /\ stripe[p].status = "succeeded" => stripe'[p].status = "succeeded"
              /\ stripe[p].status = "canceled" => stripe'[p].status = "canceled"
        BY <1>1, <1>6 DEF IInv, TypeOK, Intent
    <2>3. TypeOK'
        BY <1>2, <1>3, <1>4, <2>1 DEF IInv, TypeOK, CancelOld
    <2>4. Desks'
        <3> SUFFICES ASSUME NEW t \in Staff PROVE DeskOK(staff[t])'
            BY DEF Desks
        <3>1. CASE t = s
            BY <1>2, <1>3, <3>1 DEF IInv, TypeOK, DeskOK
        <3>2. CASE t # s
            <4>1. /\ staff'[t] = staff[t] /\ DeskOK(staff[t])
                  /\ staff[t].session \in OptIntent /\ staff[t].retire \subseteq Intents
                BY <1>3, <3>2, DeskFields DEF IInv, TypeOK, Desks
            <4>2. staff[t].session # None => staff[t].session \in Intents
                BY <4>1 DEF OptIntent
            <4>3. \A q \in Intents : Unknown(q)' <=> Unknown(q)
                BY DEF CancelOld, Unknown
            <4> QED
                BY <2>2, <4>1, <4>2, <4>3 DEF DeskOK
        <3> QED
            BY <3>1, <3>2
    <2>5. OwnIntents'
        BY <1>2, <1>3 DEF IInv, TypeOK, OwnIntents
    <2>6. (UnmadeIsUnknown /\ Captured)'
        BY <2>2 DEF CancelOld, IInv, UnmadeIsUnknown, Unknown, Captured
    <2>7. SessionHasItsLink'
        BY <2>2 DEF CancelOld, IInv, TypeOK, SessionHasItsLink, Invoice, OptIntent
    <2> QED
        BY <2>3, <2>4, <2>5, <2>6, <2>7 DEF IInv
<1> QED
    BY <1>1, <1>5, <1>6 DEF CancelOld

\* An intent Stripe makes is nobody else's.
LEMMA CreateIntentStep ==
    ASSUME IInv, NEW s \in Staff, NEW p \in Intents, CreateIntent(s, p)
    PROVE  IInv'
<1> DEFINE R == ActiveLinks(staff[s].invoice)
           e == [staff[s] EXCEPT !.step = "commit", !.session = p, !.retire = R]
           new == [status |-> "open", kiosk |-> staff[s].kind # "link",
                   invoice |-> staff[s].invoice, original |-> staff[s].amount]
<1>1. /\ staff[s] \in Desk /\ DeskOK(staff[s]) /\ staff[s].step = "create"
      /\ stripe[p].status = "unmade" /\ Unknown(p)
      /\ stripe' = [stripe EXCEPT ![p] = new]
      /\ staff' = [staff EXCEPT ![s] = e]
      /\ UNCHANGED <<invoice, link, pending, recorded, events, scanned, failures>>
    BY DEF CreateIntent, Fresh, IInv, TypeOK, Desks, UnmadeIsUnknown
<1>2. new \in Intent
    BY <1>1, DeskFields DEF Intent, Amount
<1>10. /\ R \in SUBSET Intents /\ p \notin R
       /\ \A q \in R : stripe[q].status # "unmade" /\ stripe[q].invoice = staff[s].invoice
    BY <1>1 DEF ActiveLinks, IInv, UnmadeIsUnknown, Unknown
<1> HIDE DEF R
<1>3. /\ e \in Desk /\ e.step = "commit" /\ e.session = p
      /\ e.invoice = staff[s].invoice /\ e.amount = staff[s].amount
      /\ e.override = staff[s].override /\ e.retire = R
    BY <1>1, <1>10 DEF Desk, OptIntent
<1>4. /\ stripe'[p] = new
      /\ \A q \in Intents : q # p => stripe'[q] = stripe[q]
      /\ \A q \in Intents : Unknown(q)' <=> Unknown(q)
    BY <1>1 DEF IInv, TypeOK, Unknown
<1>5. TypeOK'
    BY <1>1, <1>2, <1>3 DEF IInv, TypeOK
<1>6. Desks'
    <2> SUFFICES ASSUME NEW t \in Staff PROVE DeskOK(staff[t])'
        BY DEF Desks
    <2>1. CASE t = s
        <3>1. staff'[t] = e
            BY <1>1, <2>1 DEF IInv, TypeOK
        <3> HIDE DEF e
        <3> QED
            BY <1>1, <1>3, <1>4, <1>10, <3>1, IntentsAreSome DEF DeskOK, Asking
    <2>2. CASE t # s
        <3>1. /\ staff'[t] = staff[t] /\ DeskOK(staff[t])
              /\ staff[t].session \in OptIntent /\ staff[t].retire \subseteq Intents
            BY <1>1, <2>2, DeskFields DEF IInv, TypeOK, Desks
        <3>2. staff[t].session # None => staff[t].session \in Intents
            BY <3>1 DEF OptIntent
        <3>3. \A q \in Intents : stripe[q].status # "unmade" => stripe'[q] = stripe[q]
            BY <1>1, <1>4
        <3>4. staff[t].step = "commit" =>
                  \A q \in staff[t].retire : stripe'[q] = stripe[q]
            BY <3>1, <3>3 DEF DeskOK
        <3>5. CASE staff[t].step = "commit"
            <4>1. /\ staff[t].session \in Intents
                  /\ stripe'[staff[t].session] = stripe[staff[t].session]
                BY <3>1, <3>2, <3>3, <3>5 DEF DeskOK
            <4> QED
                BY <1>4, <3>1, <3>4, <3>5, <4>1 DEF DeskOK
        <3>6. CASE staff[t].step # "commit"
            BY <1>1, <1>4, <3>1, <3>2, <3>3, <3>6 DEF DeskOK
        <3> QED
            BY <3>5, <3>6
    <2> QED
        BY <2>1, <2>2
<1>7. OwnIntents'
    <2>1. \A t \in Staff : staff[t].step = "commit" => staff[t].session # p
        BY <1>1 DEF IInv, Desks, DeskOK
    <2> HIDE DEF e
    <2> QED
        BY <1>1, <1>3, <2>1 DEF IInv, TypeOK, OwnIntents
<1>8. (UnmadeIsUnknown /\ Captured)'
    BY <1>1, <1>4 DEF IInv, UnmadeIsUnknown, Unknown, Captured
<1>9. SessionHasItsLink'
    BY <1>1, <1>4 DEF IInv, TypeOK, Unknown, SessionHasItsLink, Invoice, OptIntent
<1> QED
    BY <1>5, <1>6, <1>7, <1>8, <1>9 DEF IInv

\* The fields of the rows, and of updated rows.
LEMMA RowFields ==
    ASSUME TypeOK
    PROVE  /\ \A i \in Invoices : /\ invoice[i].balance \in Nat
                                  /\ invoice[i].intent \in OptIntent
           /\ \A p \in Intents : /\ stripe[p].invoice \in Invoices
                                 /\ stripe[p].original \in Nat
                                 /\ link[p].override \in Nat /\ link[p].last \in Nat
                                 /\ recorded[p] \in Nat
BY DEF TypeOK, Invoice, Intent, Link, Amount

LEMMA CommitStep ==
    ASSUME IInv, NEW s \in Staff, Commit(s)
    PROVE  IInv'
<1> DEFINE d == staff[s]
           p == staff[s].session
           i == staff[s].invoice
           new == [active |-> TRUE, override |-> d.override,
                   last |-> IF d.kind = "qr" THEN d.amount ELSE None]
<1>1. d \in Desk /\ DeskOK(d) /\ d.step = "commit"
    BY DEF IInv, TypeOK, Desks, Commit
<1>2. p \in Intents /\ i \in Invoices /\ d.amount \in Nat /\ d.override \in Nat
    BY <1>1, DeskFields DEF DeskOK, OptIntent
<1>3. /\ stripe[p].status # "unmade" /\ stripe[p].invoice = i
      /\ stripe[p].original = d.amount /\ Unknown(p)
      /\ \A q \in d.retire : q # p /\ stripe[q].invoice = i
    BY <1>1 DEF DeskOK
<1>4. /\ link' = Mint(p, d.retire, new)
      /\ invoice' = [invoice EXCEPT ![i].issued = TRUE, ![i].intent = p]
      /\ pending' \in {p, pending}
      /\ UNCHANGED <<recorded, stripe, events, scanned>>
    BY DEF Commit
<1>5. PICK f \in {Idle, Popup(p)} : staff' = [staff EXCEPT ![s] = f]
    BY DEF Commit, Opens
<1>6. f \in Desk /\ f.step \in {"idle", "waiting"} /\ (f.step = "waiting" => f.session = p)
    BY <1>2, Blanks, PopupType
<1>7. new \in Link /\ new.active /\ new.override = d.override
    BY <1>2 DEF Link, Amount
<1> HIDE DEF new
<1>8. /\ link'[p] = new
      /\ \A q \in Intents : q # p => link'[q] = IF q \in d.retire THEN NoLink ELSE link[q]
      /\ link' \in [Intents -> Link]
    BY <1>2, <1>4, <1>7, Blanks DEF Mint, IInv, TypeOK
<1>9. /\ invoice' \in [Invoices -> Invoice]
      /\ invoice'[i].intent = p
      /\ \A j \in Invoices : j # i => invoice'[j].intent = invoice[j].intent
    BY <1>2, <1>4 DEF IInv, TypeOK, Invoice, OptIntent
<1>10. \A q \in Intents : Unknown(q) /\ q # p => Unknown(q)'
    BY <1>2, <1>4, <1>8, <1>9, Blanks DEF Unknown
<1>11. TypeOK'
    <2>1. failures' \in 0 .. MaxFailures
        BY FailuresGrow DEF Commit, Opens, IInv, TypeOK
    <2> QED
        BY <1>2, <1>4, <1>5, <1>6, <1>8, <1>9, <2>1 DEF IInv, TypeOK, OptIntent
<1>12. Desks'
    <2> SUFFICES ASSUME NEW t \in Staff PROVE DeskOK(staff[t])'
        BY DEF Desks
    <2>1. CASE t = s
        <3>1. staff'[t] = f
            BY <1>5, <2>1 DEF IInv, TypeOK
        <3> QED
            BY <1>2, <1>6, <3>1, IntentsAreSome DEF DeskOK, Asking
    <2>2. CASE t # s
        <3>1. staff'[t] = staff[t] /\ DeskOK(staff[t]) /\ staff[t].session \in OptIntent
            BY <1>5, <2>2, DeskFields DEF IInv, TypeOK, Desks
        <3>2. staff[t].session # None => staff[t].session \in Intents
            BY <3>1 DEF OptIntent
        <3>3. staff[t].step = "commit" => staff[t].session # p
            BY <1>1, <2>2 DEF IInv, OwnIntents
        <3> QED
            BY <1>4, <1>10, <3>1, <3>2, <3>3 DEF DeskOK
    <2> QED
        BY <2>1, <2>2
<1>13. OwnIntents'
    BY <1>5, <1>6 DEF IInv, TypeOK, OwnIntents
<1>14. UnmadeIsUnknown' /\ Captured'
    BY <1>3, <1>4, <1>10 DEF IInv, UnmadeIsUnknown, Captured
<1>15. SessionHasItsLink'
    <2> SUFFICES ASSUME NEW j \in Invoices, invoice'[j].intent # None
                 PROVE  /\ stripe[invoice'[j].intent].invoice = j
                        /\ link'[invoice'[j].intent].active
        BY <1>4 DEF SessionHasItsLink
    <2>1. CASE j = i
        BY <1>3, <1>7, <1>8, <1>9, <2>1
    <2>2. CASE j # i
        <3> DEFINE r == invoice[j].intent
        <3>1. invoice'[j].intent = r /\ r \in Intents
            BY <1>9, <2>2, RowFields DEF IInv, OptIntent
        <3>2. stripe[r].invoice = j /\ link[r].active
            BY <3>1 DEF IInv, SessionHasItsLink
        <3>3. r # p /\ r \notin d.retire
            BY <1>3, <2>2, <3>2
        <3> QED
            BY <1>8, <3>1, <3>2, <3>3
    <2> QED
        BY <2>1, <2>2
<1> QED
    BY <1>11, <1>12, <1>13, <1>14, <1>15 DEF IInv

-----------------------------------------------------------------------------
(* The kiosk, the customer's page, Stripe and the webhook: desks stay.     *)

\* Steps that leave the desks alone, the intents nobody knows unknown, and
\* what is settled with Stripe settled.
LEMMA DesksStay ==
    ASSUME IInv, UNCHANGED staff,
           \A p \in Intents :
               /\ Unknown(p) /\ stripe[p].status # "unmade" =>
                      Unknown(p)' /\ stripe'[p].original = stripe[p].original
               /\ stripe'[p].invoice = stripe[p].invoice
               /\ stripe[p].status # "unmade" => stripe'[p].status # "unmade"
               /\ stripe[p].status \in {"succeeded", "canceled"} =>
                      stripe'[p].status = stripe[p].status
    PROVE  Desks' /\ OwnIntents'
<1>1. Desks'
    <2> SUFFICES ASSUME NEW t \in Staff PROVE DeskOK(staff[t])'
        BY DEF Desks
    <2>1. /\ staff'[t] = staff[t] /\ DeskOK(staff[t])
          /\ staff[t].session \in OptIntent /\ staff[t].retire \subseteq Intents
        BY DeskFields DEF IInv, TypeOK, Desks
    <2>2. staff[t].session # None => staff[t].session \in Intents
        BY <2>1 DEF OptIntent
    <2> QED
        BY <2>1, <2>2 DEF DeskOK
<1>2. OwnIntents'
    BY DEF IInv, OwnIntents
<1> QED
    BY <1>1, <1>2

LEMMA HideStep ==
    ASSUME IInv, Hide
    PROVE  IInv'
<1>1. TypeOK'
    BY DEF Hide, IInv, TypeOK, OptIntent
<1>2. Desks' /\ OwnIntents'
    BY DesksStay DEF Hide, Unknown
<1> QED
    BY <1>1, <1>2 DEF Hide, IInv, UnmadeIsUnknown, Unknown, SessionHasItsLink, Captured

LEMMA ScanStep ==
    ASSUME IInv, NEW p \in Intents, Scan(p)
    PROVE  IInv'
<1> DEFINE q == invoice[stripe[p].invoice].intent
<1>1. q \in Intents /\ ~Unknown(q)
    BY RowFields DEF Scan, IInv, OptIntent, Unknown
<1>2. scanned' = scanned \cup {q}
    BY DEF Scan
<1> HIDE DEF q
<1>3. \A r \in Intents : Unknown(r) => Unknown(r)'
    BY <1>1, <1>2 DEF Scan, Unknown
<1>4. TypeOK'
    BY <1>1, <1>2 DEF Scan, IInv, TypeOK
<1>5. Desks' /\ OwnIntents'
    BY <1>3, DesksStay DEF Scan
<1> QED
    BY <1>3, <1>4, <1>5
    DEF Scan, IInv, UnmadeIsUnknown, SessionHasItsLink, Captured

\* The intent of the invoice gets the amount of the link the customer came by.
LEMMA UpdateSurchargeStep ==
    ASSUME IInv, NEW p \in Intents, NEW x \in 0 .. MaxSurcharge, UpdateSurcharge(p, x)
    PROVE  IInv'
<1> DEFINE q == invoice[stripe[p].invoice].intent
<1>1. q \in Intents /\ stripe[q].status = "open" /\ ~Unknown(q)
    BY RowFields DEF UpdateSurcharge, IInv, OptIntent, Unknown
<1>2. /\ stripe' = [stripe EXCEPT ![q].original = Base(p)]
      /\ link' = [link EXCEPT ![p].last = Base(p) + x]
      /\ UNCHANGED <<invoice, pending, recorded, events, scanned, staff, failures>>
    BY DEF UpdateSurcharge
<1>3. Base(p) \in Nat /\ Base(p) + x \in Nat
    BY RowFields, QrPaymentAssumption DEF Base, IInv
<1> HIDE DEF q
<1>4. /\ stripe' \in [Intents -> Intent] /\ link' \in [Intents -> Link]
      /\ \A r \in Intents :
             /\ stripe'[r].status = stripe[r].status /\ stripe'[r].invoice = stripe[r].invoice
             /\ r # q => stripe'[r].original = stripe[r].original
             /\ link'[r].active = link[r].active
    BY <1>1, <1>2, <1>3 DEF IInv, TypeOK, Intent, Link, Amount
<1>5. TypeOK'
    BY <1>2, <1>4 DEF IInv, TypeOK
<1>6. \A r \in Intents : Unknown(r) <=> Unknown(r)'
    BY <1>2, <1>4 DEF Unknown
<1>7. Desks' /\ OwnIntents'
    BY <1>1, <1>2, <1>4, <1>6, DesksStay
<1>8. UnmadeIsUnknown' /\ Captured'
    BY <1>2, <1>4, <1>6 DEF IInv, UnmadeIsUnknown, Captured
<1>9. SessionHasItsLink'
    BY <1>2, <1>4, RowFields DEF IInv, TypeOK, SessionHasItsLink, OptIntent
<1> QED
    BY <1>5, <1>7, <1>8, <1>9 DEF IInv

LEMMA PayStep ==
    ASSUME IInv, NEW p \in Intents, Pay(p)
    PROVE  IInv'
<1>1. /\ stripe[p].status = "open" /\ ~Unknown(p)
      /\ stripe' = [stripe EXCEPT ![p].status = "succeeded"]
      /\ events' = events \cup {p}
      /\ UNCHANGED <<invoice, link, pending, recorded, scanned, staff, failures>>
    BY DEF Pay, Unknown
<1>2. /\ stripe' \in [Intents -> Intent]
      /\ \A r \in Intents :
             /\ r # p => stripe'[r].status = stripe[r].status
             /\ stripe'[r].kiosk = stripe[r].kiosk /\ stripe'[r].invoice = stripe[r].invoice
             /\ stripe'[r].original = stripe[r].original
      /\ stripe'[p].status = "succeeded"
    BY <1>1 DEF IInv, TypeOK, Intent
<1>3. TypeOK'
    BY <1>1, <1>2 DEF IInv, TypeOK
<1>4. \A r \in Intents : Unknown(r) => Unknown(r)'
    BY <1>1 DEF Unknown
<1>5. Desks' /\ OwnIntents'
    BY <1>1, <1>2, <1>4, DesksStay
<1>6. UnmadeIsUnknown' /\ Captured'
    BY <1>1, <1>2, <1>4 DEF IInv, UnmadeIsUnknown, Captured
<1>7. SessionHasItsLink'
    BY <1>1, <1>2, RowFields DEF IInv, TypeOK, SessionHasItsLink, OptIntent
<1> QED
    BY <1>3, <1>5, <1>6, <1>7 DEF IInv

\* Recording the payment of an intent Stripe has captured.
LEMMA RecordStep ==
    ASSUME IInv, NEW p \in Intents, Record(p), recorded[p] = 0,
           stripe[p].status = "succeeded", ~Unknown(p),
           events' \subseteq events, UNCHANGED <<stripe, scanned, staff, failures>>
    PROVE  IInv'
<1> DEFINE i == stripe[p].invoice
           paid == IF stripe[p].original < invoice[i].balance
                   THEN stripe[p].original ELSE invoice[i].balance
<1>1. i \in Invoices /\ paid \in Nat /\ invoice[i].balance - paid \in Nat
    BY RowFields DEF IInv
<1>2. /\ recorded' = [recorded EXCEPT ![p] = paid]
      /\ invoice' = [invoice EXCEPT ![i].balance = @ - paid, ![i].intent = None]
      /\ pending' \in {None, pending}
      /\ link' = [q \in Intents |-> IF stripe[q].invoice = i THEN NoLink ELSE link[q]]
    BY IntentsAreSome DEF Record
<1> HIDE DEF paid
<1>3. /\ invoice' \in [Invoices -> Invoice]
      /\ invoice'[i].intent = None
      /\ \A j \in Invoices : j # i => invoice'[j].intent = invoice[j].intent
    BY <1>1, <1>2 DEF IInv, TypeOK, Invoice, OptIntent, Amount
<1>4. /\ link' \in [Intents -> Link]
      /\ \A q \in Intents : IF stripe[q].invoice = i THEN ~link'[q].active
                             ELSE link'[q] = link[q]
    BY <1>2, Blanks DEF IInv, TypeOK
<1>5. /\ recorded' \in [Intents -> Nat]
      /\ \A q \in Intents : q # p => recorded'[q] = recorded[q]
    BY <1>1, <1>2 DEF IInv, TypeOK, Amount
<1>6. TypeOK'
    BY <1>2, <1>3, <1>4, <1>5 DEF IInv, TypeOK, OptIntent, Amount
<1>7. \A q \in Intents : Unknown(q) => Unknown(q)'
    BY <1>3, <1>4, <1>5, IntentsAreSome DEF Unknown
<1>8. Desks' /\ OwnIntents'
    BY <1>7, DesksStay
<1>9. UnmadeIsUnknown' /\ Captured'
    BY <1>5, <1>7 DEF IInv, UnmadeIsUnknown, Captured
<1>10. SessionHasItsLink'
    BY <1>1, <1>3, <1>4, RowFields DEF IInv, SessionHasItsLink, OptIntent
<1> QED
    BY <1>6, <1>8, <1>9, <1>10 DEF IInv

LEMMA WebhookStep ==
    ASSUME IInv, NEW p \in Intents, Webhook(p)
    PROVE  IInv'
<1>1. stripe[p].status = "succeeded" /\ ~Unknown(p) /\ events' \subseteq events
    BY DEF Webhook, IInv, Captured, Unknown
<1>2. CASE Recordable(p) /\ Record(p)
    BY <1>1, <1>2, RecordStep DEF Webhook, Recordable
<1>3. CASE UNCHANGED <<invoice, link, pending, recorded>>
    <2>1. UNCHANGED <<stripe, scanned, staff, failures>>
        BY DEF Webhook
    <2>2. TypeOK'
        BY <1>1, <1>3, <2>1 DEF IInv, TypeOK
    <2>3. \A q \in Intents : Unknown(q) => Unknown(q)'
        BY <1>1, <1>3, <2>1 DEF Unknown
    <2>4. Desks' /\ OwnIntents'
        BY <2>1, <2>3, DesksStay
    <2>5. (UnmadeIsUnknown /\ SessionHasItsLink /\ Captured)'
        BY <1>1, <1>3, <2>1, <2>3 DEF IInv, UnmadeIsUnknown, SessionHasItsLink, Captured
    <2> QED
        BY <2>2, <2>4, <2>5 DEF IInv
<1> QED
    BY <1>2, <1>3 DEF Webhook

LEMMA ConfirmStep ==
    ASSUME IInv, NEW p \in Intents, Confirm(p)
    PROVE  IInv'
<1> DEFINE q == invoice[stripe[p].invoice].intent
<1>1. /\ q \in Intents /\ ~Unknown(q)
      /\ stripe[q].status = "succeeded" /\ Record(q) /\ recorded[q] = 0
      /\ UNCHANGED <<stripe, events, scanned, staff, failures>>
    BY RowFields DEF Confirm, Recordable, IInv, OptIntent, Unknown
<1> HIDE DEF q
<1> QED
    BY <1>1, RecordStep

\* Cash changes a balance only.
LEMMA CashStep ==
    ASSUME IInv, NEW i \in Invoices, NEW amount \in 1 .. Total, Cash(i, amount)
    PROVE  IInv'
<1>1. /\ amount <= invoice[i].balance
      /\ invoice' = [invoice EXCEPT ![i].balance = @ - amount]
      /\ UNCHANGED <<link, pending, recorded, stripe, events, scanned, staff, failures>>
    BY DEF Cash
<1>2. invoice[i].balance - amount \in Nat
    BY <1>1, RowFields, QrPaymentAssumption DEF IInv
<1>3. /\ invoice' \in [Invoices -> Invoice]
      /\ \A j \in Invoices : invoice'[j].intent = invoice[j].intent
    BY <1>1, <1>2 DEF IInv, TypeOK, Invoice, Amount
<1>4. TypeOK'
    BY <1>1, <1>3 DEF IInv, TypeOK
<1>5. \A q \in Intents : Unknown(q) => Unknown(q)'
    BY <1>1, <1>3 DEF Unknown
<1>6. Desks' /\ OwnIntents'
    BY <1>1, <1>5, DesksStay
<1>7. UnmadeIsUnknown' /\ Captured'
    BY <1>1, <1>5 DEF IInv, UnmadeIsUnknown, Captured
<1>8. SessionHasItsLink'
    BY <1>1, <1>3 DEF IInv, SessionHasItsLink
<1> QED
    BY <1>4, <1>6, <1>7, <1>8 DEF IInv

-----------------------------------------------------------------------------
(* The theorems.                                                           *)

LEMMA InitIInv == Init => IInv
<1> SUFFICES ASSUME Init PROVE IInv
    OBVIOUS
<1>5. /\ invoice \in [Invoices -> Invoice]
      /\ \A i \in Invoices : invoice[i].intent = None
    BY QrPaymentAssumption DEF Init, Invoice, OptIntent, Amount
<1>1. TypeOK
    BY <1>5, Blanks, QrPaymentAssumption DEF Init, TypeOK, OptIntent, Amount
<1>2. Desks /\ OwnIntents
    BY Blanks DEF Init, Desks, DeskOK, OwnIntents, Asking
<1>3. UnmadeIsUnknown
    BY <1>5, Blanks, IntentsAreSome DEF Init, UnmadeIsUnknown, Unknown
<1>4. SessionHasItsLink /\ Captured
    BY <1>5 DEF Init, SessionHasItsLink, Captured
<1> QED
    BY <1>1, <1>2, <1>3, <1>4 DEF IInv

LEMMA NextIInv == IInv /\ [Next]_vars => IInv'
<1> SUFFICES ASSUME IInv, [Next]_vars PROVE IInv'
    OBVIOUS
<1>1. ASSUME NEW s \in Staff, Request(s) PROVE IInv'
    BY <1>1, AskNewStep, AskLinkStep, AskQrStep, LookStep, ReuseStep, CancelOldStep,
       CommitStep, FailStep, CreateIntentStep DEF Request
<1>2. ASSUME NEW p \in Intents, Customer(p) PROVE IInv'
    BY <1>2, ScanStep, PayStep, ConfirmStep, UpdateSurchargeStep DEF Customer
<1>3. CASE UNCHANGED vars
    <2>1. UNCHANGED <<invoice, link, pending, recorded, stripe, events, scanned, staff,
                      failures>>
        BY <1>3 DEF vars
    <2>2. TypeOK' /\ Desks' /\ OwnIntents'
        BY <2>1, DesksStay DEF IInv, TypeOK, Unknown
    <2> QED
        BY <2>1, <2>2
        DEF IInv, UnmadeIsUnknown, Unknown, SessionHasItsLink, Captured
<1> QED
    BY <1>1, <1>2, <1>3, PollStep, ClosePopupStep, HideStep, WebhookStep, CashStep DEF Next

\* The strengthened invariant holds of every behaviour.
THEOREM SpecIInv == Spec => []IInv
BY InitIInv, NextIInv, PTL DEF Spec

\* Every variable has its type; no balance is ever below zero.
THEOREM QrTypes == Spec => []TypeOK
<1>1. IInv => TypeOK
    BY DEF IInv
<1> QED
    BY <1>1, SpecIInv, PTL

\* The session an invoice offers is its own and its link works, however many requests and
\* webhooks overlap.
THEOREM QrSessionHasItsLink == Spec => []SessionHasItsLink
<1>1. IInv => SessionHasItsLink
    BY DEF IInv
<1> QED
    BY <1>1, SpecIInv, PTL

\* A popup says "received" of captured intents only, and "superseded" of
\* canceled ones only.
THEOREM QrPopupsTellTheTruth == Spec => []PopupsTellTheTruth
<1>1. IInv => PopupsTellTheTruth
    BY DEF IInv, Desks, DeskOK, PopupsTellTheTruth
<1> QED
    BY <1>1, SpecIInv, PTL

-----------------------------------------------------------------------------
(* One link at a time.                                                     *)

\* No two requests make a link for one invoice at the same time.
MintsApart ==
    \A s, t \in Staff :
        /\ staff[s].step = "commit" /\ staff[t].step = "commit"
        /\ staff[s].invoice = staff[t].invoice
        => s = t

\* A request retires every link its invoice still has.
Retires ==
    \A s \in Staff : staff[s].step = "commit" =>
        ActiveLinks(staff[s].invoice) \subseteq staff[s].retire

\* No link begins to work, no offer changes and no request starts to make a link.
LEMMA QuietStep ==
    ASSUME OffersAreCurrent, Retires,
           \A p \in Intents : link'[p].active =>
               /\ link[p].active /\ link'[p].override = link[p].override
               /\ stripe'[p].invoice = stripe[p].invoice
               /\ stripe'[p].original = stripe[p].original
               /\ invoice'[stripe[p].invoice].intent = invoice[stripe[p].invoice].intent,
           \A s \in Staff : staff'[s].step = "commit" => staff'[s] = staff[s]
    PROVE  OffersAreCurrent' /\ Retires'
<1>1. OffersAreCurrent'
    BY DEF OffersAreCurrent
<1>2. Retires'
    BY DEF Retires, ActiveLinks
<1> QED
    BY <1>1, <1>2

\* The same of a step of desk s, which does not end with a request about to commit.
LEMMA QuietDesk ==
    ASSUME IInv, OffersAreCurrent, Retires, NEW s \in Staff, NEW d,
           staff' = [staff EXCEPT ![s] = d], d.step # "commit",
           UNCHANGED <<invoice, link>>,
           \A p \in Intents : stripe'[p].invoice = stripe[p].invoice
                              /\ stripe'[p].original = stripe[p].original
    PROVE  OffersAreCurrent' /\ Retires'
<1>1. \A t \in Staff : staff'[t].step = "commit" => staff'[t] = staff[t]
    BY DEF IInv, TypeOK
<1> QED
    BY <1>1, QuietStep

LEMMA RequestQuiet ==
    ASSUME IInv, OffersAreCurrent, Retires, NEW s \in Staff,
           \/ \E i \in Invoices : AskNew(s, i) \/ AskLink(s, i)
           \/ \E i \in Invoices, part \in 0 .. Total : AskQr(s, i, part)
           \/ Look(s) \/ Reuse(s) \/ CancelOld(s) \/ Fail(s) \/ Poll(s) \/ ClosePopup(s)
    PROVE  OffersAreCurrent' /\ Retires'
<1>1. ASSUME NEW step \in {"create", "look"}, NEW kind, NEW i, NEW amount, NEW override,
             NEW old, Ask(s, step, kind, i, amount, override, old), OnlyStaff
      PROVE  OffersAreCurrent' /\ Retires'
    <2> DEFINE d == [Idle EXCEPT !.step = step, !.kind = kind, !.invoice = i,
                                 !.amount = amount, !.override = override, !.old = old]
    <2>1. staff' = [staff EXCEPT ![s] = d] /\ d.step # "commit"
        BY <1>1 DEF Ask, Idle
    <2> HIDE DEF d
    <2> QED
        BY <1>1, <2>1, QuietDesk DEF OnlyStaff
<1>2. ASSUME NEW step \in Steps \ {"commit"}, To(s, step), UNCHANGED <<invoice, link, stripe>>
      PROVE  OffersAreCurrent' /\ Retires'
    <2> DEFINE d == [staff[s] EXCEPT !.step = step]
    <2>1. staff' = [staff EXCEPT ![s] = d] /\ d.step # "commit"
        BY <1>2, StepFields DEF To, IInv, TypeOK
    <2> HIDE DEF d
    <2> QED
        BY <1>2, <2>1, QuietDesk
<1>3. ASSUME staff' = [staff EXCEPT ![s] = Idle], UNCHANGED <<invoice, link, stripe>>
      PROVE  OffersAreCurrent' /\ Retires'
    BY <1>3, Blanks, QuietDesk
<1>4. ASSUME NEW i \in Invoices, AskNew(s, i) \/ AskLink(s, i)
      PROVE  OffersAreCurrent' /\ Retires'
    BY <1>1, <1>4 DEF AskNew, AskLink
<1>5. ASSUME NEW i \in Invoices, NEW part \in 0 .. Total, AskQr(s, i, part)
      PROVE  OffersAreCurrent' /\ Retires'
    BY <1>1, <1>5 DEF AskQr
<1>6. CASE Look(s)
    BY <1>2, <1>3, <1>6 DEF Look, OnlyStaff, Steps
<1>7. CASE Reuse(s)
    <2>1. staff[s].old \in Intents
        BY <1>7, DeskFields DEF Reuse, IInv, TypeOK, Desks, DeskOK, OptIntent
    <2>2. PICK f \in {Idle, Popup(staff[s].old)} : staff' = [staff EXCEPT ![s] = f]
        BY <1>7 DEF Reuse, Opens
    <2>3. f.step # "commit"
        BY <2>1, <2>2, Blanks, PopupType
    <2> QED
        BY <1>7, <2>2, <2>3, QuietDesk DEF Reuse
<1>8. CASE CancelOld(s)
    <2> DEFINE d == [staff[s] EXCEPT !.step = "create", !.old = None]
    <2>1. staff' = [staff EXCEPT ![s] = d] /\ d.step # "commit"
        BY <1>8 DEF CancelOld, IInv, TypeOK, Desk
    <2>2. \A p \in Intents : stripe'[p].invoice = stripe[p].invoice
                             /\ stripe'[p].original = stripe[p].original
        BY <1>8 DEF CancelOld, IInv, TypeOK, Intent
    <2> HIDE DEF d
    <2> QED
        BY <1>8, <2>1, <2>2, QuietDesk DEF CancelOld
<1>9. CASE Fail(s) \/ ClosePopup(s)
    BY <1>3, <1>9 DEF Fail, ClosePopup
<1>10. CASE Poll(s)
    BY <1>2, <1>10 DEF Poll, Steps
<1> QED
    BY <1>4, <1>5, <1>6, <1>7, <1>8, <1>9, <1>10

\* A request that has just set links to inactive has all of its invoice's.
LEMMA CreateIntentCurrent ==
    ASSUME IInv, OffersAreCurrent, Retires, NEW s \in Staff, NEW p \in Intents,
           CreateIntent(s, p)
    PROVE  OffersAreCurrent' /\ Retires'
<1> DEFINE i == staff[s].invoice
           d == [staff[s] EXCEPT !.step = "commit", !.session = p, !.retire = ActiveLinks(i)]
<1>1. ~link[p].active /\ UNCHANGED <<invoice, link>>
    BY DEF CreateIntent, Fresh, IInv, UnmadeIsUnknown, Unknown
<1>2. \A q \in Intents : q # p => stripe'[q] = stripe[q]
    BY DEF CreateIntent, IInv, TypeOK
<1>3. staff'[s] = d /\ \A t \in Staff : t # s => staff'[t] = staff[t]
    BY DEF CreateIntent, IInv, TypeOK
<1>4. d.invoice = i /\ d.retire = ActiveLinks(i)
    BY DEF IInv, TypeOK, Desk
<1>5. \A q \in Intents : link'[q].active => link[q].active /\ stripe'[q] = stripe[q]
    BY <1>1, <1>2
<1>6. OffersAreCurrent'
    BY <1>1, <1>2 DEF OffersAreCurrent
<1>7. Retires'
    <2> HIDE DEF d
    <2> SUFFICES ASSUME NEW t \in Staff, staff'[t].step = "commit"
                 PROVE  (ActiveLinks(staff[t].invoice) \subseteq staff[t].retire)'
        BY DEF Retires
    <2>2. CASE t = s
        BY <1>1, <1>3, <1>4, <1>5, <2>2 DEF ActiveLinks
    <2>3. CASE t # s
        BY <1>1, <1>3, <1>5, <2>3 DEF Retires, ActiveLinks
    <2> QED
        BY <2>2, <2>3
<1> QED
    BY <1>6, <1>7

\* A request that commits alone leaves its invoice with its own link.
LEMMA CommitCurrent ==
    ASSUME IInv, OffersAreCurrent, Retires, MintsApart, NEW s \in Staff, Commit(s)
    PROVE  OffersAreCurrent' /\ Retires'
<1> DEFINE d == staff[s]
           p == staff[s].session
           i == staff[s].invoice
           new == [active |-> TRUE, override |-> d.override,
                   last |-> IF d.kind = "qr" THEN d.amount ELSE None]
<1>1. d \in Desk /\ DeskOK(d) /\ d.step = "commit"
    BY DEF IInv, TypeOK, Desks, Commit
<1>2. /\ p \in Intents /\ i \in Invoices
      /\ stripe[p].invoice = i /\ stripe[p].original = d.amount
      /\ d.override # None => d.amount = d.override
    BY <1>1, DeskFields DEF DeskOK, OptIntent, Asking
<1>3. /\ link' = Mint(p, d.retire, new)
      /\ invoice' = [invoice EXCEPT ![i].issued = TRUE, ![i].intent = p]
      /\ UNCHANGED stripe
    BY DEF Commit
<1>4. new.override = d.override
    OBVIOUS
<1>5. PICK f \in {Idle, Popup(p)} : staff' = [staff EXCEPT ![s] = f]
    BY DEF Commit, Opens
<1>6. f.step # "commit"
    BY <1>2, <1>5, Blanks, PopupType
<1> HIDE DEF new
<1>7. link'[p] = new
    BY <1>2, <1>3 DEF Mint
<1>8. \A q \in Intents : q # p =>
          link'[q] = IF q \in d.retire THEN NoLink ELSE link[q]
    BY <1>3 DEF Mint
<1>9. \A q \in Intents : q # p /\ link'[q].active =>
          link'[q] = link[q] /\ stripe[q].invoice # i
    BY <1>1, <1>8, Blanks DEF Retires, ActiveLinks
<1>10. /\ invoice'[i].intent = p
       /\ \A j \in Invoices : j # i => invoice'[j].intent = invoice[j].intent
    BY <1>2, <1>3 DEF IInv, TypeOK, Invoice
<1>11. OffersAreCurrent'
    <2> SUFFICES ASSUME NEW q \in Intents, link'[q].active
                 PROVE  /\ invoice'[stripe[q].invoice].intent = q
                        /\ link'[q].override # None => stripe[q].original = link'[q].override
        BY <1>3 DEF OffersAreCurrent
    <2>1. CASE q = p
        BY <1>2, <1>4, <1>7, <1>10, <2>1
    <2>2. CASE q # p
        BY <1>9, <1>10, <2>2, RowFields DEF IInv, OffersAreCurrent
    <2> QED
        BY <2>1, <2>2
<1>12. Retires'
    <2> SUFFICES ASSUME NEW t \in Staff, staff'[t].step = "commit"
                 PROVE  (ActiveLinks(staff[t].invoice) \subseteq staff[t].retire)'
        BY DEF Retires
    <2>1. t # s /\ staff'[t] = staff[t]
        BY <1>5, <1>6 DEF IInv, TypeOK
    <2>2. staff[t].invoice # i
        BY <1>1, <2>1 DEF MintsApart
    <2>3. \A q \in Intents : link'[q].active /\ stripe[q].invoice = staff[t].invoice
                             => link[q].active
        BY <1>2, <1>9, <2>2
    <2> QED
        BY <1>3, <2>1, <2>3 DEF Retires, ActiveLinks
<1> QED
    BY <1>11, <1>12

\* The link the customer came by is that of the invoice's intent.
LEMMA UpdateSurchargeCurrent ==
    ASSUME IInv, OffersAreCurrent, Retires, NEW p \in Intents,
           NEW x \in 0 .. MaxSurcharge, UpdateSurcharge(p, x)
    PROVE  OffersAreCurrent' /\ Retires'
<1>1. /\ link[p].active /\ invoice[stripe[p].invoice].intent = p
      /\ stripe' = [stripe EXCEPT ![p].original = Base(p)]
      /\ link' = [link EXCEPT ![p].last = Base(p) + x]
      /\ UNCHANGED <<invoice, staff>>
    BY DEF UpdateSurcharge, OffersAreCurrent
<1>2. \A r \in Intents :
          /\ stripe'[r].invoice = stripe[r].invoice
          /\ r # p => stripe'[r].original = stripe[r].original
          /\ link'[r].active = link[r].active /\ link'[r].override = link[r].override
    BY <1>1 DEF IInv, TypeOK, Intent, Link
<1>3. stripe'[p].original = Base(p)
    BY <1>1 DEF IInv, TypeOK, Intent
<1>4. OffersAreCurrent'
    BY <1>1, <1>2, <1>3 DEF OffersAreCurrent, Base
<1>5. Retires'
    BY <1>1, <1>2 DEF Retires, ActiveLinks
<1> QED
    BY <1>4, <1>5

\* Recording a payment leaves its invoice without links.
LEMMA RecordCurrent ==
    ASSUME IInv, OffersAreCurrent, Retires, NEW p \in Intents, Record(p),
           UNCHANGED <<stripe, staff>>
    PROVE  OffersAreCurrent' /\ Retires'
<1> DEFINE i == stripe[p].invoice
<1>1. \A q \in Intents : link'[q].active => stripe[q].invoice # i /\ link'[q] = link[q]
    BY Blanks DEF Record
<1>2. \A j \in Invoices : j # i => invoice'[j].intent = invoice[j].intent
    BY DEF Record, IInv, TypeOK
<1> QED
    BY <1>1, <1>2, RowFields, QuietStep DEF IInv

LEMMA NextCurrent ==
    ASSUME IInv, OffersAreCurrent, Retires, MintsApart, [Next]_vars
    PROVE  OffersAreCurrent' /\ Retires'
<1>1. ASSUME NEW s \in Staff, Request(s) \/ Poll(s) \/ ClosePopup(s)
      PROVE  OffersAreCurrent' /\ Retires'
    BY <1>1, RequestQuiet, CreateIntentCurrent, CommitCurrent DEF Request
<1>2. ASSUME NEW p \in Intents, Customer(p) \/ Webhook(p)
      PROVE  OffersAreCurrent' /\ Retires'
    <2>1. CASE Scan(p) \/ (Webhook(p) /\ ~Recordable(p))
        BY <2>1, QuietStep DEF Scan, Webhook
    <2>2. CASE Pay(p)
        <3>1. \A q \in Intents : /\ stripe'[q].invoice = stripe[q].invoice
                                 /\ stripe'[q].original = stripe[q].original
            BY <2>2 DEF Pay, IInv, TypeOK, Intent
        <3> QED
            BY <2>2, <3>1, QuietStep DEF Pay
    <2>3. CASE Webhook(p) /\ Recordable(p)
        BY <2>3, RecordCurrent DEF Webhook
    <2>4. CASE Confirm(p)
        <3> DEFINE q == invoice[stripe[p].invoice].intent
        <3>1. q \in Intents /\ Record(q) /\ UNCHANGED <<stripe, staff>>
            BY <2>4, RowFields DEF Confirm, IInv, OptIntent
        <3> HIDE DEF q
        <3> QED
            BY <3>1, RecordCurrent
    <2>5. ASSUME NEW x \in 0 .. MaxSurcharge, UpdateSurcharge(p, x)
          PROVE  OffersAreCurrent' /\ Retires'
        BY <2>5, UpdateSurchargeCurrent
    <2> QED
        BY <1>2, <2>1, <2>2, <2>3, <2>4, <2>5 DEF Customer
<1>3. ASSUME NEW i \in Invoices, NEW amount \in 1 .. Total, Cash(i, amount)
      PROVE  OffersAreCurrent' /\ Retires'
    <2>1. \A j \in Invoices : invoice'[j].intent = invoice[j].intent
        BY <1>3 DEF Cash, IInv, TypeOK, Invoice
    <2> QED
        BY <1>3, <2>1, RowFields, QuietStep DEF Cash, IInv
<1>4. CASE Hide
    BY <1>4, QuietStep DEF Hide
<1>5. CASE UNCHANGED vars
    BY <1>5, QuietStep DEF vars
<1> QED
    BY <1>1, <1>2, <1>3, <1>4, <1>5 DEF Next

\* While no two requests make a link for one invoice at the same time, a working link is
\* the one of its invoice's intent, and a partial payment's intent is for the part.
THEOREM QrOffersAreCurrent == Spec /\ []MintsApart => []OffersAreCurrent
<1>1. Init => OffersAreCurrent /\ Retires
    BY Blanks DEF Init, OffersAreCurrent, Retires
<1>2. IInv /\ OffersAreCurrent /\ Retires /\ MintsApart /\ [Next]_vars
      => OffersAreCurrent' /\ Retires'
    BY NextCurrent
<1> QED
    BY <1>1, <1>2, SpecIInv, PTL DEF Spec

=============================================================================
