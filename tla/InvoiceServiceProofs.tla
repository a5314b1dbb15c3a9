------------------------ MODULE InvoiceServiceProofs ------------------------
(***************************************************************************)
(* What holds of InvoiceService for any number of invoices, intents and    *)
(* sessions, however their requests overlap.                               *)
(***************************************************************************)
EXTENDS InvoiceService, TLAPS

InFlight(s) == req[s].phase # "idle"
Holds(s)    == req[s].phase = "held"
Captures(s) == req[s].op \in {"webhook", "confirm"}

\* A slot that holds the lock of a row is the one the row names, so two slots
\* never hold the same row.
LockInv ==
    \A s \in Slots :
        /\ InFlight(s) => req[s].inv \in Invoices
        /\ Holds(s) => lock[req[s].inv] = s
        /\ ~InFlight(s) => req[s] = Idle

\* An intent belongs to one invoice from the moment it is opened, and the
\* invoice's row only names intents of its own.
IntentInv ==
    /\ \A k \in Intents : intent[k].st # "none" => intent[k].inv \in Invoices
    /\ \A i \in Invoices : row[i].pi # NoIntent =>
          intent[row[i].pi].inv = i /\ intent[row[i].pi].st # "none"
    /\ \A s \in Slots : InFlight(s) /\ Captures(s) =>
          /\ req[s].k \in Intents
          /\ intent[req[s].k].inv = req[s].inv
          /\ intent[req[s].k].st # "none"

\* A slot that is about to record an intent holds the row of its invoice and
\* has found it unrecorded, with a positive amount to record.
CaptureInv ==
    /\ OneCapturePerIntent
    /\ \A s \in Slots : Holds(s) /\ Captures(s) =>
          /\ intent[req[s].k].captures = 0
          /\ Lesser(req[s].amt, req[s].snap.due) > 0

\* The copy a webhook writes from is the committed, still payable row.
FreshInv ==
    \A s \in Slots : InFlight(s) /\ req[s].op = "webhook" =>
        Holds(s) /\ req[s].snap = row[req[s].inv] /\ Payable(req[s].snap)

IInv == TypeOK /\ LockInv /\ IntentInv /\ CaptureInv /\ FreshInv

-----------------------------------------------------------------------------
(* Rows *)

LEMMA BlankRowType == BlankRow \in Row /\ ~Exists(BlankRow)
BY ConstantsAssumption DEF BlankRow, Row, RowStatus, Status, Exists

LEMMA NewRowType ==
    ASSUME NEW st \in Status, NEW n \in Nat, NEW total \in Nat,
           NEW k \in Intents \cup {NoIntent}
    PROVE  NewRow(st, n, total, k) \in Row
BY DEF NewRow, Row, RowStatus

\* What a session flushes is a row when the committed row, the loaded copy and
\* the session's copy are.
LEMMA WrittenType ==
    ASSUME NEW c \in Row, NEW l \in Row, NEW n \in Row
    PROVE  Written(c, l, n) \in Row
BY DEF Written, Column, Row

LEMMA StatusTypes ==
    /\ Status \subseteq RowStatus
    /\ {"draft", "issued", "partially_paid", "overdue", "paid", "voided", "refunded",
        "partially_refunded"} = Status
BY DEF RowStatus, Status

LEMMA SettledType ==
    ASSUME NEW r \in Row, NEW amount \in Int
    PROVE  Settled(r, amount) \in Row
<1> DEFINE st == IF r.due = amount THEN "paid" ELSE "partially_paid"
<1>1. st \in RowStatus
  BY StatusTypes
<1>2. r.paid + amount \in Int /\ r.due - amount \in Int
  BY DEF Row
<1> HIDE DEF st
<1> QED BY <1>1, <1>2 DEF Settled, Row, st

LEMMA CapturedType ==
    ASSUME NEW r \in Row, NEW amount \in Nat
    PROVE  Captured(r, amount) \in Row
<1>1. Lesser(amount, r.due) \in Int
  BY DEF Lesser, Row
<1> DEFINE x == Settled(r, Lesser(amount, r.due))
<1>2. x \in Row
  BY <1>1, SettledType
<1> HIDE DEF x
<1>3. [x EXCEPT !.pi = NoIntent] \in Row
  BY <1>2 DEF Row
<1> QED BY <1>3 DEF Captured, x

LEMMA RefundedType ==
    ASSUME NEW r \in Row, NEW amount \in Nat
    PROVE  Refunded(r, amount) \in Row
<1> DEFINE st == IF r.paid - amount <= 0 THEN "refunded"
                 ELSE IF r.paid - amount < r.total THEN "partially_refunded"
                 ELSE "paid"
           p  == AtLeastZero(r.paid - amount)
<1>1. st \in RowStatus
  BY StatusTypes
<1>2. p \in Int
  BY DEF Row, AtLeastZero
<1> HIDE DEF st, p
<1>3. [r EXCEPT !.paid = p, !.status = st] \in Row
  BY <1>1, <1>2 DEF Row
<1>4. Refunded(r, amount) = [r EXCEPT !.paid = p, !.status = st]
  BY DEF Refunded, p, st, Row
<1> QED BY <1>3, <1>4

LEMMA CreditedType ==
    ASSUME NEW r \in Row, NEW amount \in Nat
    PROVE  Credited(r, amount) \in Row
<1> DEFINE left == AtLeastZero(r.due - amount)
           st   == IF left = 0 THEN "paid"
                   ELSE IF r.paid > 0 THEN "partially_paid" ELSE r.status
<1>1. left \in Int
  BY DEF Row, AtLeastZero
<1>2. st \in RowStatus
  BY StatusTypes DEF Row
<1> HIDE DEF st
<1>3. [r EXCEPT !.due = left, !.status = st] \in Row
  BY <1>1, <1>2 DEF Row
<1>4. Credited(r, amount) = [r EXCEPT !.due = left, !.status = st]
  BY DEF Credited, st, Row
<1> QED BY <1>3, <1>4

LEMMA IssuedType ==
    ASSUME NEW r \in Row, NEW n \in Nat, NEW k \in Intents \cup {NoIntent}
    PROVE  Issued(r, n, k) \in Row
<1> DEFINE p == IF k = NoIntent THEN r.pi ELSE k
<1>1. p \in Intents \cup {NoIntent}
  BY DEF Row
<1> HIDE DEF p
<1>2. [r EXCEPT !.status = "issued", !.number = n, !.pi = p] \in Row
  BY <1>1, StatusTypes DEF Row
<1>3. Issued(r, n, k) = [r EXCEPT !.status = "issued", !.number = n, !.pi = p]
  BY DEF Issued, p, Row
<1> QED BY <1>2, <1>3

LEMMA RecalculatedType ==
    ASSUME NEW r \in Row, NEW total \in Nat
    PROVE  Recalculated(r, total) \in Row
<1> DEFINE left == total - r.paid
<1>1. left \in Int
  BY DEF Row
<1> HIDE DEF left
<1>2. [r EXCEPT !.total = total, !.due = left] \in Row
  BY <1>1 DEF Row
<1> QED BY <1>2 DEF Recalculated, left

LEMMA ColumnType ==
    ASSUME NEW r \in Row, NEW k \in Intents \cup {NoIntent}, NEW st \in Status
    PROVE  [r EXCEPT !.pi = k] \in Row /\ [r EXCEPT !.status = st] \in Row
BY StatusTypes DEF Row

-----------------------------------------------------------------------------
(* The steps of a session *)

LEMMA IdleType == Idle \in Request
BY BlankRowType DEF Idle, Request, Phase

LEMMA LoadType ==
    ASSUME TypeOK, NEW s \in Slots, NEW op \in AllOps, NEW i \in Invoices,
           NEW amount \in Nat, NEW k \in Intents \cup {NoIntent},
           Load(s, op, i, amount, k), begun' \in Nat
    PROVE  TypeOK'
<1>1. [op |-> op, inv |-> i, amt |-> amount, k |-> k, snap |-> row[i],
       phase |-> "read"] \in Request
  BY DEF TypeOK, Request, Phase
<1>2. req' \in [Slots -> Request]
  BY <1>1 DEF Load, TypeOK
<1> QED BY <1>2 DEF Load, TypeOK, tables

LEMMA PhaseType ==
    ASSUME NEW r \in Request, NEW p \in Phase, NEW k \in Intents \cup {NoIntent}
    PROVE  /\ [r EXCEPT !.phase = p] \in Request
           /\ [r EXCEPT !.phase = p, !.k = k] \in Request
BY DEF Request

LEMMA CommitType ==
    ASSUME TypeOK, NEW s \in Slots, NEW op, NEW new \in Row, Commit(s, op, new)
    PROVE  /\ row' \in [Invoices -> Row]
           /\ lock' \in [Invoices -> Slots \cup {NoSlot}]
           /\ req' \in [Slots -> Request]
           /\ begun' \in Nat
<1>1. req[s] \in Request
  BY DEF TypeOK
<1>2. \A i \in Invoices : Written(row[i], req[s].snap, new) \in Row
  BY <1>1, WrittenType DEF TypeOK, Request
<1>3. row' \in [Invoices -> Row]
  BY <1>2 DEF Commit, TypeOK
<1>4. req' \in [Slots -> Request]
  BY IdleType DEF Commit, TypeOK
<1>5. lock' \in [Invoices -> Slots \cup {NoSlot}]
  BY DEF Commit, TypeOK
<1> QED BY <1>3, <1>4, <1>5 DEF Commit, TypeOK

LEMMA BooksType ==
    ASSUME TypeOK, NEW i \in Invoices, NEW amount \in Nat
    PROVE  /\ [books EXCEPT ![i].gross = @ + amount] \in [Invoices -> Books]
           /\ [books EXCEPT ![i].refunded = @ + amount] \in [Invoices -> Books]
           /\ [books EXCEPT ![i].credited = @ + amount] \in [Invoices -> Books]
<1>1. ASSUME NEW b \in Books
      PROVE  /\ [b EXCEPT !.gross = b.gross + amount] \in Books
             /\ [b EXCEPT !.refunded = b.refunded + amount] \in Books
             /\ [b EXCEPT !.credited = b.credited + amount] \in Books
  BY DEF Books
<1>2. books \in [Invoices -> Books]
  BY DEF TypeOK
<1> QED BY <1>1, <1>2

LEMMA OpenedType ==
    ASSUME TypeOK, NEW k \in Intents \cup {NoIntent}, NEW i \in Invoices,
           NEW amount \in Nat, Opened(k, i, amount)
    PROVE  intent' \in [Intents -> Intent]
<1>1. [NoIntentYet EXCEPT !.inv = i, !.amount = amount, !.st = "open"] \in Intent
  BY DEF NoIntentYet, Intent
<1> QED BY <1>1 DEF Opened, TypeOK

-----------------------------------------------------------------------------
(* Every step keeps the types *)

LEMMA RequestType ==
    ASSUME TypeOK, NEW s \in Slots
    PROVE  /\ req[s] \in Request
           /\ req[s].amt \in Nat
           /\ req[s].snap \in Row
           /\ req[s].snap.due \in Int
           /\ req[s].k \in Intents \cup {NoIntent}
BY DEF TypeOK, Request, Row

LEMMA StartKeepsTypes ==
    ASSUME TypeOK, LockInv, NEW s \in Slots, NEW i \in Invoices, Start(s, i)
    PROVE  TypeOK'
<1> USE DEF AllOps
<1>0. NoIntent \in Intents \cup {NoIntent} /\ begun \in Nat /\ 0 \in Nat /\ Amounts \subseteq Nat
  BY ConstantsAssumption DEF TypeOK, Amounts
<1>1. ASSUME Budget PROVE begun' \in Nat
  BY <1>0, <1>1 DEF Budget
<1>2. ASSUME NEW amount \in Amounts, StartEdit(s, i, amount) PROVE TypeOK'
  BY <1>0, <1>1, <1>2, LoadType DEF StartEdit
<1>3. ASSUME NEW amount \in Amounts, StartCash(s, i, amount) PROVE TypeOK'
  BY <1>0, <1>1, <1>3, LoadType DEF StartCash
<1>4. ASSUME NEW amount \in Amounts, StartCredit(s, i, amount) PROVE TypeOK'
  BY <1>0, <1>1, <1>4, LoadType DEF StartCredit
<1>5. ASSUME NEW amount \in Amounts, NEW op \in {"cash_refund", "stripe_refund"},
             StartRefund(s, i, amount, op)
      PROVE  TypeOK'
  BY <1>0, <1>1, <1>5, LoadType DEF StartRefund
<1>6. ASSUME NEW amount \in Amounts, NEW op \in {"link", "qr_link"},
             StartLink(s, i, amount, op)
      PROVE  TypeOK'
  BY <1>0, <1>1, <1>6, LoadType DEF StartLink
<1>7. CASE StartIssue(s, i)
  BY <1>0, <1>1, <1>7, LoadType DEF StartIssue
<1>8. CASE StartConfirm(s, i)
  <2>1. row[i].pi \in Intents /\ intent[row[i].pi].amount \in Nat
    BY <1>8 DEF StartConfirm, TypeOK, Row, Intent
  <2> QED BY <2>1, <1>1, <1>8, LoadType DEF StartConfirm
<1>9. CASE StartVoid(s, i)
  BY <1>0, <1>1, <1>9, LoadType DEF StartVoid
<1>10. CASE StartOverdue(s, i)
  BY <1>0, <1>10, LoadType DEF StartOverdue
<1> QED BY <1>2, <1>3, <1>4, <1>5, <1>6, <1>7, <1>8, <1>9, <1>10 DEF Start

LEMMA StripeKeepsTypes ==
    ASSUME TypeOK, NEW s \in Slots, StripeAnswers(s)
    PROVE  TypeOK'
<1>0. /\ "called" \in Phase
      /\ \A k \in Intents \cup {NoIntent} :
            /\ [req[s] EXCEPT !.phase = "called"] \in Request
            /\ [req[s] EXCEPT !.phase = "called", !.k = k] \in Request
  BY RequestType, PhaseType DEF Phase
<1>1. CASE StripeConfirms(s)
  <2>1. req' \in [Slots -> Request]
    BY <1>0, <1>1 DEF StripeConfirms, TypeOK
  <2> QED BY <2>1, <1>1 DEF StripeConfirms, TypeOK, tables
<1>2. ASSUME NEW k \in Intents, StripeRefunds(s, k) PROVE TypeOK'
  <2>1. [req[s] EXCEPT !.phase = "called", !.k = k] \in Request
    BY <1>0
  <2>2. req' \in [Slots -> Request]
    BY <2>1, <1>2 DEF StripeRefunds, TypeOK
  <2>3. ASSUME NEW x \in Intent, NEW a \in Nat
        PROVE  [x EXCEPT !.sentBack = x.sentBack + a] \in Intent
    BY DEF Intent
  <2>4. intent' \in [Intents -> Intent]
    BY <2>3, <1>2, RequestType DEF StripeRefunds, TypeOK
  <2> QED BY <2>2, <2>4, <1>2 DEF StripeRefunds, TypeOK
<1>3. ASSUME NEW cancelled \in BOOLEAN, CancelOldIntent(s, cancelled) PROVE TypeOK'
  <2>1. req' \in [Slots -> Request]
    BY <1>0, <1>3 DEF CancelOldIntent, TypeOK
  <2>2. ASSUME NEW x \in Intent PROVE [x EXCEPT !.st = "canceled"] \in Intent
    BY DEF Intent
  <2>3. intent' \in [Intents -> Intent]
    BY <2>2, <1>3 DEF CancelOldIntent, TypeOK
  <2> QED BY <2>1, <2>3, <1>3 DEF CancelOldIntent, TypeOK
<1> QED BY <1>1, <1>2, <1>3 DEF StripeAnswers

LEMMA LockingKeepsTypes ==
    ASSUME TypeOK, NEW s \in Slots, Flush(s) \/ LockConfirm(s) \/ Abort(s)
    PROVE  TypeOK'
<1>1. [req[s] EXCEPT !.phase = "held"] \in Request /\ Idle \in Request
  BY RequestType, PhaseType, IdleType, ConstantsAssumption DEF Phase
<1>2. CASE Flush(s)
  BY <1>1, <1>2 DEF Flush, TypeOK, tables
<1>3. CASE LockConfirm(s)
  BY <1>1, <1>3 DEF LockConfirm, TypeOK, tables
<1>4. CASE Abort(s)
  BY <1>1, <1>4 DEF Abort, TypeOK, tables
<1> QED BY <1>2, <1>3, <1>4

LEMMA FinishKeepsTypes ==
    ASSUME TypeOK, LockInv, CaptureInv, NEW s \in Slots, Finish(s)
    PROVE  TypeOK'
<1> DEFINE r == req[s]
<1>0. /\ r.snap \in Row /\ r.amt \in Nat /\ NoIntent \in Intents \cup {NoIntent}
      /\ lastNumber + 1 \in Nat
      /\ Holds(s) => r.inv \in Invoices
  BY RequestType DEF TypeOK, LockInv, Holds, InFlight
<1>1. CASE CommitEdit(s)
  <2>1. Recalculated(r.snap, r.amt) \in Row
    BY <1>0, RecalculatedType
  <2> QED BY <2>1, <1>1, CommitType DEF CommitEdit, TypeOK
<1>2. ASSUME NEW k \in Intents \cup {NoIntent}, CommitIssue(s, k) PROVE TypeOK'
  <2>1. Issued(r.snap, NextNumber, k) \in Row /\ lastNumber' \in Nat
    BY <1>0, <1>2, IssuedType DEF NextNumber, CommitIssue
  <2>2. r.inv \in Invoices
    BY <1>0, <1>2 DEF CommitIssue, Commit, Holds
  <2>3. intent' \in [Intents -> Intent]
    <3>1. CASE k = NoIntent
      BY <3>1, <1>2 DEF CommitIssue, Opened, TypeOK
    <3>2. CASE k # NoIntent
      <4>1. row[r.inv].due > 0 /\ row[r.inv].due \in Nat
        <5>1. k \in MaybeIntent(row[r.inv].due)
          BY <1>2 DEF CommitIssue
        <5>2. row[r.inv].due > 0
          BY <5>1, <3>2 DEF MaybeIntent
        <5> QED BY <5>2, <2>2 DEF TypeOK, Row
      <4> QED BY <4>1, <2>2, <1>2, OpenedType DEF CommitIssue
    <3> QED BY <3>1, <3>2
  <2> QED BY <2>1, <2>3, <1>2, CommitType DEF CommitIssue, TypeOK
<1>3. CASE CommitCash(s)
  <2>1. Settled(r.snap, r.amt) \in Row
    BY <1>0, SettledType
  <2>2. books' \in [Invoices -> Books]
    BY <1>0, <1>3, BooksType DEF CommitCash, Commit, Holds
  <2> QED BY <2>1, <2>2, <1>3, CommitType DEF CommitCash, TypeOK
<1>4. ASSUME NEW op \in {"webhook", "confirm"}, CommitCapture(s, op) PROVE TypeOK'
  <2>1. Captured(r.snap, r.amt) \in Row
    BY <1>0, CapturedType
  <2>2. ASSUME NEW x \in Intent PROVE [x EXCEPT !.captures = x.captures + 1] \in Intent
    BY DEF Intent
  <2>3. intent' \in [Intents -> Intent]
    BY <2>2, <1>4 DEF CommitCapture, TypeOK
  <2>4. Holds(s) /\ Captures(s)
    BY <1>4 DEF CommitCapture, Commit, Holds, Captures
  <2>5. Lesser(r.amt, r.snap.due) \in Nat
    BY <2>4, RequestType DEF CaptureInv, Lesser
  <2>6. books' \in [Invoices -> Books]
    BY <1>0, <1>4, <2>4, <2>5, BooksType DEF CommitCapture
  <2> QED BY <2>1, <2>3, <2>6, <1>4, CommitType DEF CommitCapture, TypeOK
<1>5. ASSUME NEW op \in {"cash_refund", "stripe_refund"}, CommitRefund(s, op) PROVE TypeOK'
  <2>1. Refunded(r.snap, r.amt) \in Row
    BY <1>0, RefundedType
  <2>2. ASSUME NEW x \in Intent, NEW a \in Nat
        PROVE  [x EXCEPT !.recordedBack = x.recordedBack + a] \in Intent
    BY DEF Intent
  <2>3. intent' \in [Intents -> Intent]
    BY <2>2, <1>0, <1>5 DEF CommitRefund, TypeOK
  <2>4. books' \in [Invoices -> Books]
    BY <1>0, <1>5, BooksType DEF CommitRefund, Commit, Holds
  <2> QED BY <2>1, <2>3, <2>4, <1>5, CommitType DEF CommitRefund, TypeOK
<1>6. CASE CommitCredit(s)
  <2>1. Credited(r.snap, r.amt) \in Row
    BY <1>0, CreditedType
  <2>2. books' \in [Invoices -> Books]
    BY <1>0, <1>6, BooksType DEF CommitCredit, Commit, Holds
  <2> QED BY <2>1, <2>2, <1>6, CommitType DEF CommitCredit, TypeOK
<1>7. ASSUME NEW op \in {"link", "qr_link"}, NEW k \in Intents, CommitLink(s, op, k)
      PROVE  TypeOK'
  <2>1. [r.snap EXCEPT !.pi = k] \in Row
    BY <1>0, ColumnType, StatusTypes
  <2>2. intent' \in [Intents -> Intent]
    BY <1>0, <1>7, OpenedType DEF CommitLink, Commit, Holds
  <2> QED BY <2>1, <2>2, <1>7, CommitType DEF CommitLink, TypeOK
<1>8. CASE CommitVoid(s)
  <2>1. [r.snap EXCEPT !.status = "voided"] \in Row
    BY <1>0, ColumnType, StatusTypes
  <2> QED BY <2>1, <1>8, CommitType DEF CommitVoid, TypeOK
<1>9. CASE CommitOverdue(s)
  <2>1. [r.snap EXCEPT !.status = "overdue"] \in Row
    BY <1>0, ColumnType, StatusTypes
  <2> QED BY <2>1, <1>9, CommitType DEF CommitOverdue, TypeOK
<1> QED BY <1>1, <1>2, <1>3, <1>4, <1>5, <1>6, <1>7, <1>8, <1>9 DEF Finish

\* The steps that are one transaction of their own, and Stripe's.
WholeStep(i) ==
    \/ \E total \in Amounts : CreateDraft(i, total)
    \/ \E total \in Amounts, k \in Intents \cup {NoIntent} : CreateIssued(i, total, k)
    \/ BulkDelete(i)
    \/ DueDatePasses(i)
    \/ DeferDueDate(i)

LEMMA WholeStepKeepsTypes ==
    ASSUME TypeOK, NEW i \in Invoices, WholeStep(i)
    PROVE  TypeOK'
<1>0. /\ Amounts \subseteq Nat /\ lastNumber + 1 \in Nat
      /\ NoIntent \in Intents \cup {NoIntent} /\ 0 \in Nat
      /\ "draft" \in Status /\ "issued" \in Status
  BY StatusTypes, ConstantsAssumption DEF Amounts, TypeOK
<1>1. ASSUME Budget PROVE begun' \in Nat
  BY <1>1 DEF Budget, TypeOK
<1>2. ASSUME NEW total \in Amounts, CreateDraft(i, total) PROVE TypeOK'
  <2>1. NewRow("draft", 0, total, NoIntent) \in Row
    BY <1>0, NewRowType
  <2> QED BY <2>1, <1>1, <1>2 DEF CreateDraft, TypeOK
<1>3. ASSUME NEW total \in Amounts, NEW k \in Intents \cup {NoIntent},
             CreateIssued(i, total, k)
      PROVE  TypeOK'
  <2>1. NewRow("issued", NextNumber, total, k) \in Row
    BY <1>0, NewRowType DEF NextNumber
  <2>2. intent' \in [Intents -> Intent]
    BY <1>0, <1>3, OpenedType DEF CreateIssued
  <2>3. lastNumber' \in Nat
    BY <1>0, <1>3 DEF CreateIssued, NextNumber
  <2> QED BY <2>1, <2>2, <2>3, <1>1, <1>3 DEF CreateIssued, TypeOK
<1>4. CASE BulkDelete(i)
  <2>1. [BlankRow EXCEPT !.status = "deleted", !.number = row[i].number] \in Row
    BY BlankRowType DEF TypeOK, Row, RowStatus
  <2>2. ASSUME NEW x \in Intent
        PROVE  [x EXCEPT !.captures = 0, !.recordedBack = 0] \in Intent
    BY DEF Intent
  <2>3. intent' \in [Intents -> Intent]
    BY <2>2, <1>4 DEF BulkDelete, TypeOK
  <2>4. NoBooks \in Books
    BY DEF NoBooks, Books
  <2>5. row' \in [Invoices -> Row]
    BY <2>1, <1>4 DEF BulkDelete, TypeOK
  <2>6. books' \in [Invoices -> Books] /\ pastDue' \subseteq Invoices
    BY <2>4, <1>4 DEF BulkDelete, TypeOK
  <2> QED BY <2>3, <2>5, <2>6, <1>1, <1>4 DEF BulkDelete, TypeOK
<1>5. CASE DueDatePasses(i)
  BY <1>5 DEF DueDatePasses, TypeOK
<1>6. CASE DeferDueDate(i)
  BY <1>1, <1>6 DEF DeferDueDate, TypeOK
<1> QED BY <1>2, <1>3, <1>4, <1>5, <1>6 DEF WholeStep

LEMMA StripeEventKeepsTypes ==
    ASSUME TypeOK, IntentInv, NEW k \in Intents,
           \/ CustomerPays(k) \/ AnswerEvent(k)
           \/ \E s \in Slots : DeliverWebhook(s, k)
    PROVE  TypeOK'
<1>0. ASSUME NEW x \in Intent
      PROVE  /\ [x EXCEPT !.st = "succeeded"] \in Intent
             /\ [x EXCEPT !.told = TRUE] \in Intent
  BY DEF Intent
<1>1. CASE CustomerPays(k)
  BY <1>0, <1>1 DEF CustomerPays, TypeOK
<1>2. CASE AnswerEvent(k)
  BY <1>0, <1>2 DEF AnswerEvent, TypeOK
<1>3. ASSUME NEW s \in Slots, DeliverWebhook(s, k) PROVE TypeOK'
  <2> DEFINE i == intent[k].inv
  <2>1. i \in Invoices
    BY <1>3 DEF DeliverWebhook, IntentInv
  <2>2. [op |-> "webhook", inv |-> i, amt |-> intent[k].amount, k |-> k,
         snap |-> row[i], phase |-> "held"] \in Request
    BY <2>1 DEF TypeOK, Request, Phase, AllOps, Intent
  <2>3. req' \in [Slots -> Request]
    BY <2>2, <1>3 DEF DeliverWebhook, TypeOK
  <2>4. lock' \in [Invoices -> Slots \cup {NoSlot}]
    BY <1>3 DEF DeliverWebhook, TypeOK
  <2> QED BY <2>3, <2>4, <1>3 DEF DeliverWebhook, TypeOK, tables
<1> QED BY <1>1, <1>2, <1>3

-----------------------------------------------------------------------------
(* What each step does to the slots *)

\* Every start is a Load for an invoice.
Loads(s, i) ==
    \E op \in AllOps, amount \in Nat, k \in Intents \cup {NoIntent} :
        /\ Load(s, op, i, amount, k)
        /\ op # "webhook"
        /\ op = "confirm" => k = row[i].pi /\ k # NoIntent

LEMMA StartLoads ==
    ASSUME TypeOK, NEW s \in Slots, NEW i \in Invoices, Start(s, i)
    PROVE  Loads(s, i)
<1> USE DEF AllOps, Loads
<1>0. NoIntent \in Intents \cup {NoIntent} /\ 0 \in Nat /\ Amounts \subseteq Nat
  BY ConstantsAssumption DEF Amounts
<1>2. ASSUME NEW amount \in Amounts, StartEdit(s, i, amount) PROVE Loads(s, i)
  BY <1>0, <1>2 DEF StartEdit
<1>3. ASSUME NEW amount \in Amounts, StartCash(s, i, amount) PROVE Loads(s, i)
  BY <1>0, <1>3 DEF StartCash
<1>4. ASSUME NEW amount \in Amounts, StartCredit(s, i, amount) PROVE Loads(s, i)
  BY <1>0, <1>4 DEF StartCredit
<1>5. ASSUME NEW amount \in Amounts, NEW op \in {"cash_refund", "stripe_refund"},
             StartRefund(s, i, amount, op)
      PROVE  Loads(s, i)
  BY <1>0, <1>5 DEF StartRefund
<1>6. ASSUME NEW amount \in Amounts, NEW op \in {"link", "qr_link"},
             StartLink(s, i, amount, op)
      PROVE  Loads(s, i)
  BY <1>0, <1>6 DEF StartLink
<1>7. CASE StartIssue(s, i)
  BY <1>0, <1>7 DEF StartIssue
<1>8. CASE StartConfirm(s, i)
  <2>1. row[i].pi \in Intents /\ intent[row[i].pi].amount \in Nat
    BY <1>8 DEF StartConfirm, TypeOK, Row, Intent
  <2> QED BY <2>1, <1>8 DEF StartConfirm
<1>9. CASE StartVoid(s, i)
  BY <1>0, <1>9 DEF StartVoid
<1>10. CASE StartOverdue(s, i)
  BY <1>0, <1>10 DEF StartOverdue
<1> QED BY <1>2, <1>3, <1>4, <1>5, <1>6, <1>7, <1>8, <1>9, <1>10 DEF Start

\* Every finish is a Commit of the slot, under the operation it was loaded for.
LEMMA FinishCommits ==
    ASSUME NEW s \in Slots, Finish(s)
    PROVE  \E op, new : Commit(s, op, new)
BY DEF Finish, CommitEdit, CommitIssue, CommitCash, CommitCapture, CommitRefund,
       CommitCredit, CommitLink, CommitVoid, CommitOverdue

LEMMA LockKept ==
    ASSUME TypeOK, LockInv, IntentInv, [Next]_vars
    PROVE  LockInv'
<1> USE DEF LockInv, InFlight, Holds
<1>1. CASE UNCHANGED <<req, lock>>
  BY <1>1
<1>2. ASSUME NEW s \in Slots, NEW i \in Invoices, Loads(s, i) PROVE LockInv'
  BY <1>2 DEF Loads, Load, Idle, TypeOK
<1>3. ASSUME NEW s \in Slots, StripeAnswers(s) PROVE LockInv'
  <2>1. /\ req[s].phase = "read" /\ UNCHANGED lock
        /\ \A t \in Slots \ {s} : req'[t] = req[t]
        /\ req'[s].phase = "called" /\ req'[s].inv = req[s].inv
    BY <1>3 DEF StripeAnswers, StripeConfirms, StripeRefunds, CancelOldIntent, TypeOK,
                Request
  <2> QED BY <2>1
<1>4. ASSUME NEW s \in Slots, Flush(s) \/ LockConfirm(s) PROVE LockInv'
  <2>1. /\ req[s].phase # "idle" /\ lock[req[s].inv] = NoSlot
        /\ lock' = [lock EXCEPT ![req[s].inv] = s]
        /\ req' = [req EXCEPT ![s].phase = "held"]
    BY <1>4 DEF Flush, LockConfirm, RowUnlocked
  <2>2. /\ req'[s].phase = "held" /\ req'[s].inv = req[s].inv
        /\ \A t \in Slots \ {s} : req'[t] = req[t]
    BY <2>1 DEF TypeOK, Request
  <2> QED BY <2>1, <2>2, ConstantsAssumption DEF TypeOK
<1>5. ASSUME NEW s \in Slots, NEW op, NEW new, Commit(s, op, new) PROVE LockInv'
  BY <1>5 DEF Commit, Idle, TypeOK
<1>6. ASSUME NEW s \in Slots, Abort(s) PROVE LockInv'
  BY <1>6 DEF Abort, Idle, TypeOK
<1>7. ASSUME NEW s \in Slots, NEW k \in Intents, DeliverWebhook(s, k) PROVE LockInv'
  <2>1. intent[k].inv \in Invoices
    BY <1>7 DEF DeliverWebhook, IntentInv
  <2> QED BY <2>1, <1>7, ConstantsAssumption DEF DeliverWebhook, RowUnlocked, TypeOK
<1>8. ASSUME NEW i \in Invoices, WholeStep(i) PROVE UNCHANGED <<req, lock>>
  BY <1>8 DEF WholeStep, CreateDraft, CreateIssued, BulkDelete, DueDatePasses, DeferDueDate
<1>9. ASSUME NEW k \in Intents, CustomerPays(k) \/ AnswerEvent(k) PROVE UNCHANGED <<req, lock>>
  BY <1>9 DEF CustomerPays, AnswerEvent
<1>10. CASE UNCHANGED vars
  BY <1>10, <1>1 DEF vars
<1>11. CASE Next
  <2>1. CASE \E i \in Invoices : WholeStep(i)
    BY <2>1, <1>1, <1>8
  <2>2. CASE \E s \in Slots, i \in Invoices : Start(s, i)
    BY <2>2, <1>2, StartLoads
  <2>3. CASE \E s \in Slots : Finish(s)
    BY <2>3, <1>5, FinishCommits
  <2>4. CASE \E k \in Intents : CustomerPays(k) \/ AnswerEvent(k)
    BY <2>4, <1>1, <1>9
  <2> QED BY <1>11, <2>1, <2>2, <2>3, <2>4, <1>3, <1>4, <1>6, <1>7 DEF Next, WholeStep
<1> QED BY <1>10, <1>11

-----------------------------------------------------------------------------
(* Intents *)

\* An opened intent stays opened, for the same invoice.
IntentsStay ==
    \A k \in Intents :
        /\ intent[k].st # "none" => intent'[k].st # "none" /\ intent'[k].inv = intent[k].inv
        /\ intent'[k].st # "none" => intent'[k].inv \in Invoices

LEMMA OpenedStays ==
    ASSUME TypeOK, IntentInv, NEW k \in Intents \cup {NoIntent}, NEW i \in Invoices, NEW amount,
           k # NoIntent => k \in FreshIntents, Opened(k, i, amount)
    PROVE  /\ IntentsStay
           /\ k # NoIntent => intent'[k].inv = i /\ intent'[k].st # "none"
           /\ \A j \in Intents : intent'[j].captures =
                 IF j = k THEN 0 ELSE intent[j].captures
<1>1. CASE k = NoIntent
  BY <1>1, ConstantsAssumption DEF Opened, IntentsStay, IntentInv
<1>2. CASE k # NoIntent
  BY <1>2 DEF Opened, IntentsStay, IntentInv, FreshIntents, NoIntentYet, TypeOK, Intent
<1> QED BY <1>1, <1>2

LEMMA FinishStays ==
    ASSUME TypeOK, LockInv, IntentInv, NEW s \in Slots, Finish(s)
    PROVE  IntentsStay
<1> DEFINE r == req[s]
<1>0. ASSUME NEW op, NEW new, Commit(s, op, new) PROVE r.inv \in Invoices
  BY <1>0 DEF Commit, LockInv, InFlight
<1>1. ASSUME NEW k \in Intents \cup {NoIntent}, CommitIssue(s, k) PROVE IntentsStay
  <2>1. k # NoIntent => k \in FreshIntents
    BY <1>1 DEF CommitIssue, MaybeIntent
  <2> QED BY <2>1, <1>0, <1>1, OpenedStays DEF CommitIssue
<1>2. ASSUME NEW op \in {"link", "qr_link"}, NEW k \in Intents, CommitLink(s, op, k)
      PROVE  IntentsStay
  BY <1>0, <1>2, OpenedStays DEF CommitLink
<1>3. ASSUME NEW op \in {"webhook", "confirm"}, CommitCapture(s, op) PROVE IntentsStay
  BY <1>3 DEF CommitCapture, IntentsStay, IntentInv, TypeOK, Intent
<1>4. ASSUME NEW op \in {"cash_refund", "stripe_refund"}, CommitRefund(s, op)
      PROVE  IntentsStay
  BY <1>4 DEF CommitRefund, IntentsStay, IntentInv, TypeOK, Intent
<1>5. CASE UNCHANGED intent
  BY <1>5 DEF IntentsStay, IntentInv
<1>6. CommitEdit(s) \/ CommitCash(s) \/ CommitCredit(s) \/ CommitVoid(s) \/ CommitOverdue(s)
        => UNCHANGED intent
  BY DEF CommitEdit, CommitCash, CommitCredit, CommitVoid, CommitOverdue
<1> QED BY <1>1, <1>2, <1>3, <1>4, <1>5, <1>6 DEF Finish

LEMMA NextStays ==
    ASSUME TypeOK, LockInv, IntentInv, [Next]_vars
    PROVE  IntentsStay
<1>1. CASE UNCHANGED intent
  BY <1>1 DEF IntentsStay, IntentInv
<1>2. ASSUME NEW i \in Invoices, WholeStep(i) PROVE IntentsStay
  <2>1. ASSUME NEW total \in Amounts, NEW k \in Intents \cup {NoIntent},
               CreateIssued(i, total, k)
        PROVE  IntentsStay
    <3>1. k # NoIntent => k \in FreshIntents
      BY <2>1 DEF CreateIssued, MaybeIntent
    <3> QED BY <3>1, <2>1, OpenedStays DEF CreateIssued
  <2>2. CASE BulkDelete(i)
    <3>1. ASSUME NEW x \in Intent
          PROVE  /\ [x EXCEPT !.captures = 0, !.recordedBack = 0].st = x.st
                 /\ [x EXCEPT !.captures = 0, !.recordedBack = 0].inv = x.inv
      BY DEF Intent
    <3>2. \A k \in Intents : intent[k] \in Intent
      BY DEF TypeOK
    <3>3. \A k \in Intents : intent'[k].st = intent[k].st /\ intent'[k].inv = intent[k].inv
      BY <2>2, <3>1, <3>2 DEF BulkDelete
    <3> QED BY <3>3 DEF IntentsStay, IntentInv
  <2>3. (\E total \in Amounts : CreateDraft(i, total)) \/ DueDatePasses(i) \/ DeferDueDate(i)
          => UNCHANGED intent
    BY DEF CreateDraft, DueDatePasses, DeferDueDate
  <2> QED BY <1>1, <1>2, <2>1, <2>2, <2>3 DEF WholeStep
<1>3. ASSUME NEW s \in Slots, StripeAnswers(s) PROVE IntentsStay
  <2>1. CASE StripeConfirms(s)
    BY <1>1, <2>1 DEF StripeConfirms, tables
  <2>2. ASSUME NEW k \in Intents, StripeRefunds(s, k) PROVE IntentsStay
    BY <2>2 DEF StripeRefunds, IntentsStay, IntentInv, TypeOK, Intent
  <2>3. ASSUME NEW c \in BOOLEAN, CancelOldIntent(s, c) PROVE IntentsStay
    BY <2>3 DEF CancelOldIntent, IntentsStay, IntentInv, TypeOK, Intent
  <2> QED BY <1>3, <2>1, <2>2, <2>3 DEF StripeAnswers
<1>4. ASSUME NEW k \in Intents, CustomerPays(k) \/ AnswerEvent(k) PROVE IntentsStay
  BY <1>4 DEF CustomerPays, AnswerEvent, IntentsStay, IntentInv, TypeOK, Intent
<1>5. ASSUME NEW s \in Slots, NEW i \in Invoices, Start(s, i) PROVE UNCHANGED intent
  BY <1>5, StartLoads DEF Loads, Load, tables
<1>6. ASSUME NEW s \in Slots,
             Flush(s) \/ LockConfirm(s) \/ Abort(s) \/ \E k \in Intents : DeliverWebhook(s, k)
      PROVE  UNCHANGED intent
  BY <1>6 DEF Flush, LockConfirm, Abort, DeliverWebhook, tables
<1>7. CASE UNCHANGED vars
  BY <1>1, <1>7 DEF vars
<1>8. CASE Next
  BY <1>8, <1>1, <1>2, <1>3, <1>4, <1>5, <1>6, FinishStays DEF Next, WholeStep
<1> QED BY <1>7, <1>8

\* A row comes to name an intent only when the intent was opened for it.
PiStep ==
    \A i \in Invoices :
        \/ row'[i].pi \in {row[i].pi, NoIntent}
        \/ intent'[row'[i].pi].inv = i /\ intent'[row'[i].pi].st # "none"

\* A commit of a copy with the loaded intent, or none, or k.
LEMMA CommitPi ==
    ASSUME TypeOK, LockInv, NEW s \in Slots, NEW op, NEW new, Commit(s, op, new)
    PROVE  /\ req[s].inv \in Invoices
           /\ row'[req[s].inv].pi = IF new.pi = req[s].snap.pi THEN row[req[s].inv].pi
                                     ELSE new.pi
           /\ \A i \in Invoices \ {req[s].inv} : row'[i] = row[i]
<1>1. req[s].inv \in Invoices
  BY DEF Commit, LockInv, InFlight
<1> QED BY <1>1 DEF Commit, Written, Column, TypeOK

LEMMA FinishPi ==
    ASSUME TypeOK, LockInv, IntentInv, NEW s \in Slots, Finish(s)
    PROVE  PiStep
<1> DEFINE r == req[s]
<1>0. r.snap \in Row
  BY RequestType
<1>1. ASSUME NEW op, NEW new, Commit(s, op, new), new.pi \in {r.snap.pi, NoIntent}
      PROVE  PiStep
  BY <1>1, CommitPi DEF PiStep
<1>2. ASSUME NEW k \in Intents, NEW op, NEW new, NEW amount, Commit(s, op, new), new.pi = k,
             k \in FreshIntents, Opened(k, r.inv, amount)
      PROVE  PiStep
  <2>1. r.inv \in Invoices
    BY <1>2, CommitPi
  <2>2. k # NoIntent
    BY ConstantsAssumption
  <2>3. intent'[k].inv = r.inv /\ intent'[k].st # "none"
    BY <1>2, <2>1, <2>2, OpenedStays
  <2> QED BY <1>2, <2>3, CommitPi DEF PiStep
<1>3. ASSUME NEW k \in Intents \cup {NoIntent}, CommitIssue(s, k) PROVE PiStep
  <2>1. CASE k = NoIntent
    <3>1. Issued(r.snap, NextNumber, k).pi = r.snap.pi
      BY <1>0, <2>1 DEF Issued, Row
    <3> QED BY <3>1, <1>1, <1>3 DEF CommitIssue
  <2>2. CASE k # NoIntent
    <3>1. Issued(r.snap, NextNumber, k).pi = k
      BY <1>0, <2>2 DEF Issued, Row
    <3>2. k \in Intents /\ k \in FreshIntents
      BY <1>3, <2>2 DEF CommitIssue, MaybeIntent
    <3> QED BY <3>1, <3>2, <1>2, <1>3 DEF CommitIssue
  <2> QED BY <2>1, <2>2
<1>4. ASSUME NEW op \in {"link", "qr_link"}, NEW k \in Intents, CommitLink(s, op, k)
      PROVE  PiStep
  <2>1. [r.snap EXCEPT !.pi = k].pi = k
    BY <1>0 DEF Row
  <2> QED BY <2>1, <1>2, <1>4 DEF CommitLink
<1>5. ASSUME NEW op \in {"webhook", "confirm"}, CommitCapture(s, op) PROVE PiStep
  <2>1. Lesser(r.amt, r.snap.due) \in Int
    BY RequestType DEF Lesser
  <2>2. Settled(r.snap, Lesser(r.amt, r.snap.due)) \in Row
    BY <1>0, <2>1, SettledType
  <2>3. Captured(r.snap, r.amt).pi = NoIntent
    BY <2>2 DEF Captured, Row
  <2> QED BY <2>3, <1>1, <1>5 DEF CommitCapture
<1>6. /\ Recalculated(r.snap, r.amt).pi = r.snap.pi
      /\ Settled(r.snap, r.amt).pi = r.snap.pi
      /\ Refunded(r.snap, r.amt).pi = r.snap.pi
      /\ Credited(r.snap, r.amt).pi = r.snap.pi
      /\ \A st : [r.snap EXCEPT !.status = st].pi = r.snap.pi
  BY <1>0 DEF Row, Recalculated, Settled, Refunded, Credited
<1> QED BY <1>1, <1>3, <1>4, <1>5, <1>6 DEF Finish, CommitEdit, CommitCash, CommitRefund,
           CommitCredit, CommitVoid, CommitOverdue

LEMMA NextPi ==
    ASSUME TypeOK, LockInv, IntentInv, [Next]_vars
    PROVE  PiStep
<1>1. CASE UNCHANGED row
  BY <1>1 DEF PiStep
<1>2. ASSUME NEW i \in Invoices, WholeStep(i) PROVE PiStep
  <2>1. ASSUME NEW total \in Amounts, NEW k \in Intents \cup {NoIntent},
               CreateIssued(i, total, k)
        PROVE  PiStep
    <3>1. k # NoIntent => k \in FreshIntents
      BY <2>1 DEF CreateIssued, MaybeIntent
    <3>2. k # NoIntent => intent'[k].inv = i /\ intent'[k].st # "none"
      BY <3>1, <2>1, OpenedStays DEF CreateIssued
    <3> QED BY <3>2, <2>1 DEF CreateIssued, NewRow, PiStep, TypeOK
  <2>2. CASE BulkDelete(i)
    BY <2>2 DEF BulkDelete, BlankRow, PiStep, TypeOK
  <2>3. ASSUME NEW total, CreateDraft(i, total) PROVE PiStep
    BY <2>3 DEF CreateDraft, NewRow, PiStep, TypeOK
  <2>4. DueDatePasses(i) \/ DeferDueDate(i) => UNCHANGED row
    BY DEF DueDatePasses, DeferDueDate
  <2> QED BY <1>1, <1>2, <2>1, <2>2, <2>3, <2>4 DEF WholeStep
<1>3. ASSUME NEW s \in Slots, NEW i \in Invoices, Start(s, i) PROVE UNCHANGED row
  BY <1>3, StartLoads DEF Loads, Load, tables
<1>4. ASSUME NEW s \in Slots,
             \/ StripeAnswers(s) \/ Flush(s) \/ LockConfirm(s) \/ Abort(s)
             \/ \E k \in Intents : DeliverWebhook(s, k)
      PROVE  UNCHANGED row
  BY <1>4 DEF StripeAnswers, StripeConfirms, StripeRefunds, CancelOldIntent, Flush,
              LockConfirm, Abort, DeliverWebhook, tables
<1>5. ASSUME NEW k \in Intents, CustomerPays(k) \/ AnswerEvent(k) PROVE UNCHANGED row
  BY <1>5 DEF CustomerPays, AnswerEvent
<1>6. CASE UNCHANGED vars
  BY <1>1, <1>6 DEF vars
<1>7. CASE Next
  BY <1>7, <1>1, <1>2, <1>3, <1>4, <1>5, FinishPi DEF Next, WholeStep
<1> QED BY <1>6, <1>7

\* A slot that will record an intent keeps it until it is free again.
SlotStep ==
    \A s \in Slots :
        \/ ~InFlight(s)'
        \/ ~Captures(s)'
        \/ /\ InFlight(s) /\ Captures(s)
           /\ req'[s].k = req[s].k /\ req'[s].inv = req[s].inv
        \/ /\ req'[s].k \in Intents /\ intent[req'[s].k].st # "none"
           /\ intent[req'[s].k].inv = req'[s].inv

LEMMA NextSlots ==
    ASSUME TypeOK, LockInv, IntentInv, [Next]_vars
    PROVE  SlotStep
<1> USE DEF InFlight, Captures
<1>1. CASE UNCHANGED req
  BY <1>1 DEF SlotStep
<1>2. ASSUME NEW s \in Slots, NEW i \in Invoices, Loads(s, i) PROVE SlotStep
  <2>1. PICK op \in AllOps, amount \in Nat, k \in Intents \cup {NoIntent} :
          /\ Load(s, op, i, amount, k)
          /\ op # "webhook"
          /\ op = "confirm" => k = row[i].pi /\ k # NoIntent
    BY <1>2 DEF Loads
  <2>2. \A t \in Slots \ {s} : req'[t] = req[t]
    BY <2>1 DEF Load, TypeOK
  <2>3. req'[s].op = op /\ req'[s].k = k /\ req'[s].inv = i
    BY <2>1 DEF Load, TypeOK
  <2>4. CASE op = "confirm"
    BY <2>1, <2>2, <2>3, <2>4 DEF SlotStep, IntentInv
  <2>5. CASE op # "confirm"
    BY <2>1, <2>2, <2>3, <2>5 DEF SlotStep
  <2> QED BY <2>4, <2>5
<1>3. ASSUME NEW s \in Slots,
             \/ \E p : req' = [req EXCEPT ![s].phase = p]
             \/ \E p, k : /\ req' = [req EXCEPT ![s].phase = p, ![s].k = k]
                          /\ req[s].op = "stripe_refund",
             req[s].phase # "idle"
      PROVE  SlotStep
  <2>1. /\ \A t \in Slots \ {s} : req'[t] = req[t]
        /\ req'[s].op = req[s].op /\ req'[s].inv = req[s].inv
        /\ req[s].op # "stripe_refund" => req'[s].k = req[s].k
    <3>1. CASE \E p : req' = [req EXCEPT ![s].phase = p]
      BY <3>1 DEF TypeOK, Request
    <3>2. CASE \E p, k : req' = [req EXCEPT ![s].phase = p, ![s].k = k]
                         /\ req[s].op = "stripe_refund"
      BY <3>2 DEF TypeOK, Request
    <3> QED BY <1>3, <3>1, <3>2, Zenon
  <2> QED BY <2>1, <1>3 DEF SlotStep
<1>4. ASSUME NEW s \in Slots, StripeAnswers(s) PROVE SlotStep
  BY <1>4, <1>3 DEF StripeAnswers, StripeConfirms, StripeRefunds, CancelOldIntent
<1>5. ASSUME NEW s \in Slots, Flush(s) \/ LockConfirm(s) PROVE SlotStep
  <2>1. req[s].phase # "idle"
    BY <1>5 DEF Flush, LockConfirm
  <2> QED BY <2>1, <1>5, <1>3 DEF Flush, LockConfirm
<1>6. ASSUME NEW s \in Slots, req' = [req EXCEPT ![s] = Idle] PROVE SlotStep
  BY <1>6 DEF SlotStep, Idle, TypeOK
<1>7. ASSUME NEW s \in Slots, NEW k \in Intents, DeliverWebhook(s, k) PROVE SlotStep
  BY <1>7 DEF DeliverWebhook, SlotStep, TypeOK
<1>8. ASSUME NEW i \in Invoices, WholeStep(i) PROVE UNCHANGED req
  BY <1>8 DEF WholeStep, CreateDraft, CreateIssued, BulkDelete, DueDatePasses, DeferDueDate
<1>9. ASSUME NEW k \in Intents, CustomerPays(k) \/ AnswerEvent(k) PROVE UNCHANGED req
  BY <1>9 DEF CustomerPays, AnswerEvent
<1>10. CASE UNCHANGED vars
  BY <1>10, <1>1 DEF vars
<1>11. CASE Next
  <2>1. ASSUME NEW s \in Slots, Finish(s) \/ Abort(s) PROVE req' = [req EXCEPT ![s] = Idle]
    BY <2>1, FinishCommits DEF Commit, Abort
  <2>2. ASSUME NEW s \in Slots, NEW i \in Invoices, Start(s, i) PROVE SlotStep
    BY <2>2, <1>2, StartLoads
  <2> QED BY <1>11, <1>1, <1>4, <1>5, <1>6, <1>7, <1>8, <1>9, <2>1, <2>2 DEF Next, WholeStep
<1> QED BY <1>10, <1>11

LEMMA IntentKept ==
    ASSUME TypeOK, LockInv, IntentInv, [Next]_vars
    PROVE  IntentInv'
<1>1. IntentsStay /\ PiStep /\ SlotStep
  BY NextStays, NextPi, NextSlots
<1>2. \A k \in Intents : intent'[k].st # "none" => intent'[k].inv \in Invoices
  BY <1>1 DEF IntentsStay
<1>3. ASSUME NEW i \in Invoices, row'[i].pi # NoIntent
      PROVE  intent'[row'[i].pi].inv = i /\ intent'[row'[i].pi].st # "none"
  <2>1. CASE row'[i].pi = row[i].pi
    <3>1. row[i].pi \in Intents
      BY <1>3, <2>1 DEF TypeOK, Row
    <3> QED BY <3>1, <2>1, <1>1, <1>3 DEF IntentsStay, IntentInv
  <2>2. CASE row'[i].pi # row[i].pi
    BY <2>2, <1>1, <1>3 DEF PiStep
  <2> QED BY <2>1, <2>2
<1>4. ASSUME NEW s \in Slots, InFlight(s)', Captures(s)'
      PROVE  /\ req'[s].k \in Intents
             /\ intent'[req'[s].k].inv = req'[s].inv
             /\ intent'[req'[s].k].st # "none"
  BY <1>1, <1>4 DEF SlotStep, IntentsStay, IntentInv
<1> QED BY <1>2, <1>3, <1>4 DEF IntentInv

-----------------------------------------------------------------------------
(* One capture per intent *)

\* Two slots that are about to record the same intent are the same slot.
LEMMA OneRecorder ==
    ASSUME LockInv, IntentInv, NEW s \in Slots, NEW t \in Slots,
           Holds(s), Captures(s), Holds(t), Captures(t), req[s].k = req[t].k
    PROVE  s = t
BY DEF LockInv, IntentInv, Holds, InFlight

\* The captures of an intent change only when it is recorded or deleted with
\* its invoice.
CapturesStay == \A k \in Intents : intent'[k].captures \in {0, intent[k].captures}

LEMMA FinishCaptures ==
    ASSUME TypeOK, LockInv, IntentInv, NEW s \in Slots, Finish(s)
    PROVE  CapturesStay \/ \E op \in {"webhook", "confirm"} : CommitCapture(s, op)
<1>0. ASSUME NEW op, NEW new, Commit(s, op, new) PROVE req[s].inv \in Invoices
  BY <1>0, CommitPi
<1>1. ASSUME NEW k \in Intents \cup {NoIntent}, CommitIssue(s, k) PROVE CapturesStay
  <2>1. k # NoIntent => k \in FreshIntents
    BY <1>1 DEF CommitIssue, MaybeIntent
  <2> QED BY <2>1, <1>0, <1>1, OpenedStays DEF CommitIssue, CapturesStay
<1>2. ASSUME NEW op \in {"link", "qr_link"}, NEW k \in Intents, CommitLink(s, op, k)
      PROVE  CapturesStay
  BY <1>0, <1>2, OpenedStays DEF CommitLink, CapturesStay
<1>3. ASSUME NEW op, CommitRefund(s, op) PROVE CapturesStay
  BY <1>3 DEF CommitRefund, CapturesStay, TypeOK, Intent
<1>4. CASE UNCHANGED intent
  BY <1>4 DEF CapturesStay
<1> QED BY <1>1, <1>2, <1>3, <1>4 DEF Finish, CommitEdit, CommitCash, CommitCredit,
           CommitVoid, CommitOverdue

LEMMA CaptureKept ==
    ASSUME IInv, [Next]_vars
    PROVE  CaptureInv'
<1> USE DEF IInv
\* A slot that will record was about to already, or has just checked.
<1> DEFINE Checked == \A t \in Slots : Holds(t)' /\ Captures(t)' =>
              \/ Holds(t) /\ Captures(t) /\ req'[t] = req[t]
              \/ /\ req'[t].k \in Intents /\ intent[req'[t].k].captures = 0
                 /\ Lesser(req'[t].amt, req'[t].snap.due) > 0
<1>1. ASSUME CapturesStay, Checked PROVE CaptureInv'
  <2>1. OneCapturePerIntent'
    BY <1>1 DEF CapturesStay, CaptureInv, OneCapturePerIntent, TypeOK, Intent
  <2>2. ASSUME NEW t \in Slots, Holds(t)', Captures(t)'
        PROVE  intent'[req'[t].k].captures = 0 /\ Lesser(req'[t].amt, req'[t].snap.due) > 0
    <3>1. CASE Holds(t) /\ Captures(t) /\ req'[t] = req[t]
      <4>1. req[t].k \in Intents
        BY <3>1 DEF IntentInv, Holds, InFlight
      <4> QED BY <4>1, <3>1, <1>1 DEF CapturesStay, CaptureInv
    <3>2. CASE ~(Holds(t) /\ Captures(t) /\ req'[t] = req[t])
      BY <3>2, <2>2, <1>1 DEF CapturesStay
    <3> QED BY <3>1, <3>2
  <2> QED BY <2>1, <2>2 DEF CaptureInv
<1> HIDE DEF IInv
<1>2. ASSUME UNCHANGED req PROVE Checked
  BY <1>2 DEF Holds, Captures
<1>3. ASSUME NEW s \in Slots, NEW i \in Invoices, Loads(s, i) PROVE CapturesStay /\ Checked
  BY <1>3 DEF IInv, Loads, Load, Holds, Captures, CapturesStay, tables, TypeOK
<1>4. ASSUME NEW s \in Slots, StripeAnswers(s) PROVE CapturesStay /\ Checked
  <2>1. req'[s].phase = "called" /\ \A t \in Slots \ {s} : req'[t] = req[t]
    BY <1>4 DEF IInv, StripeAnswers, StripeConfirms, StripeRefunds, CancelOldIntent, TypeOK,
                Request
  <2>2. CapturesStay
    <3>1. CASE StripeConfirms(s)
      BY <3>1 DEF StripeConfirms, CapturesStay, tables
    <3>2. ASSUME NEW k \in Intents, StripeRefunds(s, k) PROVE CapturesStay
      BY <3>2 DEF IInv, StripeRefunds, CapturesStay, TypeOK, Intent
    <3>3. ASSUME NEW c \in BOOLEAN, CancelOldIntent(s, c) PROVE CapturesStay
      BY <3>3 DEF IInv, CancelOldIntent, CapturesStay, TypeOK, Intent
    <3> QED BY <1>4, <3>1, <3>2, <3>3 DEF StripeAnswers
  <2> QED BY <2>1, <2>2 DEF Holds, Captures
<1>5. ASSUME NEW s \in Slots, Flush(s) PROVE CapturesStay /\ Checked
  <2>1. /\ \A t \in Slots \ {s} : req'[t] = req[t]
        /\ req'[s].op = req[s].op
    BY <1>5 DEF IInv, Flush, TypeOK, Request
  <2>2. ~Captures(s)
    BY <1>5 DEF IInv, FreshInv, Flush, Captures, Holds, InFlight
  <2> QED BY <2>1, <2>2, <1>5 DEF Flush, CapturesStay, tables, Holds, Captures
<1>6. ASSUME NEW s \in Slots, LockConfirm(s) PROVE CapturesStay /\ Checked
  <2>1. /\ \A t \in Slots \ {s} : req'[t] = req[t]
        /\ req'[s].k = req[s].k /\ req'[s].amt = req[s].amt /\ req'[s].snap = req[s].snap
    BY <1>6 DEF IInv, LockConfirm, TypeOK, Request
  <2>2. req[s].k \in Intents
    BY <1>6 DEF IInv, LockConfirm, IntentInv, InFlight, Captures
  <2> QED BY <2>1, <2>2, <1>6 DEF LockConfirm, NotCaptured, CapturesStay, tables, Holds, Captures
<1>7. ASSUME NEW s \in Slots, req' = [req EXCEPT ![s] = Idle] PROVE Checked
  BY <1>7 DEF IInv, Idle, Holds, Captures, TypeOK
<1>8. ASSUME NEW s \in Slots, NEW op \in {"webhook", "confirm"}, CommitCapture(s, op)
      PROVE  CaptureInv'
  <2> DEFINE k == req[s].k
  <2>1. Holds(s) /\ Captures(s)
    BY <1>8 DEF CommitCapture, Commit, Holds, Captures
  <2>2. k \in Intents /\ intent[k].captures = 0
    BY <2>1 DEF IInv, IntentInv, CaptureInv, Holds, InFlight
  <2>3. intent'[k].captures = 1 /\ \A j \in Intents \ {k} : intent'[j] = intent[j]
    BY <2>2, <1>8 DEF IInv, CommitCapture, TypeOK, Intent
  <2>4. OneCapturePerIntent'
    BY <2>2, <2>3 DEF IInv, CaptureInv, OneCapturePerIntent
  <2>5. req' = [req EXCEPT ![s] = Idle]
    BY <1>8 DEF CommitCapture, Commit
  <2>6. ASSUME NEW t \in Slots, Holds(t)', Captures(t)'
        PROVE  intent'[req'[t].k].captures = 0 /\ Lesser(req'[t].amt, req'[t].snap.due) > 0
    <3>1. t # s /\ req'[t] = req[t]
      BY <2>5, <2>6 DEF IInv, Idle, Holds, TypeOK
    <3>2. Holds(t) /\ Captures(t)
      BY <3>1, <2>6 DEF Holds, Captures
    <3>3. req[t].k \in Intents \ {k}
      BY <3>1, <3>2, <2>1, OneRecorder DEF IInv, IntentInv, Holds, InFlight
    <3> QED BY <3>1, <3>2, <3>3, <2>3 DEF IInv, CaptureInv
  <2> QED BY <2>4, <2>6 DEF CaptureInv
<1>9. ASSUME NEW s \in Slots, NEW k \in Intents, DeliverWebhook(s, k)
      PROVE  CapturesStay /\ Checked
  BY <1>9 DEF IInv, DeliverWebhook, Recordable, NotCaptured, CapturesStay, Holds, Captures,
              tables, TypeOK
<1>10. ASSUME NEW i \in Invoices, WholeStep(i) PROVE CapturesStay /\ UNCHANGED req
  <2>1. ASSUME NEW total \in Amounts, NEW k \in Intents \cup {NoIntent},
               CreateIssued(i, total, k)
        PROVE  CapturesStay /\ UNCHANGED req
    <3>1. k # NoIntent => k \in FreshIntents
      BY <2>1 DEF CreateIssued, MaybeIntent
    <3> QED BY <3>1, <2>1, OpenedStays DEF IInv, CreateIssued, CapturesStay
  <2>2. CASE BulkDelete(i)
    <3>1. ASSUME NEW x \in Intent
          PROVE  [x EXCEPT !.captures = 0, !.recordedBack = 0].captures = 0
      BY DEF Intent
    <3>2. \A k \in Intents : intent[k] \in Intent
      BY DEF IInv, TypeOK
    <3> QED BY <2>2, <3>1, <3>2 DEF BulkDelete, CapturesStay
  <2>3. (\E total \in Amounts : CreateDraft(i, total)) \/ DueDatePasses(i) \/ DeferDueDate(i)
          => UNCHANGED <<intent, req>>
    BY DEF CreateDraft, DueDatePasses, DeferDueDate
  <2> QED BY <1>10, <2>1, <2>2, <2>3 DEF WholeStep, CapturesStay
<1>11. ASSUME NEW k \in Intents, CustomerPays(k) \/ AnswerEvent(k)
       PROVE  CapturesStay /\ UNCHANGED req
  BY <1>11 DEF IInv, CustomerPays, AnswerEvent, CapturesStay, TypeOK, Intent
<1>12. CASE UNCHANGED vars
  BY <1>12, <1>1, <1>2 DEF vars, CapturesStay
<1>13. CASE Next
  <2>1. ASSUME NEW s \in Slots, Abort(s) PROVE CaptureInv'
    BY <2>1, <1>1, <1>7 DEF Abort, CapturesStay, tables
  <2>2. ASSUME NEW s \in Slots, Finish(s) PROVE CaptureInv'
    BY <2>2, <1>1, <1>7, <1>8, FinishCommits, FinishCaptures DEF IInv, Commit
  <2>3. ASSUME NEW s \in Slots, NEW i \in Invoices, Start(s, i) PROVE CaptureInv'
    BY <2>3, <1>1, <1>3, StartLoads DEF IInv
  <2> HIDE DEF Checked
  <2> QED BY <1>13, <1>1, <1>2, <1>4, <1>5, <1>6, <1>9, <1>10, <1>11, <2>1, <2>2, <2>3
             DEF Next, WholeStep
<1> QED BY <1>12, <1>13

-----------------------------------------------------------------------------
(* The webhook's copy of the row *)

\* A step leaves alone every row whose lock a webhook holds, unless it is that
\* webhook's own commit.
RowsHeldStay ==
    \A t \in Slots : Holds(t) /\ req[t].op = "webhook" /\ Holds(t)' =>
        row'[req[t].inv] = row[req[t].inv]

LEMMA NextRows ==
    ASSUME IInv, [Next]_vars
    PROVE  RowsHeldStay
<1>1. CASE UNCHANGED row
  BY <1>1 DEF RowsHeldStay
<1>2. ASSUME NEW s \in Slots, NEW op, NEW new, Commit(s, op, new) PROVE RowsHeldStay
  <2>1. ~Holds(s)'
    BY <1>2 DEF IInv, TypeOK, Commit, Idle, Holds
  <2>2. ASSUME NEW t \in Slots, Holds(t), t # s PROVE req[t].inv # req[s].inv
    BY <2>2, <1>2 DEF IInv, LockInv, Commit, Holds, InFlight
  <2>3. \A i \in Invoices \ {req[s].inv} : row'[i] = row[i]
    BY <1>2, CommitPi DEF IInv
  <2>4. \A t \in Slots : Holds(t) => req[t].inv \in Invoices
    BY DEF IInv, LockInv, Holds, InFlight
  <2> QED BY <2>1, <2>2, <2>3, <2>4 DEF RowsHeldStay
<1>3. ASSUME NEW i \in Invoices, WholeStep(i) PROVE RowsHeldStay
  <2>1. \A t \in Slots : Holds(t) /\ req[t].op = "webhook" =>
           /\ lock[req[t].inv] = t /\ Payable(row[req[t].inv]) /\ req[t].inv \in Invoices
    BY DEF IInv, LockInv, FreshInv, Holds, InFlight
  <2>2. ASSUME NEW total, CreateDraft(i, total) PROVE RowsHeldStay
    BY <2>1, <2>2 DEF IInv, TypeOK, CreateDraft, Payable, RowsHeldStay
  <2>3. ASSUME NEW total, NEW k, CreateIssued(i, total, k) PROVE RowsHeldStay
    BY <2>1, <2>3 DEF IInv, TypeOK, CreateIssued, Payable, RowsHeldStay
  <2>4. CASE BulkDelete(i)
    <3>1. lock[i] = NoSlot
      BY <2>4 DEF BulkDelete, RowUnlocked
    <3>2. \A j \in Invoices \ {i} : row'[j] = row[j]
      BY <2>4 DEF BulkDelete, IInv, TypeOK
    <3>3. ASSUME NEW t \in Slots, Holds(t), req[t].op = "webhook" PROVE req[t].inv # i
      BY <2>1, <3>1, <3>3, ConstantsAssumption
    <3> QED BY <2>1, <3>2, <3>3 DEF RowsHeldStay
  <2>5. DueDatePasses(i) \/ DeferDueDate(i) => UNCHANGED row
    BY DEF DueDatePasses, DeferDueDate
  <2> QED BY <1>1, <1>3, <2>2, <2>3, <2>4, <2>5 DEF WholeStep
<1>4. ASSUME NEW s \in Slots, NEW i \in Invoices, Start(s, i) PROVE UNCHANGED row
  BY <1>4, StartLoads DEF IInv, Loads, Load, tables
<1>5. ASSUME NEW s \in Slots,
             \/ StripeAnswers(s) \/ Flush(s) \/ LockConfirm(s) \/ Abort(s)
             \/ \E k \in Intents : DeliverWebhook(s, k)
      PROVE  UNCHANGED row
  BY <1>5 DEF StripeAnswers, StripeConfirms, StripeRefunds, CancelOldIntent, Flush,
              LockConfirm, Abort, DeliverWebhook, tables
<1>6. ASSUME NEW k \in Intents, CustomerPays(k) \/ AnswerEvent(k) PROVE UNCHANGED row
  BY <1>6 DEF CustomerPays, AnswerEvent
<1>7. CASE UNCHANGED vars
  BY <1>1, <1>7 DEF vars
<1>8. CASE Next
  BY <1>8, <1>1, <1>2, <1>3, <1>4, <1>5, <1>6, FinishCommits DEF Next, WholeStep
<1> QED BY <1>7, <1>8

LEMMA FreshKept ==
    ASSUME IInv, [Next]_vars
    PROVE  FreshInv'
<1> USE DEF InFlight, Holds
\* A webhook in flight after the step was so before, or has just loaded its row.
<1> DEFINE Fresh(t) == \/ /\ InFlight(t) /\ req[t].op = "webhook" /\ req'[t] = req[t]
                      \/ /\ Holds(t)' /\ UNCHANGED row
                         /\ req'[t].snap = row[req'[t].inv] /\ Payable(req'[t].snap)
           StillFresh == \A t \in Slots : InFlight(t)' /\ req'[t].op = "webhook" => Fresh(t)
<1>1. ASSUME StillFresh PROVE FreshInv'
  <2>1. RowsHeldStay
    BY NextRows
  <2> SUFFICES ASSUME NEW t \in Slots, InFlight(t)', req'[t].op = "webhook"
               PROVE  Holds(t)' /\ req'[t].snap = row'[req'[t].inv] /\ Payable(req'[t].snap)
    BY DEF FreshInv
  <2> QED BY <1>1, <2>1 DEF RowsHeldStay, FreshInv, IInv
<1>2. ASSUME UNCHANGED req PROVE StillFresh
  BY <1>2
<1>3. ASSUME NEW s \in Slots, NEW i \in Invoices, Loads(s, i) PROVE StillFresh
  BY <1>3 DEF IInv, TypeOK, Loads, Load
<1>4. ASSUME NEW s \in Slots, StripeAnswers(s) \/ Flush(s) \/ LockConfirm(s) PROVE StillFresh
  <2>1. /\ \A t \in Slots \ {s} : req'[t] = req[t]
        /\ req'[s].op = req[s].op
        /\ InFlight(s) /\ ~Holds(s)
    BY <1>4 DEF IInv, TypeOK, Request, StripeAnswers, StripeConfirms, StripeRefunds,
                CancelOldIntent, Flush, LockConfirm
  <2>2. req[s].op # "webhook"
    BY <2>1 DEF IInv, FreshInv
  <2> QED BY <2>1, <2>2
<1>5. ASSUME NEW s \in Slots, req' = [req EXCEPT ![s] = Idle] PROVE StillFresh
  BY <1>5 DEF IInv, TypeOK, Idle
<1>6. ASSUME NEW s \in Slots, NEW k \in Intents, DeliverWebhook(s, k) PROVE StillFresh
  BY <1>6 DEF IInv, TypeOK, DeliverWebhook, Recordable, tables
<1>7. ASSUME NEW i \in Invoices, WholeStep(i) PROVE UNCHANGED req
  BY <1>7 DEF WholeStep, CreateDraft, CreateIssued, BulkDelete, DueDatePasses, DeferDueDate
<1>8. ASSUME NEW k \in Intents, CustomerPays(k) \/ AnswerEvent(k) PROVE UNCHANGED req
  BY <1>8 DEF CustomerPays, AnswerEvent
<1> HIDE DEF StillFresh
<1>9. CASE UNCHANGED vars
  BY <1>9, <1>1, <1>2 DEF vars
<1>10. CASE Next
  <2>1. ASSUME NEW s \in Slots, Finish(s) \/ Abort(s) PROVE req' = [req EXCEPT ![s] = Idle]
    BY <2>1, FinishCommits DEF Commit, Abort
  <2>2. ASSUME NEW s \in Slots, NEW i \in Invoices, Start(s, i) PROVE StillFresh
    BY <2>2, <1>3, StartLoads DEF IInv
  <2> QED BY <1>10, <1>1, <1>2, <1>4, <1>5, <1>6, <1>7, <1>8, <2>1, <2>2 DEF Next, WholeStep
<1> QED BY <1>9, <1>10

-----------------------------------------------------------------------------
(* The theorems *)

LEMMA TypesKept ==
    ASSUME IInv, [Next]_vars
    PROVE  TypeOK'
<1> USE DEF IInv
<1>1. CASE UNCHANGED vars
  BY <1>1 DEF vars, TypeOK
<1>2. CASE Next
  BY <1>2, StartKeepsTypes, StripeKeepsTypes, LockingKeepsTypes, FinishKeepsTypes,
     WholeStepKeepsTypes, StripeEventKeepsTypes DEF Next, WholeStep
<1> QED BY <1>1, <1>2

LEMMA InvariantInit == Init => IInv
<1> SUFFICES ASSUME Init PROVE IInv
  OBVIOUS
<1>1. TypeOK
  BY BlankRowType, IdleType DEF Init, TypeOK, NoBooks, Books, NoIntentYet, Intent
<1>2. LockInv /\ IntentInv /\ CaptureInv /\ FreshInv
  BY DEF Init, LockInv, IntentInv, CaptureInv, FreshInv, OneCapturePerIntent, InFlight,
         Holds, Captures, Idle, BlankRow, NoIntentYet
<1> QED BY <1>1, <1>2 DEF IInv

LEMMA InvariantStep == IInv /\ [Next]_vars => IInv'
BY TypesKept, LockKept, IntentKept, CaptureKept, FreshKept DEF IInv

\* The strengthened invariant holds of every behaviour.
THEOREM InvariantHolds == Spec => []IInv
BY InvariantInit, InvariantStep, PTL DEF Spec

\* Every variable keeps its type, for any number of invoices, intents and sessions.
THEOREM TypesHold == Spec => []TypeOK
<1>1. IInv => TypeOK
  BY DEF IInv
<1> QED BY <1>1, InvariantHolds, PTL

\* A PaymentIntent is recorded at most once, however its webhook deliveries and
\* page confirmations overlap with each other and with every other handler.
THEOREM IntentRecordedOnce == Spec => []OneCapturePerIntent
<1>1. IInv => OneCapturePerIntent
  BY DEF IInv, CaptureInv
<1> QED BY <1>1, InvariantHolds, PTL

\* The row a webhook writes from is the committed row for as long as it runs.
THEOREM WebhookNeverStale == Spec => []WebhookSeesCommittedRow
<1>1. IInv => WebhookSeesCommittedRow
  BY DEF IInv, FreshInv, WebhookSeesCommittedRow, InFlight
<1> QED BY <1>1, InvariantHolds, PTL
=============================================================================
