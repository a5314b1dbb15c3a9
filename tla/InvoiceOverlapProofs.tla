------------------------ MODULE InvoiceOverlapProofs ------------------------
(***************************************************************************)
(* What holds of the rows, the numbers and the refunds however requests    *)
(* overlap: a request writes from a copy that may be stale, so each fact   *)
(* about the committed row needs one about the copies in flight.           *)
(***************************************************************************)
EXTENDS InvoiceServiceProofs, FiniteSetTheorems

\* What the handler checked of the copy it loaded, before it went on.
Admitted(r) ==
    /\ r.op \in AllOps \ {"create", "delete", "defer"}
    /\ r.op \notin {"webhook", "confirm"} => r.amt \in Amounts
    /\ r.op \in {"edit", "issue"} => r.snap.status = "draft"
    /\ r.op = "cash" => Payable(r.snap) /\ r.amt \in 1..r.snap.due
    /\ r.op \in {"webhook", "confirm"} => Payable(r.snap)
    /\ r.op \in {"cash_refund", "stripe_refund"} =>
          Refundable(r.snap) /\ r.amt \in 1..r.snap.paid
    /\ r.op = "credit" => Creditable(r.snap) /\ r.amt > 0
    /\ r.op \in {"link", "qr_link"} => Payable(r.snap) /\ r.snap.due > 0
    /\ r.op = "void" => ValidTransition(r.snap, "voided")
    /\ r.op = "overdue" => r.snap.status \in {"issued", "partially_paid"} /\ r.snap.due > 0

\* A row and the copies of it: balances, the last number handed out, and a draft
\* has seen no money.
Sound(r) ==
    /\ r.paid >= 0 /\ r.due >= 0
    /\ r.number <= lastNumber
    /\ r.total \in Amounts
    /\ r.status = "draft" => r.paid = 0

RowInv ==
    \A i \in Invoices :
        /\ Sound(row[i])
        /\ row[i].status = "none" => row[i] = BlankRow
        /\ row[i].status \in {"none", "draft"} => books[i] = NoBooks

\* A row leaves "none" and "draft" for good, so a copy is never ahead of its row.
CopyInv ==
    \A s \in Slots : InFlight(s) =>
        /\ Admitted(req[s])
        /\ Sound(req[s].snap)
        /\ row[req[s].inv].status # "none"
        /\ row[req[s].inv].status = "draft" => req[s].snap.status = "draft"
        /\ Holds(s) => Exists(row[req[s].inv])

\* Stripe has made the refund of this slot; its payments row is not committed.
Refunding(s) == req[s].op = "stripe_refund" /\ req[s].phase \in {"called", "held"}

Units(s) == {s} \X (1..req[s].amt)

\* The units of money sent back for an intent that sessions are about to record.
Unrecorded(k) == UNION {Units(s) : s \in {t \in Slots : Refunding(t) /\ req[t].k = k}}

RefundInv ==
    /\ \A k \in Intents : intent[k].st = "none" => intent[k].captures = 0
    /\ \A s \in Slots : Refunding(s) => req[s].k \in Intents
                                        /\ intent[req[s].k].st # "none"
    /\ \A k \in Intents :
          /\ IsFiniteSet(Unrecorded(k))
          /\ intent[k].recordedBack + Cardinality(Unrecorded(k)) <= intent[k].sentBack

OverlapInv == IInv /\ RowInv /\ CopyInv /\ UniqueNumbers /\ RefundInv

-----------------------------------------------------------------------------
(* The columns of what each handler leaves in its copy *)

LEMMA RowColumns ==
    ASSUME NEW r \in Row
    PROVE  /\ r.status \in RowStatus /\ r.number \in Nat /\ r.total \in Nat
           /\ r.paid \in Int /\ r.due \in Int /\ r.pi \in Intents \cup {NoIntent}
BY DEF Row

LEMMA RecalculatedColumns ==
    ASSUME NEW r \in Row, NEW total \in Nat
    PROVE  LET n == Recalculated(r, total) IN
           /\ n \in Row
           /\ n.status = r.status /\ n.number = r.number /\ n.total = total
           /\ n.paid = r.paid /\ n.due = total - r.paid /\ n.pi = r.pi
BY RecalculatedType DEF Recalculated, Row

LEMMA IssuedColumns ==
    ASSUME NEW r \in Row, NEW number \in Nat, NEW k \in Intents \cup {NoIntent}
    PROVE  LET n == Issued(r, number, k) IN
           /\ n \in Row
           /\ n.status = "issued" /\ n.number = number /\ n.total = r.total
           /\ n.paid = r.paid /\ n.due = r.due
BY IssuedType DEF Issued, Row

LEMMA SettledColumns ==
    ASSUME NEW r \in Row, NEW amount \in Int
    PROVE  LET n == Settled(r, amount) IN
           /\ n \in Row
           /\ n.status = IF r.due = amount THEN "paid" ELSE "partially_paid"
           /\ n.number = r.number /\ n.total = r.total
           /\ n.paid = r.paid + amount /\ n.due = r.due - amount /\ n.pi = r.pi
BY SettledType DEF Settled, Row

LEMMA CapturedColumns ==
    ASSUME NEW r \in Row, NEW amount \in Nat
    PROVE  LET n == Captured(r, amount)
               a == Lesser(amount, r.due) IN
           /\ n \in Row
           /\ n.status = IF r.due = a THEN "paid" ELSE "partially_paid"
           /\ n.number = r.number /\ n.total = r.total
           /\ n.paid = r.paid + a /\ n.due = r.due - a /\ n.pi = NoIntent
<1> DEFINE a == Lesser(amount, r.due)
           x == Settled(r, a)
<1>1. a \in Int
  BY RowColumns DEF Lesser
<1> HIDE DEF a
<1>2. /\ x \in Row
      /\ x.status = IF r.due = a THEN "paid" ELSE "partially_paid"
      /\ x.number = r.number /\ x.total = r.total
      /\ x.paid = r.paid + a /\ x.due = r.due - a
  BY <1>1, SettledColumns
<1> HIDE DEF x
<1>3. ASSUME NEW y \in Row
      PROVE  LET n == [y EXCEPT !.pi = NoIntent] IN
             /\ n \in Row /\ n.status = y.status /\ n.number = y.number
             /\ n.total = y.total /\ n.paid = y.paid /\ n.due = y.due /\ n.pi = NoIntent
  BY DEF Row
<1>4. Captured(r, amount) = [x EXCEPT !.pi = NoIntent]
  BY DEF Captured, x, a
<1> QED BY <1>2, <1>3, <1>4 DEF a

LEMMA RefundedColumns ==
    ASSUME NEW r \in Row, NEW amount \in Nat
    PROVE  LET n == Refunded(r, amount) IN
           /\ n \in Row
           /\ n.status = IF r.paid - amount <= 0 THEN "refunded"
                         ELSE IF r.paid - amount < r.total THEN "partially_refunded"
                         ELSE "paid"
           /\ n.number = r.number /\ n.total = r.total
           /\ n.paid = AtLeastZero(r.paid - amount) /\ n.due = r.due /\ n.pi = r.pi
BY RefundedType DEF Refunded, Row

LEMMA CreditedColumns ==
    ASSUME NEW r \in Row, NEW amount \in Nat
    PROVE  LET n == Credited(r, amount)
               left == AtLeastZero(r.due - amount) IN
           /\ n \in Row
           /\ n.status = IF left = 0 THEN "paid"
                         ELSE IF r.paid > 0 THEN "partially_paid" ELSE r.status
           /\ n.number = r.number /\ n.total = r.total
           /\ n.paid = r.paid /\ n.due = left /\ n.pi = r.pi
BY CreditedType DEF Credited, Row

LEMMA PiColumns ==
    ASSUME NEW r \in Row, NEW k \in Intents \cup {NoIntent}
    PROVE  LET n == [r EXCEPT !.pi = k] IN
           /\ n \in Row /\ n.status = r.status /\ n.number = r.number
           /\ n.total = r.total /\ n.paid = r.paid /\ n.due = r.due /\ n.pi = k
BY DEF Row

LEMMA StatusColumns ==
    ASSUME NEW r \in Row, NEW st \in Status
    PROVE  LET n == [r EXCEPT !.status = st] IN
           /\ n \in Row /\ n.status = st /\ n.number = r.number
           /\ n.total = r.total /\ n.paid = r.paid /\ n.due = r.due /\ n.pi = r.pi
BY StatusTypes DEF Row

-----------------------------------------------------------------------------
(* What a step does to the slots and to the rows *)

\* A request goes on with the copy it has loaded ...
Continues(t) ==
    /\ InFlight(t)
    /\ req'[t].op = req[t].op /\ req'[t].inv = req[t].inv
    /\ req'[t].amt = req[t].amt /\ req'[t].snap = req[t].snap
    /\ req'[t].phase \in {"called", "held"}
    /\ req'[t].phase = "held" => Exists(row[req[t].inv])
    /\ UNCHANGED <<row, books, lastNumber>>

\* ... or starts from the committed row, which its handler admits.
Begins(t) ==
    /\ ~InFlight(t)
    /\ req'[t].inv \in Invoices
    /\ req'[t].snap = row[req'[t].inv]
    /\ Exists(row[req'[t].inv])
    /\ Admitted(req'[t])
    /\ req'[t].op = "credit" =>
          req'[t].amt <= row[req'[t].inv].total - books[req'[t].inv].credited
    /\ ~Refunding(t)'
    /\ UNCHANGED tables

Moves(t) == req'[t] = req[t] \/ req'[t] = Idle \/ Continues(t) \/ Begins(t)

LEMMA StartBegins ==
    ASSUME TypeOK, NEW s \in Slots, NEW i \in Invoices, Start(s, i)
    PROVE  Begins(s) /\ \A t \in Slots \ {s} : req'[t] = req[t]
<1> USE DEF AllOps
<1>0. 0 \in Amounts /\ Amounts \subseteq Nat
  BY ConstantsAssumption DEF Amounts
<1> DEFINE New(op, amount, k) == [op |-> op, inv |-> i, amt |-> amount, k |-> k,
                                  snap |-> row[i], phase |-> "read"]
\* Whatever is loaded begins, when its handler admits it.
<1>1. ASSUME NEW op \in AllOps, NEW amount, NEW k, Load(s, op, i, amount, k),
             Admitted(New(op, amount, k)), Exists(row[i]),
             op = "credit" => amount <= row[i].total - books[i].credited
      PROVE  Begins(s) /\ \A t \in Slots \ {s} : req'[t] = req[t]
  <2>1. /\ req'[s] = New(op, amount, k) /\ req[s] = Idle
        /\ \A t \in Slots \ {s} : req'[t] = req[t]
        /\ UNCHANGED tables
    BY <1>1 DEF Load, TypeOK
  <2> QED BY <2>1, <1>1 DEF Begins, Idle, InFlight, Refunding
<1> USE DEF Admitted
<1>2. ASSUME NEW amount \in Amounts, StartEdit(s, i, amount)
      PROVE  Begins(s) /\ \A t \in Slots \ {s} : req'[t] = req[t]
  BY <1>1, <1>2 DEF StartEdit, Exists
<1>3. ASSUME NEW amount \in Amounts, StartCash(s, i, amount)
      PROVE  Begins(s) /\ \A t \in Slots \ {s} : req'[t] = req[t]
  BY <1>1, <1>3 DEF StartCash, Exists, Payable
<1>4. ASSUME NEW amount \in Amounts, StartCredit(s, i, amount)
      PROVE  Begins(s) /\ \A t \in Slots \ {s} : req'[t] = req[t]
  BY <1>1, <1>4 DEF StartCredit, Exists, Creditable, WithinRemainder
<1>5. ASSUME NEW amount \in Amounts, NEW op \in {"cash_refund", "stripe_refund"},
             StartRefund(s, i, amount, op)
      PROVE  Begins(s) /\ \A t \in Slots \ {s} : req'[t] = req[t]
  BY <1>1, <1>5 DEF StartRefund, Exists, Refundable
<1>6. ASSUME NEW amount \in Amounts, NEW op \in {"link", "qr_link"},
             StartLink(s, i, amount, op)
      PROVE  Begins(s) /\ \A t \in Slots \ {s} : req'[t] = req[t]
  BY <1>1, <1>6 DEF StartLink, Exists, Payable
<1>7. ASSUME StartIssue(s, i)
      PROVE  Begins(s) /\ \A t \in Slots \ {s} : req'[t] = req[t]
  <2>1. row[i].status = "draft"
    BY <1>7 DEF StartIssue, ValidTransition, VALID_TRANSITIONS, Status
  <2> QED BY <2>1, <1>0, <1>1, <1>7 DEF StartIssue, Exists
<1>8. ASSUME StartConfirm(s, i)
      PROVE  Begins(s) /\ \A t \in Slots \ {s} : req'[t] = req[t]
  BY <1>1, <1>8 DEF StartConfirm, Exists, Payable
<1>9. ASSUME StartVoid(s, i)
      PROVE  Begins(s) /\ \A t \in Slots \ {s} : req'[t] = req[t]
  <2>1. Exists(row[i])
    BY <1>9 DEF StartVoid, ValidTransition, Status, Exists
  <2> QED BY <2>1, <1>0, <1>1, <1>9 DEF StartVoid
<1>10. ASSUME StartOverdue(s, i)
       PROVE  Begins(s) /\ \A t \in Slots \ {s} : req'[t] = req[t]
  BY <1>0, <1>1, <1>10 DEF StartOverdue, BecomesOverdue, Exists
<1> HIDE DEF Admitted
<1> QED BY <1>2, <1>3, <1>4, <1>5, <1>6, <1>7, <1>8, <1>9, <1>10 DEF Start

\* No step disturbs a request but its own.
LEMMA NextMoves ==
    ASSUME IInv, [Next]_vars
    PROVE  \A t \in Slots : Moves(t)
<1>0. TypeOK
  BY DEF IInv
<1>1. CASE UNCHANGED req
  BY <1>1 DEF Moves
<1>2. ASSUME NEW s \in Slots, NEW i \in Invoices, Start(s, i) PROVE \A t \in Slots : Moves(t)
  BY <1>0, <1>2, StartBegins DEF Moves
<1>3. ASSUME NEW s \in Slots, StripeAnswers(s) PROVE \A t \in Slots : Moves(t)
  <2>1. /\ \A t \in Slots \ {s} : req'[t] = req[t]
        /\ req[s].phase = "read" /\ req'[s].phase = "called"
        /\ req'[s].op = req[s].op /\ req'[s].inv = req[s].inv
        /\ req'[s].amt = req[s].amt /\ req'[s].snap = req[s].snap
        /\ UNCHANGED <<row, books, lastNumber>>
    BY <1>0, <1>3 DEF StripeAnswers, StripeConfirms, StripeRefunds, CancelOldIntent, TypeOK,
                      Request, tables
  <2> QED BY <2>1 DEF Moves, Continues, InFlight
<1>4. ASSUME NEW s \in Slots, Flush(s) \/ LockConfirm(s) PROVE \A t \in Slots : Moves(t)
  <2>1. /\ req' = [req EXCEPT ![s].phase = "held"] /\ req[s].phase # "idle"
        /\ Exists(row[req[s].inv]) /\ UNCHANGED <<row, books, lastNumber>>
    BY <1>4 DEF Flush, LockConfirm, tables
  <2>2. /\ \A t \in Slots \ {s} : req'[t] = req[t]
        /\ req'[s].phase = "held"
        /\ req'[s].op = req[s].op /\ req'[s].inv = req[s].inv
        /\ req'[s].amt = req[s].amt /\ req'[s].snap = req[s].snap
    BY <1>0, <2>1 DEF TypeOK, Request
  <2> QED BY <2>1, <2>2 DEF Moves, Continues, InFlight
<1>5. ASSUME NEW s \in Slots, req' = [req EXCEPT ![s] = Idle] PROVE \A t \in Slots : Moves(t)
  BY <1>0, <1>5 DEF Moves, TypeOK
<1>6. ASSUME NEW s \in Slots, NEW k \in Intents, DeliverWebhook(s, k)
      PROVE  \A t \in Slots : Moves(t)
  <2>1. /\ \A t \in Slots \ {s} : req'[t] = req[t]
        /\ req[s] = Idle /\ UNCHANGED tables
        /\ req'[s].op = "webhook" /\ req'[s].inv = intent[k].inv
        /\ req'[s].snap = row[intent[k].inv] /\ Payable(row[intent[k].inv])
    BY <1>0, <1>6 DEF DeliverWebhook, Recordable, TypeOK
  <2>2. intent[k].inv \in Invoices
    BY <1>6 DEF IInv, IntentInv, DeliverWebhook
  <2> QED BY <2>1, <2>2 DEF Moves, Begins, Admitted, AllOps, Payable, Exists, Idle, InFlight,
                            Refunding
<1>7. ASSUME NEW i \in Invoices, WholeStep(i) PROVE UNCHANGED req
  BY <1>7 DEF WholeStep, CreateDraft, CreateIssued, BulkDelete, DueDatePasses, DeferDueDate
<1>8. ASSUME NEW k \in Intents, CustomerPays(k) \/ AnswerEvent(k) PROVE UNCHANGED req
  BY <1>8 DEF CustomerPays, AnswerEvent
<1>9. ASSUME NEW s \in Slots, Finish(s) \/ Abort(s) PROVE req' = [req EXCEPT ![s] = Idle]
  BY <1>9, FinishCommits DEF Commit, Abort
<1>10. CASE UNCHANGED vars
  BY <1>10, <1>1 DEF vars
<1>11. CASE Next
  BY <1>11, <1>1, <1>2, <1>3, <1>4, <1>5, <1>6, <1>7, <1>8, <1>9 DEF Next, WholeStep
<1> QED BY <1>10, <1>11

\* The copy a session flushes, and the number it may have drawn.
SoundCopy(s, new) ==
    /\ new \in Row
    /\ new.paid >= 0 /\ new.due >= 0
    /\ new.total \in Amounts
    /\ new.status \in Status
    /\ new.status = "draft" => req[s].op = "edit" /\ new.paid = req[s].snap.paid
    /\ \/ new.number = req[s].snap.number /\ UNCHANGED lastNumber
       \/ new.number = lastNumber + 1 /\ lastNumber' = lastNumber + 1

\* The sums of an invoice change only with a payment, a refund or a credit note.
BooksMove(s) ==
    \/ UNCHANGED books
    \/ /\ req[s].snap.status # "draft"
       /\ \A i \in Invoices \ {req[s].inv} : books'[i] = books[i]

LEMMA FinishCopy ==
    ASSUME IInv, RowInv, CopyInv, NEW s \in Slots, Finish(s)
    PROVE  /\ \E op, new : Commit(s, op, new) /\ SoundCopy(s, new)
           /\ BooksMove(s)
<1> DEFINE r == req[s]
<1>1. PICK op, new : Commit(s, op, new)
  BY FinishCommits
<1>2. InFlight(s) /\ Holds(s)
  BY <1>1 DEF Commit, InFlight, Holds
<1>3. /\ r.snap \in Row /\ r.amt \in Nat /\ r.inv \in Invoices
      /\ Admitted(r) /\ Sound(r.snap) /\ TypeOK
      /\ Captures(s) => Lesser(r.amt, r.snap.due) > 0
  BY <1>2, RequestType DEF IInv, CopyInv, LockInv, CaptureInv
<1>4. /\ r.snap.paid \in Int /\ r.snap.due \in Int /\ r.snap.total \in Nat
      /\ r.snap.status \in RowStatus
  BY <1>3 DEF Row
<1>5. CASE CommitEdit(s)
  <2>1. /\ Commit(s, "edit", Recalculated(r.snap, r.amt)) /\ r.op = "edit"
        /\ UNCHANGED <<books, lastNumber>>
    BY <1>5 DEF CommitEdit, Commit
  <2>2. r.amt \in Amounts /\ r.snap.status = "draft" /\ r.snap.paid = 0
    BY <2>1, <1>3 DEF Admitted, Sound
  <2>3. SoundCopy(s, Recalculated(r.snap, r.amt))
    <3> DEFINE n == Recalculated(r.snap, r.amt)
    <3>1. /\ n \in Row /\ n.status = r.snap.status /\ n.number = r.snap.number
          /\ n.total = r.amt /\ n.paid = r.snap.paid /\ n.due = r.amt - r.snap.paid
      BY <1>3, RecalculatedColumns
    <3> HIDE DEF n
    <3>2. SoundCopy(s, n)
      BY <3>1, <2>1, <2>2, <1>3, <1>4 DEF SoundCopy, Status, Amounts
    <3> QED BY <3>2 DEF n
  <2> QED BY <2>1, <2>3 DEF BooksMove
<1>6. ASSUME NEW k \in Intents \cup {NoIntent}, CommitIssue(s, k)
      PROVE  (\E o, n : Commit(s, o, n) /\ SoundCopy(s, n)) /\ BooksMove(s)
  <2>1. /\ Commit(s, "issue", Issued(r.snap, lastNumber + 1, k))
        /\ lastNumber' = lastNumber + 1 /\ UNCHANGED books
    BY <1>6 DEF CommitIssue, NextNumber
  <2>2. lastNumber + 1 \in Nat
    BY <1>3 DEF TypeOK
  <2>3. SoundCopy(s, Issued(r.snap, lastNumber + 1, k))
    <3> DEFINE n == Issued(r.snap, lastNumber + 1, k)
    <3>1. /\ n \in Row /\ n.status = "issued" /\ n.number = lastNumber + 1
          /\ n.total = r.snap.total /\ n.paid = r.snap.paid /\ n.due = r.snap.due
      BY <1>3, <2>2, IssuedColumns
    <3> HIDE DEF n
    <3>2. SoundCopy(s, n)
      BY <3>1, <2>1, <2>2, <1>3, <1>4 DEF SoundCopy, Status, Sound
    <3> QED BY <3>2 DEF n
  <2> QED BY <2>1, <2>3 DEF BooksMove
<1>7. CASE CommitCash(s)
  <2>1. /\ Commit(s, "cash", Settled(r.snap, r.amt)) /\ r.op = "cash"
        /\ UNCHANGED lastNumber
        /\ books' = [books EXCEPT ![r.inv].gross = @ + r.amt]
    BY <1>7 DEF CommitCash, Commit
  <2>2. r.amt <= r.snap.due /\ Payable(r.snap)
    BY <2>1, <1>3, <1>4 DEF Admitted
  <2>3. SoundCopy(s, Settled(r.snap, r.amt))
    <3> DEFINE n == Settled(r.snap, r.amt)
    <3>0. r.snap \in Row /\ r.amt \in Int
      BY <1>3
    <3>1. /\ n \in Row /\ n.status \in {"paid", "partially_paid"}
          /\ n.number = r.snap.number /\ n.total = r.snap.total
          /\ n.paid = r.snap.paid + r.amt /\ n.due = r.snap.due - r.amt
      BY <3>0, SettledColumns
    <3> HIDE DEF n
    <3>2. SoundCopy(s, n)
      BY <3>1, <2>1, <2>2, <1>3, <1>4 DEF SoundCopy, Status, Sound
    <3> QED BY <3>2 DEF n
  <2>4. BooksMove(s)
    BY <2>1, <2>2, <1>3 DEF BooksMove, Payable, TypeOK
  <2> QED BY <2>1, <2>3, <2>4
<1>8. ASSUME NEW o \in {"webhook", "confirm"}, CommitCapture(s, o)
      PROVE  (\E p, n : Commit(s, p, n) /\ SoundCopy(s, n)) /\ BooksMove(s)
  <2> DEFINE a == Lesser(r.amt, r.snap.due)
  <2>1. /\ Commit(s, o, Captured(r.snap, r.amt)) /\ r.op = o
        /\ UNCHANGED lastNumber
        /\ books' = [books EXCEPT ![r.inv].gross = @ + a]
    BY <1>8 DEF CommitCapture, Commit
  <2>2. a <= r.snap.due /\ a > 0 /\ a \in Int /\ Payable(r.snap)
    BY <2>1, <1>3, <1>4 DEF Admitted, Captures, Lesser
  <2>5. SoundCopy(s, Captured(r.snap, r.amt))
    <3> HIDE DEF a
    <3>1. LET n == Captured(r.snap, r.amt) IN
          /\ n \in Row /\ n.status \in {"paid", "partially_paid"}
          /\ n.number = r.snap.number /\ n.total = r.snap.total
          /\ n.paid = r.snap.paid + a /\ n.due = r.snap.due - a
      BY <1>3, CapturedColumns DEF a
    <3> QED BY <2>1, <2>2, <3>1, <1>3, <1>4 DEF SoundCopy, Status, Sound
  <2>6. BooksMove(s)
    BY <2>1, <2>2, <1>3 DEF BooksMove, Payable, TypeOK
  <2> QED BY <2>1, <2>5, <2>6
<1>9. ASSUME NEW o \in {"cash_refund", "stripe_refund"}, CommitRefund(s, o)
      PROVE  (\E p, n : Commit(s, p, n) /\ SoundCopy(s, n)) /\ BooksMove(s)
  <2>1. /\ Commit(s, o, Refunded(r.snap, r.amt)) /\ r.op = o
        /\ UNCHANGED lastNumber
        /\ books' = [books EXCEPT ![r.inv].refunded = @ + r.amt]
    BY <1>9 DEF CommitRefund, Commit
  <2>2. Refundable(r.snap)
    BY <2>1, <1>3 DEF Admitted
  <2>3. SoundCopy(s, Refunded(r.snap, r.amt))
    <3> DEFINE n == Refunded(r.snap, r.amt)
    <3>1. /\ n \in Row /\ n.status \in {"refunded", "partially_refunded", "paid"}
          /\ n.number = r.snap.number /\ n.total = r.snap.total
          /\ n.paid = AtLeastZero(r.snap.paid - r.amt) /\ n.due = r.snap.due
      BY <1>3, RefundedColumns
    <3> HIDE DEF n
    <3>2. SoundCopy(s, n)
      BY <3>1, <2>1, <2>2, <1>3, <1>4 DEF SoundCopy, AtLeastZero, Status, Sound
    <3> QED BY <3>2 DEF n
  <2>4. BooksMove(s)
    BY <2>1, <2>2, <1>3 DEF BooksMove, Refundable, TypeOK
  <2> QED BY <2>1, <2>3, <2>4
<1>10. CASE CommitCredit(s)
  <2>1. /\ Commit(s, "credit", Credited(r.snap, r.amt)) /\ r.op = "credit"
        /\ UNCHANGED lastNumber
        /\ books' = [books EXCEPT ![r.inv].credited = @ + r.amt]
    BY <1>10 DEF CommitCredit, Commit
  <2>2. Creditable(r.snap)
    BY <2>1, <1>3 DEF Admitted
  <2>3. SoundCopy(s, Credited(r.snap, r.amt))
    <3> DEFINE n == Credited(r.snap, r.amt)
    <3>1. /\ n \in Row /\ n.status \in {"paid", "partially_paid", r.snap.status}
          /\ n.number = r.snap.number /\ n.total = r.snap.total
          /\ n.paid = r.snap.paid /\ n.due = AtLeastZero(r.snap.due - r.amt)
      BY <1>3, CreditedColumns
    <3> HIDE DEF n
    <3>2. SoundCopy(s, n)
      BY <3>1, <2>1, <2>2, <1>3, <1>4 DEF SoundCopy, AtLeastZero, Status, Sound, Creditable
    <3> QED BY <3>2 DEF n
  <2>4. BooksMove(s)
    BY <2>1, <2>2, <1>3 DEF BooksMove, Creditable, TypeOK
  <2> QED BY <2>1, <2>3, <2>4
<1>11. ASSUME NEW o \in {"link", "qr_link"}, NEW k \in Intents, CommitLink(s, o, k)
       PROVE  (\E p, n : Commit(s, p, n) /\ SoundCopy(s, n)) /\ BooksMove(s)
  <2>1. /\ Commit(s, o, [r.snap EXCEPT !.pi = k]) /\ r.op = o
        /\ UNCHANGED <<books, lastNumber>>
    BY <1>11 DEF CommitLink, Commit
  <2>2. Payable(r.snap)
    BY <2>1, <1>3 DEF Admitted
  <2>3. SoundCopy(s, [r.snap EXCEPT !.pi = k])
    <3> DEFINE n == [r.snap EXCEPT !.pi = k]
    <3>1. /\ n \in Row /\ n.status = r.snap.status /\ n.number = r.snap.number
          /\ n.total = r.snap.total /\ n.paid = r.snap.paid /\ n.due = r.snap.due
      BY <1>3, PiColumns
    <3> HIDE DEF n
    <3>2. SoundCopy(s, n)
      BY <3>1, <2>1, <2>2, <1>3, <1>4 DEF SoundCopy, Status, Sound, Payable
    <3> QED BY <3>2 DEF n
  <2> QED BY <2>1, <2>3 DEF BooksMove
<1>12. ASSUME NEW st \in {"voided", "overdue"}, NEW o,
              Commit(s, o, [r.snap EXCEPT !.status = st]), UNCHANGED <<books, lastNumber>>
       PROVE  (\E p, n : Commit(s, p, n) /\ SoundCopy(s, n)) /\ BooksMove(s)
  <2>0. st \in Status /\ NoIntent \in Intents \cup {NoIntent}
    BY DEF Status
  <2>1. SoundCopy(s, [r.snap EXCEPT !.status = st])
    <3> DEFINE n == [r.snap EXCEPT !.status = st]
    <3>1. /\ n \in Row /\ n.status = st /\ n.number = r.snap.number
          /\ n.total = r.snap.total /\ n.paid = r.snap.paid /\ n.due = r.snap.due
      BY <1>3, <2>0, StatusColumns
    <3> HIDE DEF n
    <3>2. SoundCopy(s, n)
      BY <3>1, <1>12, <2>0, <1>3, <1>4 DEF SoundCopy, Sound
    <3> QED BY <3>2 DEF n
  <2> QED BY <1>12, <2>1 DEF BooksMove
<1> QED BY <1>5, <1>6, <1>7, <1>8, <1>9, <1>10, <1>11, <1>12
        DEF Finish, CommitVoid, CommitOverdue

\* A commit changes one row, and of it the columns that differ from the loaded copy.
LEMMA CommitRow ==
    ASSUME TypeOK, LockInv, NEW s \in Slots, NEW op, NEW new \in Row, Commit(s, op, new)
    PROVE  LET i == req[s].inv
               c == row[i]
               l == req[s].snap
               w == row'[i] IN
           /\ i \in Invoices /\ Holds(s) /\ req[s].op = op
           /\ \A j \in Invoices \ {i} : row'[j] = row[j]
           /\ w = Written(c, l, new)
           /\ w.status = IF new.status # l.status THEN new.status ELSE c.status
           /\ w.number = IF new.number # l.number THEN new.number ELSE c.number
           /\ w.total = IF new.total # l.total THEN new.total ELSE c.total
           /\ w.paid = IF new.paid # l.paid THEN new.paid ELSE c.paid
           /\ w.due = IF new.due # l.due THEN new.due ELSE c.due
<1>1. req[s].inv \in Invoices /\ Holds(s) /\ req[s].op = op
  BY DEF Commit, LockInv, InFlight, Holds
<1>2. /\ row'[req[s].inv] = Written(row[req[s].inv], req[s].snap, new)
      /\ \A j \in Invoices \ {req[s].inv} : row'[j] = row[j]
  BY <1>1 DEF Commit, TypeOK
<1> QED BY <1>1, <1>2 DEF Written, Column

-----------------------------------------------------------------------------
(* The rows and their copies *)

\* The steps that leave the rows, the books and the numbering alone.
LEMMA RowsUntouched ==
    ASSUME IInv, [Next]_vars
    PROVE  \/ UNCHANGED <<row, books, lastNumber>>
           \/ \E i \in Invoices : WholeStep(i)
           \/ \E s \in Slots : Finish(s)
<1>1. ASSUME NEW s \in Slots, NEW i \in Invoices, Start(s, i)
      PROVE  UNCHANGED <<row, books, lastNumber>>
  BY <1>1, StartBegins DEF Begins, tables, IInv
<1>2. ASSUME NEW s \in Slots,
             \/ StripeAnswers(s) \/ Flush(s) \/ LockConfirm(s) \/ Abort(s)
             \/ \E k \in Intents : DeliverWebhook(s, k)
      PROVE  UNCHANGED <<row, books, lastNumber>>
  BY <1>2 DEF StripeAnswers, StripeConfirms, StripeRefunds, CancelOldIntent, Flush,
              LockConfirm, Abort, DeliverWebhook, tables
<1>3. ASSUME NEW k \in Intents, CustomerPays(k) \/ AnswerEvent(k)
      PROVE  UNCHANGED <<row, books, lastNumber>>
  BY <1>3 DEF CustomerPays, AnswerEvent
<1>4. CASE UNCHANGED vars
  BY <1>4 DEF vars
<1>5. CASE Next
  BY <1>5, <1>1, <1>2, <1>3 DEF Next, WholeStep
<1> QED BY <1>4, <1>5

\* What a step that is a transaction of its own leaves in the rows.
LEMMA WholeStepRows ==
    ASSUME TypeOK, NEW i \in Invoices, WholeStep(i)
    PROVE  \/ UNCHANGED <<row, books, lastNumber>>
           \/ /\ row[i].status = "none"
              /\ \A j \in Invoices \ {i} : row'[j] = row[j]
              /\ \E total \in Amounts, k \in Intents \cup {NoIntent} :
                    \/ /\ row'[i] = NewRow("draft", 0, total, NoIntent)
                       /\ UNCHANGED lastNumber
                    \/ /\ row'[i] = NewRow("issued", lastNumber + 1, total, k)
                       /\ lastNumber' = lastNumber + 1
              /\ UNCHANGED books
           \/ /\ Exists(row[i]) /\ lock[i] = NoSlot
              /\ row'[i] = [BlankRow EXCEPT !.status = "deleted", !.number = row[i].number]
              /\ \A j \in Invoices \ {i} : row'[j] = row[j] /\ books'[j] = books[j]
              /\ books'[i] = NoBooks
              /\ UNCHANGED lastNumber
<1>1. ASSUME NEW total \in Amounts, CreateDraft(i, total)
      PROVE  /\ row[i].status = "none" /\ UNCHANGED <<books, lastNumber>>
             /\ row'[i] = NewRow("draft", 0, total, NoIntent)
             /\ \A j \in Invoices \ {i} : row'[j] = row[j]
  BY <1>1 DEF CreateDraft, TypeOK
<1>2. ASSUME NEW total \in Amounts, NEW k \in Intents \cup {NoIntent},
             CreateIssued(i, total, k)
      PROVE  /\ row[i].status = "none" /\ UNCHANGED books
             /\ row'[i] = NewRow("issued", lastNumber + 1, total, k)
             /\ lastNumber' = lastNumber + 1
             /\ \A j \in Invoices \ {i} : row'[j] = row[j]
  BY <1>2 DEF CreateIssued, NextNumber, TypeOK
<1>3. ASSUME BulkDelete(i)
      PROVE  /\ Exists(row[i]) /\ lock[i] = NoSlot
             /\ row'[i] = [BlankRow EXCEPT !.status = "deleted", !.number = row[i].number]
             /\ \A j \in Invoices \ {i} : row'[j] = row[j] /\ books'[j] = books[j]
             /\ books'[i] = NoBooks
             /\ UNCHANGED lastNumber
  BY <1>3 DEF BulkDelete, RowUnlocked, TypeOK
<1>4. ASSUME DueDatePasses(i) \/ DeferDueDate(i)
      PROVE  UNCHANGED <<row, books, lastNumber>>
  BY <1>4 DEF DueDatePasses, DeferDueDate
<1> QED BY <1>1, <1>2, <1>3, <1>4 DEF WholeStep

LEMMA RowKept ==
    ASSUME IInv, RowInv, CopyInv, [Next]_vars
    PROVE  RowInv' /\ lastNumber' \in Nat /\ lastNumber' >= lastNumber
<1>0. TypeOK /\ LockInv /\ lastNumber \in Nat /\ 0 \in Amounts /\ Amounts \subseteq Nat
  BY ConstantsAssumption DEF IInv, TypeOK, Amounts
<1>1. CASE UNCHANGED <<row, books, lastNumber>>
  BY <1>0, <1>1 DEF RowInv, Sound
<1>2. ASSUME NEW i \in Invoices, WholeStep(i)
      PROVE  RowInv' /\ lastNumber' \in Nat /\ lastNumber' >= lastNumber
  <2>1. ASSUME NEW j \in Invoices, lastNumber' \in Nat, lastNumber' >= lastNumber,
               row'[j] = row[j], books'[j] = books[j]
        PROVE  /\ Sound(row[j])'
               /\ row'[j].status = "none" => row'[j] = BlankRow
               /\ row'[j].status \in {"none", "draft"} => books'[j] = NoBooks
    <3>1. row[j].number \in Nat
      BY <1>0 DEF TypeOK, Row
    <3> QED BY <2>1, <3>1, <1>0 DEF RowInv, Sound
  <2>2. CASE /\ row[i].status = "none"
             /\ \A j \in Invoices \ {i} : row'[j] = row[j]
             /\ \E total \in Amounts, k \in Intents \cup {NoIntent} :
                   \/ /\ row'[i] = NewRow("draft", 0, total, NoIntent)
                      /\ UNCHANGED lastNumber
                   \/ /\ row'[i] = NewRow("issued", lastNumber + 1, total, k)
                      /\ lastNumber' = lastNumber + 1
             /\ UNCHANGED books
    <3>1. lastNumber' \in Nat /\ lastNumber' >= lastNumber
      BY <2>2, <1>0
    <3>2. Sound(row[i])' /\ row'[i].status # "none" /\ books'[i] = NoBooks
      BY <2>2, <1>0 DEF NewRow, Sound, RowInv
    <3> QED BY <2>1, <2>2, <3>1, <3>2 DEF RowInv
  <2>3. CASE /\ Exists(row[i])
             /\ row'[i] = [BlankRow EXCEPT !.status = "deleted", !.number = row[i].number]
             /\ \A j \in Invoices \ {i} : row'[j] = row[j] /\ books'[j] = books[j]
             /\ UNCHANGED lastNumber
    <3>1. row'[i].status = "deleted" /\ Sound(row[i])'
      BY <2>3, <1>0 DEF BlankRow, Sound, RowInv
    <3>2. lastNumber' \in Nat /\ lastNumber' >= lastNumber
      BY <2>3, <1>0
    <3> QED BY <2>1, <2>3, <3>1, <3>2 DEF RowInv
  <2> QED BY <1>0, <1>1, <1>2, <2>2, <2>3, WholeStepRows
<1>3. ASSUME NEW s \in Slots, Finish(s)
      PROVE  RowInv' /\ lastNumber' \in Nat /\ lastNumber' >= lastNumber
  <2> DEFINE i == req[s].inv
             l == req[s].snap
  <2>1. PICK op, new : Commit(s, op, new) /\ SoundCopy(s, new)
    BY <1>3, FinishCopy
  <2>2. /\ i \in Invoices /\ Holds(s)
        /\ \A j \in Invoices \ {i} : row'[j] = row[j]
        /\ row'[i].status = IF new.status # l.status THEN new.status ELSE row[i].status
        /\ row'[i].number = IF new.number # l.number THEN new.number ELSE row[i].number
        /\ row'[i].total = IF new.total # l.total THEN new.total ELSE row[i].total
        /\ row'[i].paid = IF new.paid # l.paid THEN new.paid ELSE row[i].paid
        /\ row'[i].due = IF new.due # l.due THEN new.due ELSE row[i].due
    BY <2>1, <1>0, CommitRow DEF SoundCopy
  <2>3. /\ Sound(l) /\ row[i].status # "none"
        /\ row[i].status = "draft" => l.status = "draft"
        /\ l.number \in Nat /\ Sound(row[i]) /\ row[i].number \in Nat
    BY <2>2, <1>0, RequestType DEF CopyInv, RowInv, Holds, InFlight, TypeOK, Row
  <2>4. lastNumber' \in Nat /\ lastNumber' >= lastNumber
    BY <2>1, <1>0 DEF SoundCopy
  <2>5. /\ row'[i].paid >= 0 /\ row'[i].due >= 0 /\ row'[i].total \in Amounts
        /\ row'[i].number <= lastNumber'
    BY <2>1, <2>2, <2>3, <1>0 DEF SoundCopy, Sound
  <2>6. row'[i].status # "none"
    BY <2>1, <2>2, <2>3 DEF SoundCopy, Status
  <2>7. row'[i].status = "draft" => row[i].status = "draft" /\ row'[i].paid = row[i].paid
    <3> SUFFICES ASSUME row'[i].status = "draft"
                 PROVE  row[i].status = "draft" /\ row'[i].paid = row[i].paid
      OBVIOUS
    <3>1. CASE new.status # l.status
      <4>1. req[s].op = "edit" /\ new.status = "draft"
        BY <2>1, <2>2, <3>1 DEF SoundCopy
      <4> QED BY <4>1, <3>1, <2>2 DEF CopyInv, Admitted, Holds, InFlight
    <3>2. CASE new.status = l.status
      <4>1. row[i].status = "draft" /\ l.status = "draft"
        BY <2>2, <2>3, <3>2
      <4>2. new.paid = l.paid
        BY <4>1, <3>2, <2>1 DEF SoundCopy
      <4> QED BY <4>1, <4>2, <2>2
    <3> QED BY <3>1, <3>2
  <2>8. row'[i].status = "draft" => books'[i] = NoBooks /\ row'[i].paid = 0
    <3> SUFFICES ASSUME row'[i].status = "draft"
                 PROVE  books'[i] = NoBooks /\ row'[i].paid = 0
      OBVIOUS
    <3>1. l.status = "draft" /\ books[i] = NoBooks /\ row'[i].paid = 0
      BY <2>2, <2>3, <2>7 DEF RowInv, Sound
    <3> QED BY <1>3, <3>1, FinishCopy DEF BooksMove
  <2>9. ASSUME NEW j \in Invoices \ {i}
        PROVE  /\ Sound(row[j])'
               /\ row'[j].status = "none" => row'[j] = BlankRow
               /\ row'[j].status \in {"none", "draft"} => books'[j] = NoBooks
    <3>1. row[j].number \in Nat /\ row'[j] = row[j]
      BY <1>0, <2>2 DEF TypeOK, Row
    <3>2. books'[j] = books[j]
      BY <1>3, FinishCopy DEF BooksMove
    <3> QED BY <3>1, <3>2, <2>4, <1>0 DEF RowInv, Sound
  <2> QED BY <2>4, <2>5, <2>6, <2>8, <2>9 DEF RowInv, Sound
<1> QED BY <1>1, <1>2, <1>3, RowsUntouched

\* An invoice in flight has a row, and a row a session holds is not deleted.
LEMMA RowsStay ==
    ASSUME IInv, RowInv, CopyInv, [Next]_vars, NEW t \in Slots, InFlight(t), InFlight(t)'
    PROVE  LET i == req[t].inv IN
           /\ row'[i].status # "none"
           /\ row'[i].status = "draft" => row[i].status = "draft"
           /\ Holds(t) /\ Holds(t)' => Exists(row'[i])
<1> DEFINE i == req[t].inv
<1>0. /\ TypeOK /\ LockInv /\ i \in Invoices /\ row[i].status # "none"
      /\ Holds(t) => Exists(row[i]) /\ lock[i] = t
  BY DEF IInv, LockInv, CopyInv
<1>1. CASE UNCHANGED <<row, books, lastNumber>>
  BY <1>0, <1>1
<1>2. ASSUME NEW j \in Invoices, WholeStep(j)
      PROVE  /\ row'[i].status # "none"
             /\ row'[i].status = "draft" => row[i].status = "draft"
             /\ Holds(t) /\ Holds(t)' => Exists(row'[i])
  <2>1. CASE row'[i] = row[i]
    BY <1>0, <2>1
  <2>2. CASE i = j /\ lock[j] = NoSlot /\ row'[j].status = "deleted"
    BY <1>0, <2>2, ConstantsAssumption
  <2> QED BY <1>0, <1>2, <2>1, <2>2, WholeStepRows DEF BlankRow
<1>3. ASSUME NEW s \in Slots, Finish(s)
      PROVE  /\ row'[i].status # "none"
             /\ row'[i].status = "draft" => row[i].status = "draft"
             /\ Holds(t) /\ Holds(t)' => Exists(row'[i])
  <2> DEFINE l == req[s].snap
  <2>1. PICK op, new : Commit(s, op, new) /\ SoundCopy(s, new)
    BY <1>3, FinishCopy
  <2>2. /\ Holds(s)
        /\ \A j \in Invoices \ {req[s].inv} : row'[j] = row[j]
        /\ row'[req[s].inv].status = IF new.status # l.status THEN new.status
                                     ELSE row[req[s].inv].status
    BY <2>1, <1>0, CommitRow DEF SoundCopy
  <2>3. ~Holds(s)'
    BY <2>1, <1>0 DEF Commit, Idle, Holds, TypeOK
  <2>4. CASE req[s].inv # i
    BY <2>2, <2>4, <1>0
  <2>5. CASE req[s].inv = i
    <3>1. new.status \in Status /\ (new.status = "draft" => l.status = "draft")
      BY <2>1, <2>2 DEF SoundCopy, CopyInv, Admitted, Holds, InFlight
    <3>2. s # t => ~Holds(t)
      BY <2>2, <2>5, <1>0 DEF LockInv
    <3> QED BY <3>1, <3>2, <2>2, <2>3, <2>5, <1>0 DEF Status
  <2> QED BY <2>4, <2>5
<1> QED BY <1>1, <1>2, <1>3, RowsUntouched

LEMMA CopyKept ==
    ASSUME IInv, RowInv, CopyInv, [Next]_vars
    PROVE  CopyInv'
<1> SUFFICES ASSUME NEW t \in Slots, InFlight(t)'
             PROVE  /\ Admitted(req'[t])
                    /\ Sound(req[t].snap)'
                    /\ row'[req'[t].inv].status # "none"
                    /\ row'[req'[t].inv].status = "draft" => req'[t].snap.status = "draft"
                    /\ Holds(t)' => Exists(row'[req'[t].inv])
  BY DEF CopyInv
<1>0. /\ TypeOK /\ lastNumber \in Nat /\ lastNumber' \in Nat /\ lastNumber' >= lastNumber
      /\ req[t].snap.number \in Nat
  BY RowKept, RequestType DEF IInv, TypeOK, Row
<1>1. Moves(t)
  BY NextMoves
<1>2. ASSUME InFlight(t), Admitted(req'[t]), req'[t].snap = req[t].snap,
             req'[t].inv = req[t].inv, Holds(t)' => Exists(row'[req[t].inv])
      PROVE  /\ Sound(req[t].snap)'
             /\ row'[req'[t].inv].status # "none"
             /\ row'[req'[t].inv].status = "draft" => req'[t].snap.status = "draft"
             /\ Holds(t)' => Exists(row'[req'[t].inv])
  <2>1. Sound(req[t].snap)'
    BY <1>0, <1>2 DEF CopyInv, Sound
  <2> QED BY <1>2, <2>1, RowsStay DEF CopyInv
<1>3. CASE req'[t] = req[t]
  <2>1. InFlight(t) /\ Admitted(req'[t])
    BY <1>3 DEF InFlight, CopyInv
  <2>2. Holds(t)' => Exists(row'[req[t].inv])
    BY <1>3, <2>1, RowsStay DEF Holds
  <2> QED BY <1>2, <1>3, <2>1, <2>2
<1>4. CASE req'[t] = Idle
  BY <1>4 DEF Idle, InFlight
<1>5. CASE Continues(t)
  <2>1. Admitted(req'[t])
    BY <1>5 DEF Continues, CopyInv, Admitted
  <2> QED BY <1>2, <1>5, <2>1 DEF Continues, Holds
<1>6. CASE Begins(t)
  <2>1. Sound(row[req'[t].inv])
    BY <1>6 DEF Begins, RowInv
  <2> QED BY <1>6, <2>1 DEF Begins, Sound, Exists, tables
<1> QED BY <1>1, <1>3, <1>4, <1>5, <1>6 DEF Moves

-----------------------------------------------------------------------------
(* Numbers *)

LEMMA NumbersKept ==
    ASSUME IInv, RowInv, CopyInv, UniqueNumbers, [Next]_vars
    PROVE  UniqueNumbers'
\* Only one row changes its number, to one that no row has had.
<1> DEFINE Fresh(i) == /\ \A j \in Invoices \ {i} : row'[j] = row[j]
                       /\ row'[i].number \in {0, row[i].number, lastNumber + 1}
<1>0. /\ TypeOK /\ LockInv
      /\ \A j \in Invoices : row[j].number \in Nat /\ row[j].number <= lastNumber
  BY DEF IInv, RowInv, Sound, TypeOK, Row
<1>1. ASSUME NEW i \in Invoices, Fresh(i) PROVE UniqueNumbers'
  BY <1>0, <1>1 DEF UniqueNumbers, TypeOK
<1>2. CASE UNCHANGED <<row, books, lastNumber>>
  BY <1>2 DEF UniqueNumbers
<1>3. ASSUME NEW i \in Invoices, WholeStep(i) PROVE UniqueNumbers'
  <2>1. ASSUME NEW total, CreateDraft(i, total) PROVE Fresh(i)
    BY <1>0, <2>1 DEF CreateDraft, NewRow, TypeOK
  <2>2. ASSUME NEW total, NEW k, CreateIssued(i, total, k) PROVE Fresh(i)
    BY <1>0, <2>2 DEF CreateIssued, NewRow, NextNumber, TypeOK
  <2>3. ASSUME BulkDelete(i) PROVE Fresh(i)
    BY <1>0, <2>3 DEF BulkDelete, BlankRow, TypeOK
  <2>4. DueDatePasses(i) \/ DeferDueDate(i) => UNCHANGED row
    BY DEF DueDatePasses, DeferDueDate
  <2>5. UNCHANGED row => UniqueNumbers'
    BY DEF UniqueNumbers
  <2> HIDE DEF Fresh
  <2> QED BY <1>1, <1>3, <2>1, <2>2, <2>3, <2>4, <2>5 DEF WholeStep
<1>4. ASSUME NEW s \in Slots, Finish(s) PROVE UniqueNumbers'
  <2>1. PICK op, new : Commit(s, op, new) /\ SoundCopy(s, new)
    BY <1>4, FinishCopy
  <2>2. /\ req[s].inv \in Invoices
        /\ \A j \in Invoices \ {req[s].inv} : row'[j] = row[j]
        /\ row'[req[s].inv].number = IF new.number # req[s].snap.number THEN new.number
                                     ELSE row[req[s].inv].number
    BY <2>1, <1>0, CommitRow DEF SoundCopy
  <2>3. Fresh(req[s].inv)
    BY <2>1, <2>2 DEF SoundCopy
  <2> QED BY <1>1, <2>2, <2>3
<1> QED BY <1>2, <1>3, <1>4, RowsUntouched

-----------------------------------------------------------------------------
(* Refunds *)

LEMMA CountTo ==
    ASSUME NEW n \in Nat
    PROVE  IsFiniteSet(1..n) /\ Cardinality(1..n) = n
<1>1. 1 \in Int /\ n \in Int
  OBVIOUS
<1>2. IsFiniteSet(1..n) /\ Cardinality(1..n) = IF 1 > n THEN 0 ELSE n - 1 + 1
  BY <1>1, FS_Interval, Zenon
<1> QED BY <1>2

LEMMA CountDisjoint ==
    ASSUME NEW S, IsFiniteSet(S), NEW T, IsFiniteSet(T), S \cap T = {}
    PROVE  IsFiniteSet(S \cup T) /\ Cardinality(S \cup T) = Cardinality(S) + Cardinality(T)
<1>1. /\ IsFiniteSet(S \cup T)
      /\ Cardinality(S \cup T) = Cardinality(S) + Cardinality(T) - Cardinality(S \cap T)
  BY FS_Union, Zenon
<1>2. Cardinality(S \cap T) = 0 /\ Cardinality(S) \in Nat /\ Cardinality(T) \in Nat
  BY FS_EmptySet, FS_CardinalityType
<1> QED BY <1>1, <1>2

LEMMA CountRemoved ==
    ASSUME NEW S, IsFiniteSet(S), NEW T, T \subseteq S
    PROVE  IsFiniteSet(S \ T) /\ Cardinality(S \ T) = Cardinality(S) - Cardinality(T)
<1>1. S \cap T = T
  OBVIOUS
<1>2. IsFiniteSet(S \ T) /\ Cardinality(S \ T) = Cardinality(S) - Cardinality(S \cap T)
  BY FS_Difference, Zenon
<1> QED BY <1>1, <1>2

LEMMA UnitsCount ==
    ASSUME TypeOK, NEW s \in Slots
    PROVE  IsFiniteSet(Units(s)) /\ Cardinality(Units(s)) = req[s].amt
<1> DEFINE n == req[s].amt
<1>1. n \in Nat
  BY RequestType
<1> HIDE DEF n
<1>2. IsFiniteSet({s}) /\ Cardinality({s}) = 1
  BY FS_Singleton
<1>3. IsFiniteSet(1..n) /\ Cardinality(1..n) = n
  BY <1>1, CountTo
<1>4. /\ IsFiniteSet({s} \X (1..n))
      /\ Cardinality({s} \X (1..n)) = Cardinality({s}) * Cardinality(1..n)
  BY <1>2, <1>3, FS_Product, Zenon
<1> QED BY <1>1, <1>2, <1>3, <1>4 DEF Units, n

\* A slot that has a refund to record had the same one before the step.
Retained(t) ==
    Refunding(t)' => Refunding(t) /\ req'[t].k = req[t].k /\ req'[t].amt = req[t].amt

LEMMA RetainedUnits ==
    ASSUME \A t \in Slots : Retained(t), NEW k
    PROVE  Unrecorded(k)' \subseteq Unrecorded(k)
BY DEF Retained, Unrecorded, Units

\* No refund is sent or recorded by the step, unless an intent is opened.
Quiet ==
    \A k \in Intents :
        /\ \/ /\ intent'[k].recordedBack \in {0, intent[k].recordedBack}
              /\ intent'[k].sentBack = intent[k].sentBack
           \/ /\ intent[k].st = "none"
              /\ intent'[k].recordedBack = 0 /\ intent'[k].sentBack = 0
        /\ intent'[k].st = "none" => intent'[k].captures = 0

LEMMA QuietKeeps ==
    ASSUME IInv, RefundInv, IntentsStay, Quiet, \A t \in Slots : Retained(t)
    PROVE  RefundInv'
<1>1. ASSUME NEW s \in Slots, Refunding(s)'
      PROVE  req'[s].k \in Intents /\ intent'[req'[s].k].st # "none"
  BY <1>1 DEF Retained, RefundInv, IntentsStay
<1>2. ASSUME NEW k \in Intents
      PROVE  /\ IsFiniteSet(Unrecorded(k)')
             /\ intent'[k].recordedBack + Cardinality(Unrecorded(k)') <= intent'[k].sentBack
  <2>1. /\ IsFiniteSet(Unrecorded(k)) /\ Cardinality(Unrecorded(k)) \in Nat
        /\ intent[k].recordedBack + Cardinality(Unrecorded(k)) <= intent[k].sentBack
        /\ intent[k].recordedBack \in Nat /\ intent[k].sentBack \in Nat
    BY FS_CardinalityType DEF RefundInv, IInv, TypeOK, Intent
  <2>2. /\ IsFiniteSet(Unrecorded(k)')
        /\ Cardinality(Unrecorded(k)') \in Nat
        /\ Cardinality(Unrecorded(k)') <= Cardinality(Unrecorded(k))
    <3>1. Unrecorded(k)' \subseteq Unrecorded(k)
      BY RetainedUnits
    <3> QED BY <2>1, <3>1, FS_Subset, FS_CardinalityType
  <2>3. CASE intent[k].st # "none"
    BY <2>1, <2>2, <2>3 DEF Quiet
  <2>4. CASE intent[k].st = "none"
    <3>1. Unrecorded(k) = {}
      BY <2>4 DEF Unrecorded, RefundInv
    <3>2. Cardinality(Unrecorded(k)) = 0
      BY <3>1, FS_EmptySet
    <3> QED BY <2>1, <2>2, <3>2 DEF Quiet
  <2> QED BY <2>3, <2>4
<1> QED BY <1>1, <1>2 DEF RefundInv, Quiet

\* Stripe makes a refund: its units are new.
LEMMA RefundMade ==
    ASSUME IInv, RefundInv, IntentsStay, NEW s \in Slots, NEW k \in Intents,
           StripeRefunds(s, k)
    PROVE  RefundInv'
<1> DEFINE a == req[s].amt
<1>0. TypeOK /\ a \in Nat
  BY RequestType DEF IInv
<1>1. /\ req'[s].op = "stripe_refund" /\ req'[s].phase = "called"
      /\ req'[s].k = k /\ req'[s].amt = a /\ req[s].phase = "read"
      /\ \A t \in Slots \ {s} : req'[t] = req[t]
  BY <1>0 DEF StripeRefunds, TypeOK, Request
<1>2. /\ intent'[k].sentBack = intent[k].sentBack + a
      /\ intent'[k].recordedBack = intent[k].recordedBack
      /\ intent'[k].st = intent[k].st /\ intent'[k].captures = intent[k].captures
      /\ \A j \in Intents \ {k} : intent'[j] = intent[j]
  BY <1>0 DEF StripeRefunds, TypeOK, Intent
<1>3. Refunding(s)' /\ ~Refunding(s) /\ \A t \in Slots \ {s} : Refunding(t)' = Refunding(t)
  BY <1>1 DEF Refunding
<1>4. intent[k].st # "none"
  BY DEF StripeRefunds, RefundInv
<1>5. ASSUME NEW t \in Slots, Refunding(t)'
      PROVE  req'[t].k \in Intents /\ intent'[req'[t].k].st # "none"
  BY <1>1, <1>2, <1>3, <1>4, <1>5 DEF RefundInv
<1>6. Unrecorded(k)' = Unrecorded(k) \cup Units(s)
  BY <1>1, <1>3 DEF Unrecorded, Units
<1>7. Unrecorded(k) \cap Units(s) = {}
  BY <1>3 DEF Unrecorded, Units
<1>8. ASSUME NEW j \in Intents \ {k} PROVE Unrecorded(j)' = Unrecorded(j)
  BY <1>1, <1>3 DEF Unrecorded, Units
<1>9. /\ IsFiniteSet(Unrecorded(k)')
      /\ intent'[k].recordedBack + Cardinality(Unrecorded(k)') <= intent'[k].sentBack
  <2>1. /\ IsFiniteSet(Unrecorded(k)) /\ Cardinality(Unrecorded(k)) \in Nat
        /\ intent[k].recordedBack + Cardinality(Unrecorded(k)) <= intent[k].sentBack
        /\ intent[k].recordedBack \in Nat /\ intent[k].sentBack \in Nat
    BY FS_CardinalityType DEF RefundInv, IInv, TypeOK, Intent
  <2>2. IsFiniteSet(Units(s)) /\ Cardinality(Units(s)) = a
    BY <1>0, UnitsCount
  <2>3. /\ IsFiniteSet(Unrecorded(k)')
        /\ Cardinality(Unrecorded(k)') = Cardinality(Unrecorded(k)) + a
    BY <1>0, <1>6, <1>7, <2>1, <2>2, CountDisjoint
  <2> QED BY <1>0, <1>2, <2>1, <2>3
<1>10. \A j \in Intents : intent'[j].st = "none" => intent'[j].captures = 0
  BY <1>2, <1>4 DEF RefundInv
<1> QED BY <1>2, <1>5, <1>8, <1>9, <1>10 DEF RefundInv

\* The refund of a slot is recorded: its units are gone.
LEMMA RefundRecorded ==
    ASSUME IInv, RefundInv, IntentsStay, NEW s \in Slots, CommitRefund(s, "stripe_refund")
    PROVE  RefundInv'
<1> DEFINE a == req[s].amt
<1>0. TypeOK /\ a \in Nat
  BY RequestType DEF IInv
<1>1. Refunding(s) /\ ~Refunding(s)' /\ \A t \in Slots \ {s} : req'[t] = req[t]
  BY <1>0 DEF CommitRefund, Commit, Refunding, Idle, TypeOK
<1>2. PICK k \in Intents : k = req[s].k /\ intent[k].st # "none"
  BY <1>1 DEF RefundInv
<1>3. /\ intent'[k].sentBack = intent[k].sentBack
      /\ intent'[k].recordedBack = intent[k].recordedBack + a
      /\ intent'[k].st = intent[k].st /\ intent'[k].captures = intent[k].captures
      /\ \A j \in Intents \ {k} : intent'[j] = intent[j]
  BY <1>0, <1>2 DEF CommitRefund, TypeOK, Intent
<1>4. \A t \in Slots : Retained(t)
  BY <1>1 DEF Retained, Refunding
<1>5. ASSUME NEW t \in Slots, Refunding(t)'
      PROVE  req'[t].k \in Intents /\ intent'[req'[t].k].st # "none"
  BY <1>4, <1>5 DEF Retained, RefundInv, IntentsStay
<1>6. Unrecorded(k)' = Unrecorded(k) \ Units(s) /\ Units(s) \subseteq Unrecorded(k)
  BY <1>1, <1>2 DEF Unrecorded, Units, Refunding
<1>7. ASSUME NEW j \in Intents
      PROVE  /\ IsFiniteSet(Unrecorded(j)')
             /\ intent'[j].recordedBack + Cardinality(Unrecorded(j)') <= intent'[j].sentBack
  <2>1. /\ IsFiniteSet(Unrecorded(j)) /\ Cardinality(Unrecorded(j)) \in Nat
        /\ intent[j].recordedBack + Cardinality(Unrecorded(j)) <= intent[j].sentBack
        /\ intent[j].recordedBack \in Nat /\ intent[j].sentBack \in Nat
    BY FS_CardinalityType DEF RefundInv, IInv, TypeOK, Intent
  <2>2. CASE j = k
    <3>1. IsFiniteSet(Units(s)) /\ Cardinality(Units(s)) = a
      BY <1>0, UnitsCount
    <3>2. /\ IsFiniteSet(Unrecorded(k)')
          /\ Cardinality(Unrecorded(k)') = Cardinality(Unrecorded(k)) - a
      BY <1>6, <2>1, <2>2, <3>1, CountRemoved
    <3> QED BY <1>0, <1>3, <2>1, <2>2, <3>2
  <2>3. CASE j # k
    <3>1. Unrecorded(j)' \subseteq Unrecorded(j)
      BY <1>4, RetainedUnits
    <3>2. /\ IsFiniteSet(Unrecorded(j)') /\ Cardinality(Unrecorded(j)') \in Nat
          /\ Cardinality(Unrecorded(j)') <= Cardinality(Unrecorded(j))
      BY <2>1, <3>1, FS_Subset, FS_CardinalityType
    <3> QED BY <1>3, <2>1, <2>3, <3>2
  <2> QED BY <2>2, <2>3
<1>8. \A j \in Intents : intent'[j].st = "none" => intent'[j].captures = 0
  BY <1>2, <1>3 DEF RefundInv
<1> QED BY <1>5, <1>7, <1>8 DEF RefundInv

\* An opened intent was fresh, so no refund of it is on its way.
LEMMA OpenedQuiet ==
    ASSUME TypeOK, RefundInv, NEW k \in Intents \cup {NoIntent}, NEW i \in Invoices, NEW amount,
           k # NoIntent => k \in FreshIntents, Opened(k, i, amount)
    PROVE  Quiet
<1>1. CASE k = NoIntent
  BY <1>1 DEF Opened, Quiet, RefundInv
<1>2. CASE k # NoIntent
  <2>1. k \in Intents /\ intent[k].st = "none"
    BY <1>2 DEF FreshIntents
  <2>2. /\ intent'[k].recordedBack = 0 /\ intent'[k].sentBack = 0 /\ intent'[k].captures = 0
        /\ \A j \in Intents \ {k} : intent'[j] = intent[j]
    BY <1>2, <2>1 DEF Opened, NoIntentYet, TypeOK
  <2> QED BY <2>1, <2>2 DEF Quiet, RefundInv
<1> QED BY <1>1, <1>2

LEMMA FinishRefunds ==
    ASSUME IInv, RefundInv, NEW s \in Slots, Finish(s)
    PROVE  /\ \A t \in Slots : Retained(t)
           /\ Quiet \/ CommitRefund(s, "stripe_refund")
<1>0. TypeOK /\ LockInv
  BY DEF IInv
<1>1. PICK op, new : Commit(s, op, new)
  BY FinishCommits
<1>2. \A t \in Slots : Retained(t)
  BY <1>0, <1>1 DEF Commit, Retained, Refunding, Idle, TypeOK
<1>3. req[s].inv \in Invoices /\ Holds(s) /\ InFlight(s)
  BY <1>0, <1>1 DEF Commit, LockInv, InFlight, Holds
<1>4. ASSUME UNCHANGED intent PROVE Quiet
  BY <1>4 DEF Quiet, RefundInv
<1>5. ASSUME NEW k \in Intents \cup {NoIntent}, CommitIssue(s, k) PROVE Quiet
  <2>1. k # NoIntent => k \in FreshIntents
    BY <1>5 DEF CommitIssue, MaybeIntent
  <2> QED BY <2>1, <1>0, <1>3, <1>5, OpenedQuiet DEF CommitIssue
<1>6. ASSUME NEW o \in {"link", "qr_link"}, NEW k \in Intents, CommitLink(s, o, k) PROVE Quiet
  BY <1>0, <1>3, <1>6, OpenedQuiet DEF CommitLink
<1>7. ASSUME NEW o \in {"webhook", "confirm"}, CommitCapture(s, o) PROVE Quiet
  <2>1. req[s].k \in Intents /\ intent[req[s].k].st # "none"
    BY <1>3, <1>7 DEF IInv, IntentInv, CommitCapture, Commit, Captures
  <2>2. /\ \A j \in Intents \ {req[s].k} : intent'[j] = intent[j]
        /\ intent'[req[s].k].st = intent[req[s].k].st
        /\ intent'[req[s].k].sentBack = intent[req[s].k].sentBack
        /\ intent'[req[s].k].recordedBack = intent[req[s].k].recordedBack
    BY <1>0, <1>7, <2>1 DEF CommitCapture, TypeOK, Intent
  <2> QED BY <2>1, <2>2 DEF Quiet, RefundInv
<1>8. CommitEdit(s) \/ CommitCash(s) \/ CommitCredit(s) \/ CommitVoid(s) \/ CommitOverdue(s)
        \/ CommitRefund(s, "cash_refund") => UNCHANGED intent
  BY DEF CommitEdit, CommitCash, CommitCredit, CommitVoid, CommitOverdue, CommitRefund
<1> QED BY <1>2, <1>4, <1>5, <1>6, <1>7, <1>8 DEF Finish

LEMMA RefundKept ==
    ASSUME IInv, RefundInv, [Next]_vars
    PROVE  RefundInv'
<1>0. TypeOK /\ IntentsStay /\ \A k \in Intents : intent[k] \in Intent
  BY NextStays DEF IInv, TypeOK
<1>1. ASSUME Quiet, \A t \in Slots : Retained(t) PROVE RefundInv'
  BY <1>0, <1>1, QuietKeeps
<1>2. ASSUME UNCHANGED req PROVE \A t \in Slots : Retained(t)
  BY <1>2 DEF Retained, Refunding
<1>3. ASSUME UNCHANGED intent PROVE Quiet
  BY <1>3 DEF Quiet, RefundInv
<1>4. ASSUME NEW s \in Slots, NEW i \in Invoices, Start(s, i)
      PROVE  UNCHANGED intent /\ \A t \in Slots : Retained(t)
  BY <1>0, <1>4, StartBegins DEF Begins, tables, Retained, Refunding
<1>5. ASSUME NEW s \in Slots, \A t \in Slots \ {s} : req'[t] = req[t], ~Refunding(s)'
      PROVE  \A t \in Slots : Retained(t)
  BY <1>5 DEF Retained, Refunding
<1>6. ASSUME NEW s \in Slots, StripeConfirms(s)
      PROVE  UNCHANGED intent /\ \A t \in Slots : Retained(t)
  <2>1. \A t \in Slots \ {s} : req'[t] = req[t]
    BY <1>0, <1>6 DEF StripeConfirms, TypeOK
  <2>2. ~Refunding(s)'
    BY <1>0, <1>6 DEF StripeConfirms, TypeOK, Request, Refunding
  <2> QED BY <2>1, <2>2, <1>5, <1>6 DEF StripeConfirms, tables
<1>7. ASSUME NEW s \in Slots, NEW c \in BOOLEAN, CancelOldIntent(s, c)
      PROVE  Quiet /\ \A t \in Slots : Retained(t)
  <2>1. \A t \in Slots \ {s} : req'[t] = req[t]
    BY <1>0, <1>7 DEF CancelOldIntent, TypeOK
  <2>2. ~Refunding(s)'
    BY <1>0, <1>7 DEF CancelOldIntent, TypeOK, Request, Refunding
  <2>3. \A k \in Intents : \/ intent'[k] = intent[k]
                           \/ intent'[k] = [intent[k] EXCEPT !.st = "canceled"]
    BY <1>0, <1>7 DEF CancelOldIntent, TypeOK
  <2>4. ASSUME NEW x \in Intent
        PROVE  LET y == [x EXCEPT !.st = "canceled"] IN
               /\ y.st = "canceled" /\ y.recordedBack = x.recordedBack
               /\ y.sentBack = x.sentBack
    BY DEF Intent
  <2> QED BY <2>1, <2>2, <2>3, <2>4, <1>0, <1>5 DEF Quiet, RefundInv
<1>8. ASSUME NEW s \in Slots, Flush(s) \/ LockConfirm(s)
      PROVE  UNCHANGED intent /\ \A t \in Slots : Retained(t)
  <2>1. /\ req' = [req EXCEPT ![s].phase = "held"] /\ UNCHANGED intent
        /\ req[s].op = "stripe_refund" => req[s].phase = "called"
    BY <1>8 DEF Flush, LockConfirm, tables, CallsStripe
  <2>2. /\ \A t \in Slots \ {s} : req'[t] = req[t]
        /\ req'[s].op = req[s].op /\ req'[s].k = req[s].k /\ req'[s].amt = req[s].amt
    BY <1>0, <2>1 DEF TypeOK, Request
  <2> QED BY <2>1, <2>2 DEF Retained, Refunding
<1>9. ASSUME NEW s \in Slots, Abort(s) PROVE UNCHANGED intent /\ \A t \in Slots : Retained(t)
  BY <1>0, <1>5, <1>9 DEF Abort, tables, TypeOK, Idle, Refunding
<1>10. ASSUME NEW s \in Slots, NEW k \in Intents, DeliverWebhook(s, k)
       PROVE  UNCHANGED intent /\ \A t \in Slots : Retained(t)
  BY <1>0, <1>5, <1>10 DEF DeliverWebhook, tables, TypeOK, Refunding
<1>11. ASSUME NEW i \in Invoices, WholeStep(i) PROVE Quiet /\ UNCHANGED req
  <2>1. ASSUME NEW total \in Amounts, NEW k \in Intents \cup {NoIntent},
               CreateIssued(i, total, k)
        PROVE  Quiet /\ UNCHANGED req
    <3>1. k # NoIntent => k \in FreshIntents
      BY <2>1 DEF CreateIssued, MaybeIntent
    <3> QED BY <3>1, <2>1, <1>0, OpenedQuiet DEF CreateIssued
  <2>2. CASE BulkDelete(i)
    <3>1. ASSUME NEW x \in Intent
          PROVE  LET y == [x EXCEPT !.captures = 0, !.recordedBack = 0] IN
                 /\ y.st = x.st /\ y.captures = 0 /\ y.recordedBack = 0
                 /\ y.sentBack = x.sentBack
      BY DEF Intent
    <3>2. \A k \in Intents :
             \/ intent'[k] = intent[k]
             \/ intent'[k] = [intent[k] EXCEPT !.captures = 0, !.recordedBack = 0]
      BY <2>2 DEF BulkDelete
    <3> QED BY <3>1, <3>2, <2>2, <1>0 DEF Quiet, RefundInv, BulkDelete
  <2>3. (\E total \in Amounts : CreateDraft(i, total)) \/ DueDatePasses(i) \/ DeferDueDate(i)
          => UNCHANGED <<intent, req>>
    BY DEF CreateDraft, DueDatePasses, DeferDueDate
  <2> QED BY <1>3, <1>11, <2>1, <2>2, <2>3 DEF WholeStep
<1>12. ASSUME NEW k \in Intents, CustomerPays(k) \/ AnswerEvent(k) PROVE Quiet /\ UNCHANGED req
  BY <1>0, <1>12 DEF CustomerPays, AnswerEvent, Quiet, RefundInv, TypeOK, Intent
<1>13. CASE UNCHANGED vars
  BY <1>1, <1>2, <1>3, <1>13 DEF vars
<1>14. ASSUME NEW s \in Slots, StripeAnswers(s) PROVE RefundInv'
  BY <1>0, <1>1, <1>3, <1>6, <1>7, <1>14, RefundMade DEF StripeAnswers
<1>15. ASSUME NEW s \in Slots, Finish(s) PROVE RefundInv'
  BY <1>0, <1>1, <1>15, FinishRefunds, RefundRecorded
<1>16. CASE Next
  BY <1>16, <1>1, <1>2, <1>3, <1>4, <1>8, <1>9, <1>10, <1>11, <1>12, <1>14, <1>15
     DEF Next, WholeStep
<1> QED BY <1>13, <1>16

-----------------------------------------------------------------------------
(* The theorems *)

LEMMA OverlapInit == Init => OverlapInv
<1> SUFFICES ASSUME Init PROVE OverlapInv
  OBVIOUS
<1>1. IInv
  BY InvariantInit
<1>2. /\ \A i \in Invoices : row[i] = BlankRow /\ books[i] = NoBooks
      /\ \A s \in Slots : req[s] = Idle
      /\ \A k \in Intents : intent[k] = NoIntentYet
      /\ lastNumber = 0
  BY DEF Init
<1>3. RowInv /\ UniqueNumbers
  BY <1>2, ConstantsAssumption DEF RowInv, Sound, BlankRow, Amounts, UniqueNumbers
<1>4. CopyInv
  BY <1>2 DEF CopyInv, InFlight, Idle
<1>5. \A s \in Slots : ~Refunding(s)
  BY <1>2 DEF Refunding, Idle
<1>6. \A k \in Intents : Unrecorded(k) = {}
  BY <1>5 DEF Unrecorded
<1>7. RefundInv
  BY <1>2, <1>5, <1>6, FS_EmptySet DEF RefundInv, NoIntentYet
<1> QED BY <1>1, <1>3, <1>4, <1>7 DEF OverlapInv

LEMMA OverlapStep == OverlapInv /\ [Next]_vars => OverlapInv'
BY InvariantStep, RowKept, CopyKept, NumbersKept, RefundKept DEF OverlapInv

\* What overlapping requests keep true of the rows, and of their copies in flight.
THEOREM OverlapInvariantHolds == Spec => []OverlapInv
BY OverlapInit, OverlapStep, PTL DEF Spec

\* No two invoices get one number, however many are issued at once.
THEOREM NumbersAreUnique == Spec => []UniqueNumbers
<1>1. OverlapInv => UniqueNumbers
  BY DEF OverlapInv
<1> QED BY <1>1, OverlapInvariantHolds, PTL

\* Handlers that write from stale copies never drive a balance below zero.
THEOREM BalancesStayNonNegative == Spec => []BalancesNonNegative
<1>1. OverlapInv => BalancesNonNegative
  BY DEF OverlapInv, RowInv, Sound, BalancesNonNegative
<1> QED BY <1>1, OverlapInvariantHolds, PTL

\* The books never show a Stripe refund that Stripe has not made, however many
\* refunds of a payment are under way or rolled back.
THEOREM RefundsWereMade == Spec => []RecordedRefundsWereMade
<1>1. ASSUME OverlapInv, NEW k \in Intents PROVE intent[k].recordedBack <= intent[k].sentBack
  <2>1. Cardinality(Unrecorded(k)) \in Nat
    BY <1>1, FS_CardinalityType DEF OverlapInv, RefundInv
  <2>2. intent[k].recordedBack \in Nat /\ intent[k].sentBack \in Nat
    BY <1>1 DEF OverlapInv, IInv, TypeOK, Intent
  <2> QED BY <1>1, <2>1, <2>2 DEF OverlapInv, RefundInv
<1>2. OverlapInv => RecordedRefundsWereMade
  BY <1>1 DEF RecordedRefundsWereMade
<1> QED BY <1>2, OverlapInvariantHolds, PTL


-----------------------------------------------------------------------------
(* What one kind of overlap breaks.  Numbers, totals and "voided" each have *)
(* one pair of handlers that may undo them; a condition on the behaviour    *)
(* names the pair, and everything else may overlap.                         *)

\* No request of the one kind is in flight with one of the other on an invoice.
Apart(A, B) ==
    \A s, t \in Slots :
        s # t /\ InFlight(s) /\ InFlight(t) /\ req[s].op \in A /\ req[t].op \in B =>
            req[s].inv # req[t].inv

StatusOps == {"issue", "cash", "confirm", "cash_refund", "stripe_refund", "credit", "overdue"}

IssuesApart == Apart({"issue"}, {"issue"})
EditsApart  == Apart({"edit"}, {"issue", "void"})
VoidsApart  == Apart({"void"}, StatusOps)

\* A row that an issue in flight has loaded still has no number.
UnnumberedInv ==
    /\ \A i \in Invoices : row[i].status \in {"none", "draft"} => row[i].number = 0
    /\ \A s \in Slots : InFlight(s) /\ req[s].op = "issue" /\ Exists(row[req[s].inv]) =>
          row[req[s].inv].number = 0

\* A row that an edit in flight has loaded is still a draft.
DraftInv ==
    \A s \in Slots : InFlight(s) /\ req[s].op = "edit" /\ Exists(row[req[s].inv]) =>
        row[req[s].inv].status = "draft"

\* A row is not voided while a request that writes a status is in flight.
UnvoidedInv ==
    \A s \in Slots : InFlight(s) /\ req[s].op \in StatusOps =>
        row[req[s].inv].status # "voided"

\* Which columns a commit writes.
Writes(s) ==
    LET i == req[s].inv IN
    /\ req[s].op # "issue" => row'[i].number = row[i].number /\ lastNumber' = lastNumber
    /\ req[s].op = "issue" => /\ row'[i].number = lastNumber + 1
                              /\ lastNumber' = lastNumber + 1
                              /\ row'[i].status = "issued"
    /\ req[s].op # "edit" => row'[i].total = row[i].total
    /\ req[s].op \in {"edit", "link", "qr_link"} => row'[i].status = row[i].status
    /\ req[s].op = "void" => row'[i].status = "voided"
    /\ row'[i].status = "voided" => req[s].op = "void" \/ row[i].status = "voided"
    /\ row'[i].status = "draft" => row[i].status = "draft"

LEMMA FinishWrites ==
    ASSUME IInv, RowInv, CopyInv, NEW s \in Slots, Finish(s)
    PROVE  /\ Writes(s) /\ InFlight(s) /\ req[s].inv \in Invoices
           /\ Exists(row[req[s].inv]) /\ Admitted(req[s]) /\ req'[s] = Idle
           /\ \A j \in Invoices \ {req[s].inv} : row'[j] = row[j]
<1> DEFINE r == req[s]
           i == r.inv
           l == r.snap
<1>1. PICK op, new : Commit(s, op, new)
  BY FinishCommits
<1>2. InFlight(s) /\ Holds(s)
  BY <1>1 DEF Commit, InFlight, Holds
<1>3. /\ l \in Row /\ r.amt \in Nat /\ i \in Invoices /\ TypeOK /\ LockInv
      /\ Admitted(r) /\ Sound(l) /\ Exists(row[i]) /\ row[i] \in Row
      /\ lastNumber \in Nat /\ lastNumber + 1 \in Nat
  BY <1>2, RequestType DEF IInv, CopyInv, LockInv, TypeOK
<1>4. /\ req'[s] = Idle /\ \A j \in Invoices \ {i} : row'[j] = row[j]
  BY <1>1, <1>3 DEF Commit, TypeOK
<1>5. /\ l.number \in Nat /\ l.total \in Nat /\ l.number <= lastNumber
  BY <1>3, RowColumns DEF Sound
\* A commit by a handler that leaves number and total alone.
<1>6. ASSUME NEW o, NEW n \in Row, Commit(s, o, n), o \notin {"issue", "edit", "void"},
             n.number = l.number, n.total = l.total, UNCHANGED lastNumber,
             \/ n.status \in Status \ {"voided", "draft"} /\ o \notin {"link", "qr_link"}
             \/ n.status = l.status
      PROVE  Writes(s)
  <2>1. /\ r.op = o /\ row'[i].number = row[i].number /\ row'[i].total = row[i].total
        /\ row'[i].status = IF n.status # l.status THEN n.status ELSE row[i].status
    BY <1>3, <1>6, CommitRow
  <2> QED BY <1>6, <2>1 DEF Writes
<1>7. ASSUME CommitEdit(s) PROVE Writes(s)
  <2> DEFINE n == Recalculated(l, r.amt)
  <2>1. Commit(s, "edit", n) /\ lastNumber' = lastNumber
    BY <1>7 DEF CommitEdit
  <2>2. n \in Row /\ n.status = l.status /\ n.number = l.number
    BY <1>3, RecalculatedColumns
  <2> HIDE DEF n
  <2>3. /\ r.op = "edit" /\ row'[i].number = row[i].number
        /\ row'[i].status = row[i].status
    BY <1>3, <2>1, <2>2, CommitRow
  <2> QED BY <2>1, <2>3 DEF Writes
<1>8. ASSUME NEW k \in Intents \cup {NoIntent}, CommitIssue(s, k) PROVE Writes(s)
  <2> DEFINE n == Issued(l, lastNumber + 1, k)
  <2>1. Commit(s, "issue", n) /\ lastNumber' = lastNumber + 1
    BY <1>8 DEF CommitIssue, NextNumber
  <2>2. n \in Row /\ n.status = "issued" /\ n.number = lastNumber + 1 /\ n.total = l.total
    BY <1>3, IssuedColumns
  <2> HIDE DEF n
  <2>3. l.status = "draft" /\ r.op = "issue"
    BY <1>3, <2>1 DEF Admitted, Commit
  <2>4. n.number # l.number
    BY <1>3, <1>5, <2>2
  <2>5. /\ row'[i].number = lastNumber + 1 /\ row'[i].status = "issued"
        /\ row'[i].total = row[i].total
    BY <1>3, <2>1, <2>2, <2>3, <2>4, CommitRow
  <2> QED BY <2>1, <2>3, <2>5 DEF Writes
<1>9. ASSUME CommitVoid(s) PROVE Writes(s)
  <2> DEFINE n == [l EXCEPT !.status = "voided"]
  <2>1. Commit(s, "void", n) /\ lastNumber' = lastNumber
    BY <1>9 DEF CommitVoid
  <2>2. n \in Row /\ n.status = "voided" /\ n.number = l.number /\ n.total = l.total
    BY <1>3, StatusTypes, StatusColumns
  <2> HIDE DEF n
  <2>3. l.status # "voided" /\ r.op = "void"
    BY <1>3, <2>1 DEF Admitted, Commit, ValidTransition, VALID_TRANSITIONS, Status
  <2>4. /\ row'[i].number = row[i].number /\ row'[i].status = "voided"
        /\ row'[i].total = row[i].total
    BY <1>3, <2>1, <2>2, <2>3, CommitRow
  <2> QED BY <2>1, <2>3, <2>4 DEF Writes
<1>10. ASSUME CommitCash(s) PROVE Writes(s)
  <2> DEFINE n == Settled(l, r.amt)
  <2>1. Commit(s, "cash", n) /\ lastNumber' = lastNumber
    BY <1>10 DEF CommitCash
  <2>2. /\ n \in Row /\ n.number = l.number /\ n.total = l.total
        /\ n.status \in {"paid", "partially_paid"}
    BY <1>3, SettledColumns
  <2> HIDE DEF n
  <2> QED BY <1>6, <2>1, <2>2 DEF Status
<1>11. ASSUME NEW o \in {"webhook", "confirm"}, CommitCapture(s, o) PROVE Writes(s)
  <2> DEFINE n == Captured(l, r.amt)
  <2>1. Commit(s, o, n) /\ lastNumber' = lastNumber
    BY <1>11 DEF CommitCapture
  <2>2. /\ n \in Row /\ n.number = l.number /\ n.total = l.total
        /\ n.status \in {"paid", "partially_paid"}
    BY <1>3, CapturedColumns
  <2> HIDE DEF n
  <2> QED BY <1>6, <2>1, <2>2 DEF Status
<1>12. ASSUME NEW o \in {"cash_refund", "stripe_refund"}, CommitRefund(s, o) PROVE Writes(s)
  <2> DEFINE n == Refunded(l, r.amt)
  <2>1. Commit(s, o, n) /\ lastNumber' = lastNumber
    BY <1>12 DEF CommitRefund
  <2>2. /\ n \in Row /\ n.number = l.number /\ n.total = l.total
        /\ n.status \in {"refunded", "partially_refunded", "paid"}
    BY <1>3, RefundedColumns
  <2> HIDE DEF n
  <2> QED BY <1>6, <2>1, <2>2 DEF Status
<1>13. ASSUME CommitCredit(s) PROVE Writes(s)
  <2> DEFINE n == Credited(l, r.amt)
  <2>1. Commit(s, "credit", n) /\ lastNumber' = lastNumber
    BY <1>13 DEF CommitCredit
  <2>2. /\ n \in Row /\ n.number = l.number /\ n.total = l.total
        /\ n.status \in {"paid", "partially_paid", l.status}
    BY <1>3, CreditedColumns
  <2> HIDE DEF n
  <2> QED BY <1>6, <2>1, <2>2 DEF Status
<1>14. ASSUME NEW o \in {"link", "qr_link"}, NEW k \in Intents, CommitLink(s, o, k)
       PROVE  Writes(s)
  <2> DEFINE n == [l EXCEPT !.pi = k]
  <2>1. Commit(s, o, n) /\ lastNumber' = lastNumber
    BY <1>14 DEF CommitLink
  <2>2. n \in Row /\ n.number = l.number /\ n.total = l.total /\ n.status = l.status
    BY <1>3, PiColumns
  <2> HIDE DEF n
  <2> QED BY <1>6, <2>1, <2>2
<1>15. ASSUME CommitOverdue(s) PROVE Writes(s)
  <2> DEFINE n == [l EXCEPT !.status = "overdue"]
  <2>1. Commit(s, "overdue", n) /\ lastNumber' = lastNumber
    BY <1>15 DEF CommitOverdue
  <2>2. n \in Row /\ n.number = l.number /\ n.total = l.total /\ n.status = "overdue"
    BY <1>3, StatusTypes, StatusColumns
  <2> HIDE DEF n
  <2> QED BY <1>6, <2>1, <2>2 DEF Status
<1>16. Writes(s)
  BY <1>7, <1>8, <1>9, <1>10, <1>11, <1>12, <1>13, <1>14, <1>15 DEF Finish
<1> QED BY <1>2, <1>3, <1>4, <1>16


\* What a step writes: a new row, a deletion, or the columns of one commit.
LEMMA RowsMove ==
    ASSUME OverlapInv, [Next]_vars
    PROVE  \/ UNCHANGED <<row, lastNumber>>
           \/ \E i \in Invoices :
                 /\ \A j \in Invoices \ {i} : row'[j] = row[j]
                 /\ \/ /\ row[i] = BlankRow
                       /\ \/ /\ row'[i].status = "draft" /\ row'[i].number = 0
                             /\ lastNumber' = lastNumber
                          \/ /\ row'[i].status = "issued" /\ row'[i].number = lastNumber + 1
                             /\ lastNumber' = lastNumber + 1
                    \/ /\ Exists(row[i]) /\ row'[i].status = "deleted"
                       /\ row'[i].number = row[i].number /\ lastNumber' = lastNumber
           \/ \E s \in Slots :
                 /\ Finish(s) /\ Writes(s) /\ InFlight(s) /\ req[s].inv \in Invoices
                 /\ Exists(row[req[s].inv]) /\ Admitted(req[s]) /\ req'[s] = Idle
                 /\ \A j \in Invoices \ {req[s].inv} : row'[j] = row[j]
<1>1. CASE UNCHANGED <<row, books, lastNumber>>
  BY <1>1
<1>2. ASSUME NEW i \in Invoices, WholeStep(i)
      PROVE  \/ UNCHANGED <<row, lastNumber>>
             \/ /\ \A j \in Invoices \ {i} : row'[j] = row[j]
                /\ \/ /\ row[i] = BlankRow
                      /\ \/ /\ row'[i].status = "draft" /\ row'[i].number = 0
                            /\ lastNumber' = lastNumber
                         \/ /\ row'[i].status = "issued" /\ row'[i].number = lastNumber + 1
                            /\ lastNumber' = lastNumber + 1
                   \/ /\ Exists(row[i]) /\ row'[i].status = "deleted"
                      /\ row'[i].number = row[i].number /\ lastNumber' = lastNumber
  <2>1. TypeOK /\ (row[i].status = "none" => row[i] = BlankRow)
    BY DEF OverlapInv, IInv, RowInv
  <2>2. ASSUME \E total \in Amounts, k \in Intents \cup {NoIntent} :
                  \/ /\ row'[i] = NewRow("draft", 0, total, NoIntent)
                     /\ UNCHANGED lastNumber
                  \/ /\ row'[i] = NewRow("issued", lastNumber + 1, total, k)
                     /\ lastNumber' = lastNumber + 1
        PROVE  \/ /\ row'[i].status = "draft" /\ row'[i].number = 0
                  /\ lastNumber' = lastNumber
               \/ /\ row'[i].status = "issued" /\ row'[i].number = lastNumber + 1
                  /\ lastNumber' = lastNumber + 1
    BY <2>2 DEF NewRow
  <2>3. ASSUME row'[i] = [BlankRow EXCEPT !.status = "deleted", !.number = row[i].number]
        PROVE  row'[i].status = "deleted" /\ row'[i].number = row[i].number
    BY <2>3 DEF BlankRow
  <2> QED BY <1>2, <2>1, <2>2, <2>3, WholeStepRows
<1>3. ASSUME NEW s \in Slots, Finish(s)
      PROVE  /\ Writes(s) /\ InFlight(s) /\ req[s].inv \in Invoices
             /\ Exists(row[req[s].inv]) /\ Admitted(req[s]) /\ req'[s] = Idle
             /\ \A j \in Invoices \ {req[s].inv} : row'[j] = row[j]
  BY <1>3, FinishWrites DEF OverlapInv
<1> QED BY <1>1, <1>2, <1>3, RowsUntouched DEF OverlapInv

\* Whose row it is, when a request is in flight after a step: one that has begun
\* with the step, or one that was in flight and has not committed with it.
LEMMA WasInFlight ==
    ASSUME OverlapInv, [Next]_vars, NEW t \in Slots, InFlight(t)'
    PROVE  \/ Begins(t)
           \/ /\ InFlight(t) /\ req'[t].op = req[t].op /\ req'[t].inv = req[t].inv
              /\ req[t].inv \in Invoices /\ row[req[t].inv].status # "none"
<1>1. Moves(t) /\ LockInv /\ CopyInv
  BY NextMoves DEF OverlapInv, IInv
<1>2. req'[t] # Idle /\ (req'[t] = req[t] => InFlight(t))
  BY DEF InFlight, Idle
<1> QED BY <1>1, <1>2 DEF Moves, Continues, LockInv, CopyInv

\* The numbering
LEMMA UnnumberedKept ==
    ASSUME OverlapInv, UnnumberedInv, IssuesApart, [Next]_vars
    PROVE  UnnumberedInv'
<1>1. ASSUME NEW i \in Invoices, row'[i].status \in {"none", "draft"}
      PROVE  row'[i].number = 0
  <2>1. row[i].status \in {"none", "draft"} => row[i].number = 0
    BY DEF UnnumberedInv
  <2>2. CASE row'[i] = row[i]
    BY <1>1, <2>1, <2>2
  <2>3. ASSUME NEW s \in Slots, Writes(s), req[s].inv = i
        PROVE  row'[i].number = 0
    BY <1>1, <2>1, <2>3, RowKept DEF Writes, OverlapInv, RowInv, BlankRow
  <2> QED BY <1>1, <2>2, <2>3, RowsMove
<1>2. ASSUME NEW t \in Slots, InFlight(t)', req'[t].op = "issue", Exists(row'[req'[t].inv])
      PROVE  row'[req'[t].inv].number = 0
  <2> DEFINE i == req'[t].inv
  <2>1. CASE Begins(t)
    <3>1. row' = row /\ i \in Invoices /\ row[i].status = "draft"
      BY <1>2, <2>1 DEF Begins, Admitted, tables
    <3> QED BY <3>1 DEF UnnumberedInv
  <2>2. CASE /\ InFlight(t) /\ req'[t].op = req[t].op /\ i = req[t].inv
             /\ i \in Invoices /\ row[i].status # "none"
    <3>1. Exists(row[i]) => row[i].number = 0
      BY <1>2, <2>2 DEF UnnumberedInv
    <3>2. CASE row'[i] = row[i]
      BY <1>2, <3>1, <3>2
    <3>3. ASSUME NEW s \in Slots, Writes(s), InFlight(s), req[s].inv = i, req'[s] = Idle,
                 Exists(row[i])
          PROVE  row'[i].number = 0
      <4>1. s # t
        BY <1>2, <3>3 DEF InFlight, Idle
      <4>2. req[s].op # "issue"
        BY <1>2, <2>2, <3>3, <4>1 DEF IssuesApart, Apart
      <4> QED BY <3>1, <3>3, <4>2 DEF Writes
    <3>4. CASE row'[i].status = "deleted" \/ row[i] = BlankRow
      BY <1>2, <2>2, <3>4 DEF Exists, BlankRow
    <3> QED BY <2>2, <3>2, <3>3, <3>4, RowsMove
  <2> QED BY <1>2, <2>1, <2>2, WasInFlight
<1> QED BY <1>1, <1>2 DEF UnnumberedInv

\* The draft of an edit
LEMMA DraftKept ==
    ASSUME OverlapInv, DraftInv, EditsApart, [Next]_vars
    PROVE  DraftInv'
<1> SUFFICES ASSUME NEW t \in Slots, InFlight(t)', req'[t].op = "edit",
                    Exists(row'[req'[t].inv])
             PROVE  row'[req'[t].inv].status = "draft"
  BY DEF DraftInv
<1> DEFINE i == req'[t].inv
<1>1. CASE Begins(t)
  BY <1>1 DEF Begins, Admitted, tables
<1>2. CASE /\ InFlight(t) /\ req'[t].op = req[t].op /\ i = req[t].inv
           /\ i \in Invoices /\ row[i].status # "none"
  <2>1. Exists(row[i]) => row[i].status = "draft"
    BY <1>2 DEF DraftInv
  <2>2. CASE row'[i] = row[i]
    BY <2>1, <2>2
  <2>3. ASSUME NEW s \in Slots, Writes(s), InFlight(s), req[s].inv = i, req'[s] = Idle,
               Exists(row[i]), Admitted(req[s])
        PROVE  row'[i].status = "draft"
    <3>1. s # t
      BY <2>3 DEF InFlight, Idle
    <3>2. req[s].op \notin {"issue", "void"}
      BY <1>2, <2>3, <3>1 DEF EditsApart, Apart
    <3>3. req[s].snap.status = "draft"
      BY <2>1, <2>3 DEF OverlapInv, CopyInv
    <3>4. req[s].op = "edit"
      BY <2>3, <3>2, <3>3 DEF Admitted, AllOps, Payable, Refundable, Creditable
    <3> QED BY <2>1, <2>3, <3>4 DEF Writes
  <2>4. CASE row'[i].status = "deleted" \/ row[i] = BlankRow
    BY <1>2, <2>4 DEF Exists, BlankRow
  <2> QED BY <1>2, <2>2, <2>3, <2>4, RowsMove
<1> QED BY <1>1, <1>2, WasInFlight

\* The end of a voided invoice
LEMMA UnvoidedKept ==
    ASSUME OverlapInv, UnvoidedInv, VoidsApart, [Next]_vars
    PROVE  UnvoidedInv'
<1> SUFFICES ASSUME NEW t \in Slots, InFlight(t)', req'[t].op \in StatusOps
             PROVE  row'[req'[t].inv].status # "voided"
  BY DEF UnvoidedInv
<1> DEFINE i == req'[t].inv
<1>1. CASE Begins(t)
  BY <1>1 DEF Begins, Admitted, tables, StatusOps, Payable, Refundable, Creditable
<1>2. CASE /\ InFlight(t) /\ req'[t].op = req[t].op /\ i = req[t].inv
           /\ i \in Invoices /\ row[i].status # "none"
  <2>1. row[i].status # "voided"
    BY <1>2 DEF UnvoidedInv
  <2>2. CASE row'[i] = row[i]
    BY <2>1, <2>2
  <2>3. ASSUME NEW s \in Slots, Writes(s), InFlight(s), req[s].inv = i, req'[s] = Idle
        PROVE  row'[i].status # "voided"
    <3>1. s # t
      BY <2>3 DEF InFlight, Idle
    <3>2. req[s].op # "void"
      BY <1>2, <2>3, <3>1 DEF VoidsApart, Apart
    <3> QED BY <2>1, <2>3, <3>2 DEF Writes
  <2>4. CASE row'[i].status \in {"deleted", "draft", "issued"}
    BY <2>4
  <2> QED BY <1>2, <2>2, <2>3, <2>4, RowsMove
<1> QED BY <1>1, <1>2, WasInFlight


\* No number is skipped: each is written over "no number".
LEMMA NumbersContiguous ==
    ASSUME OverlapInv, UnnumberedInv, ContiguousNumbers, [Next]_vars
    PROVE  ContiguousNumbers'
<1> DEFINE Given == {row[i].number : i \in {j \in Invoices : row[j].number # 0}}
           Advance == /\ lastNumber' = lastNumber + 1
                      /\ \E i \in Invoices :
                            /\ \A j \in Invoices \ {i} : row'[j] = row[j]
                            /\ row[i].number = 0 /\ row'[i].number = lastNumber + 1
           Stay == /\ lastNumber' = lastNumber
                   /\ \A i \in Invoices : row'[i].number = row[i].number
<1>1. lastNumber \in Nat /\ Given = 1..lastNumber /\ UniqueNumbers'
  BY OverlapStep DEF ContiguousNumbers, OverlapInv, IInv, TypeOK
<1>2. Stay \/ Advance
  <2>1. CASE UNCHANGED <<row, lastNumber>>
    BY <2>1
  <2>2. ASSUME NEW i \in Invoices,
               /\ \A j \in Invoices \ {i} : row'[j] = row[j]
               /\ \/ /\ row[i] = BlankRow
                     /\ \/ /\ row'[i].status = "draft" /\ row'[i].number = 0
                           /\ lastNumber' = lastNumber
                        \/ /\ row'[i].status = "issued" /\ row'[i].number = lastNumber + 1
                           /\ lastNumber' = lastNumber + 1
                  \/ /\ Exists(row[i]) /\ row'[i].status = "deleted"
                     /\ row'[i].number = row[i].number /\ lastNumber' = lastNumber
        PROVE  Stay \/ Advance
    <3>1. BlankRow.number = 0
      BY DEF BlankRow
    <3> QED BY <2>2, <3>1
  <2>3. ASSUME NEW s \in Slots, Writes(s), req[s].inv \in Invoices, InFlight(s),
               Exists(row[req[s].inv]),
               \A j \in Invoices \ {req[s].inv} : row'[j] = row[j]
        PROVE  Stay \/ Advance
    <3>1. req[s].op = "issue" => row[req[s].inv].number = 0
      BY <2>3 DEF UnnumberedInv
    <3> QED BY <2>3, <3>1 DEF Writes
  <2> HIDE DEF Stay, Advance
  <2> QED BY <2>1, <2>2, <2>3, RowsMove
<1>3. CASE Stay
  <2>1. Given' = Given
    BY <1>3
  <2> QED BY <1>1, <1>3, <2>1 DEF ContiguousNumbers
<1>4. CASE Advance
  <2>1. PICK i \in Invoices : /\ \A j \in Invoices \ {i} : row'[j] = row[j]
                              /\ row[i].number = 0 /\ row'[i].number = lastNumber + 1
    BY <1>4
  <2>2. lastNumber + 1 # 0 /\ lastNumber' = lastNumber + 1
    BY <1>1, <1>4
  <2>3. Given' = Given \cup {lastNumber + 1}
    BY <2>1, <2>2
  <2>4. Given' = 1..lastNumber'
    BY <1>1, <2>2, <2>3
  <2> QED BY <1>1, <2>4 DEF ContiguousNumbers
<1> QED BY <1>2, <1>3, <1>4

\* The numbers of an organisation have no gap and are given once, unless two
\* issues of one invoice overlap; deletions included.
THEOREM NumbersHaveNoGap == Spec /\ []IssuesApart => []ContiguousNumbers
<1>1. Init => UnnumberedInv /\ ContiguousNumbers
  <2> SUFFICES ASSUME Init PROVE UnnumberedInv /\ ContiguousNumbers
    OBVIOUS
  <2>1. /\ \A i \in Invoices : row[i].number = 0
        /\ \A s \in Slots : ~InFlight(s)
        /\ lastNumber = 0
    BY DEF Init, BlankRow, Idle, InFlight
  <2>2. 1..lastNumber = {}
    BY <2>1
  <2> QED BY <2>1, <2>2 DEF UnnumberedInv, ContiguousNumbers, UniqueNumbers
<1>2. OverlapInv /\ UnnumberedInv /\ ContiguousNumbers /\ IssuesApart /\ [Next]_vars
          => UnnumberedInv' /\ ContiguousNumbers'
  BY UnnumberedKept, NumbersContiguous
<1> QED BY <1>1, <1>2, OverlapInvariantHolds, PTL DEF Spec

\* An invoice keeps the number it was given, unless two issues of it overlap.
THEOREM NumbersStay == Spec /\ []IssuesApart => NumberImmutable
<1>1. Init => UnnumberedInv
  BY DEF Init, BlankRow, Idle, InFlight, UnnumberedInv
<1>2. OverlapInv /\ UnnumberedInv /\ IssuesApart /\ [Next]_vars => UnnumberedInv'
  BY UnnumberedKept
<1>3. ASSUME OverlapInv, UnnumberedInv, [Next]_vars, NEW i \in Invoices, row[i].number # 0
      PROVE  row'[i].number = row[i].number
  <2>1. ASSUME NEW s \in Slots, Writes(s), InFlight(s), req[s].inv = i, Exists(row[i])
        PROVE  row'[i].number = row[i].number
    BY <1>3, <2>1 DEF UnnumberedInv, Writes
  <2>2. row[i] # BlankRow
    BY <1>3 DEF BlankRow
  <2> QED BY <2>1, <2>2, <1>3, RowsMove
<1>4. OverlapInv /\ UnnumberedInv /\ [Next]_vars =>
         [\A i \in Invoices : row[i].number # 0 => row'[i].number = row[i].number]_vars
  BY <1>3
<1> QED BY <1>1, <1>2, <1>4, OverlapInvariantHolds, PTL DEF Spec, NumberImmutable

\* An issued invoice keeps its total, unless an edit overlaps with the issue or
\* the void of the draft it loaded.
THEOREM TotalsStay == Spec /\ []EditsApart => TotalFixedOnceIssued
<1>1. Init => DraftInv
  BY DEF Init, Idle, InFlight, DraftInv
<1>2. OverlapInv /\ DraftInv /\ EditsApart /\ [Next]_vars => DraftInv'
  BY DraftKept
<1>3. ASSUME OverlapInv, DraftInv, [Next]_vars, NEW i \in Invoices, Kept(i), Exists(row'[i])
      PROVE  row'[i].total = row[i].total
  <2>1. ASSUME NEW s \in Slots, Writes(s), InFlight(s), req[s].inv = i
        PROVE  row'[i].total = row[i].total
    BY <1>3, <2>1 DEF DraftInv, Writes, Kept
  <2>2. row[i] # BlankRow /\ row'[i].status # "deleted"
    BY <1>3 DEF BlankRow, Kept, Exists
  <2> QED BY <2>1, <2>2, <1>3, RowsMove
<1>4. OverlapInv /\ DraftInv /\ [Next]_vars =>
         [\A i \in Invoices : Kept(i) /\ Exists(row'[i])
              => row'[i].total = row[i].total]_vars
  BY <1>3
<1> QED BY <1>1, <1>2, <1>4, OverlapInvariantHolds, PTL DEF Spec, TotalFixedOnceIssued

\* A voided invoice stays voided until it is deleted, unless the void overlaps
\* with a request that writes a status.
THEOREM VoidedStaysVoided == Spec /\ []VoidsApart => VoidedIsTerminal
<1>1. Init => UnvoidedInv
  BY DEF Init, Idle, InFlight, UnvoidedInv, StatusOps
<1>2. OverlapInv /\ UnvoidedInv /\ VoidsApart /\ [Next]_vars => UnvoidedInv'
  BY UnvoidedKept
<1>3. ASSUME OverlapInv, UnvoidedInv, [Next]_vars, NEW i \in Invoices,
             row[i].status = "voided"
      PROVE  row'[i].status \in {"voided", "deleted"}
  <2>1. ASSUME NEW s \in Slots, Writes(s), InFlight(s), req[s].inv = i, Admitted(req[s])
        PROVE  row'[i].status = "voided"
    <3>1. req[s].op \notin StatusOps
      BY <1>3, <2>1 DEF UnvoidedInv
    <3>2. req[s].op # "webhook"
      BY <1>3, <2>1 DEF OverlapInv, IInv, FreshInv, Payable
    <3> QED BY <1>3, <2>1, <3>1, <3>2 DEF Writes, Admitted, AllOps, StatusOps
  <2>2. row[i] # BlankRow
    BY <1>3 DEF BlankRow
  <2> QED BY <2>1, <2>2, <1>3, RowsMove
<1>4. OverlapInv /\ UnvoidedInv /\ [Next]_vars =>
         [\A i \in Invoices : row[i].status = "voided"
              => row'[i].status \in {"voided", "deleted"}]_vars
  BY <1>3
<1> QED BY <1>1, <1>2, <1>4, OverlapInvariantHolds, PTL DEF Spec, VoidedIsTerminal
=============================================================================
