------------------------- MODULE InvoiceBookProofs -------------------------
(***************************************************************************)
(* When the books balance, and when the handlers are the indivisible steps *)
(* of InvoiceBook.  Both fail when certain requests overlap on an invoice, *)
(* so each theorem names, as a condition on the behaviour, the overlap     *)
(* that must not happen; everything else may interleave.                   *)
(***************************************************************************)
EXTENDS InvoiceOverlapProofs

\* A handler that moves money from a row it has loaded without a lock.
Unlocked(s) ==
    InFlight(s) /\ req[s].op \in {"edit", "cash", "confirm", "cash_refund",
                                  "stripe_refund", "credit"}
MovesMoney(s) == Unlocked(s) \/ (InFlight(s) /\ req[s].op = "webhook")

\* No such handler overlaps with another one that moves money of its invoice;
\* webhooks, which lock the row as they load it, may arrive at any time else.
UnlockedMoneyAlone ==
    \A s, t \in Slots :
        s # t /\ Unlocked(s) /\ MovesMoney(t) => req[s].inv # req[t].inv

\* No two requests of any kind are in flight on one invoice.
OneAtATime ==
    \A s, t \in Slots :
        s # t /\ InFlight(s) /\ InFlight(t) => req[s].inv # req[t].inv

\* The amounts in the copy a money handler writes from are the committed ones.
FreshMoney ==
    \A s \in Slots : MovesMoney(s) =>
        LET i == req[s].inv IN
        Exists(row[i]) =>
            /\ row[i].paid = req[s].snap.paid
            /\ row[i].due = req[s].snap.due
            /\ row[i].total = req[s].snap.total
            /\ req[s].op = "edit" => books[i] = NoBooks
            /\ req[s].op = "credit" => req[s].amt <= row[i].total - books[i].credited

\* What BooksBalance and CreditWithinTotal say of an existing row.
Balanced(r, b) ==
    /\ r.paid = b.gross - b.refunded
    /\ r.due = AtLeastZero(r.total - b.gross - b.credited)
    /\ b.credited <= r.total

BalancedRows == \A i \in Invoices : Exists(row[i]) => Balanced(row[i], books[i])

MoneyInv == FreshMoney /\ BalancedRows

\* The whole copy is the committed row, unless the invoice has been deleted.
FreshCopies ==
    \A s \in Slots : InFlight(s) /\ Exists(row[req[s].inv]) =>
        req[s].snap = row[req[s].inv]

\* What StatusAgreesWithBooks says of a row; no more is taken than invoiced, and
\* nothing of an open invoice was sent back.
Agrees(r, b) ==
    /\ r.status = "draft"  => r.number = 0 /\ b = NoBooks
    /\ r.status = "issued" => b.gross = 0
    /\ r.status = "paid"   => r.due = 0 /\ b.refunded = 0
    /\ r.status = "partially_paid" => r.paid > 0 /\ b.refunded = 0
    /\ Payable(r) /\ r.total > 0 => r.due > 0
    /\ r.status = "refunded" => r.paid = 0 /\ b.refunded > 0
    /\ r.status = "partially_refunded" => r.paid > 0 /\ b.refunded > 0
    /\ Exists(r) => b.gross <= r.total
    /\ Payable(r) => b.refunded = 0

AgreeingRows == \A i \in Invoices : Agrees(row[i], books[i])

AtomicInv == MoneyInv /\ FreshCopies /\ AgreeingRows

-----------------------------------------------------------------------------
(* What a commit does to the amounts of its invoice *)

LEMMA PostedColumns ==
    ASSUME TypeOK, NEW i \in Invoices, NEW amount \in Nat
    PROVE  /\ \A j \in Invoices \ {i} :
                 /\ [books EXCEPT ![i].gross = @ + amount][j] = books[j]
                 /\ [books EXCEPT ![i].refunded = @ + amount][j] = books[j]
                 /\ [books EXCEPT ![i].credited = @ + amount][j] = books[j]
           /\ LET b == [books EXCEPT ![i].gross = @ + amount][i] IN
              /\ b.gross = books[i].gross + amount
              /\ b.refunded = books[i].refunded /\ b.credited = books[i].credited
           /\ LET b == [books EXCEPT ![i].refunded = @ + amount][i] IN
              /\ b.gross = books[i].gross
              /\ b.refunded = books[i].refunded + amount /\ b.credited = books[i].credited
           /\ LET b == [books EXCEPT ![i].credited = @ + amount][i] IN
              /\ b.gross = books[i].gross
              /\ b.refunded = books[i].refunded /\ b.credited = books[i].credited + amount
BY DEF TypeOK, Books

\* The request that commits, and what it holds.
LEMMA Committing ==
    ASSUME OverlapInv, NEW s \in Slots, Finish(s)
    PROVE  LET r == req[s] IN
           /\ InFlight(s) /\ Holds(s) /\ r.inv \in Invoices
           /\ Exists(row[r.inv]) /\ Admitted(r) /\ Sound(r.snap)
           /\ r.snap \in Row /\ row[r.inv] \in Row /\ r.amt \in Nat
           /\ req'[s] = Idle
           /\ Captures(s) => Lesser(r.amt, r.snap.due) > 0
<1>1. PICK op, new : Commit(s, op, new)
  BY FinishCommits
<1>2. InFlight(s) /\ Holds(s)
  BY <1>1 DEF Commit, InFlight, Holds
<1>3. req'[s] = Idle
  BY <1>1 DEF Commit, OverlapInv, IInv, TypeOK
<1> QED BY <1>2, <1>3, RequestType DEF OverlapInv, IInv, CopyInv, LockInv, CaptureInv, TypeOK

\* A commit that moves no money: issue, link, void, overdue.
LEMMA FinishQuiet ==
    ASSUME OverlapInv, NEW s \in Slots, Finish(s), ~MovesMoney(s)
    PROVE  /\ UNCHANGED books
           /\ \A i \in Invoices : /\ row'[i].paid = row[i].paid /\ row'[i].due = row[i].due
                                  /\ row'[i].total = row[i].total
                                  /\ row'[i] = row[i] \/ Exists(row[i])
<1> DEFINE r == req[s]
           Same(n) == /\ n \in Row /\ n.paid = r.snap.paid /\ n.due = r.snap.due
                      /\ n.total = r.snap.total
           Amounts_(i) == /\ row'[i].paid = row[i].paid /\ row'[i].due = row[i].due
                          /\ row'[i].total = row[i].total
                          /\ row'[i] = row[i] \/ Exists(row[i])
<1>0. /\ TypeOK /\ LockInv /\ InFlight(s) /\ r.inv \in Invoices /\ Exists(row[r.inv])
      /\ r.snap \in Row
      /\ NoIntent \in Intents \cup {NoIntent} /\ lastNumber + 1 \in Nat
  BY Committing DEF OverlapInv, IInv, TypeOK
<1>1. ASSUME NEW op, NEW new, Commit(s, op, new), Same(new)
      PROVE  \A i \in Invoices : Amounts_(i)
  BY <1>0, <1>1, CommitRow
<1>2. /\ ~CommitEdit(s) /\ ~CommitCash(s) /\ ~CommitCredit(s)
      /\ \A op \in {"webhook", "confirm"} : ~CommitCapture(s, op)
      /\ \A op \in {"cash_refund", "stripe_refund"} : ~CommitRefund(s, op)
  BY <1>0 DEF MovesMoney, Unlocked, CommitEdit, CommitCash, CommitCredit, CommitCapture,
              CommitRefund, Commit
<1>3. ASSUME NEW k \in Intents \cup {NoIntent}, CommitIssue(s, k)
      PROVE  UNCHANGED books /\ \A i \in Invoices : Amounts_(i)
  <2>1. Same(Issued(r.snap, lastNumber + 1, k))
    BY <1>0, IssuedColumns
  <2> QED BY <2>1, <1>1, <1>3 DEF CommitIssue, NextNumber
<1>4. ASSUME NEW op \in {"link", "qr_link"}, NEW k \in Intents, CommitLink(s, op, k)
      PROVE  UNCHANGED books /\ \A i \in Invoices : Amounts_(i)
  <2>1. Same([r.snap EXCEPT !.pi = k])
    BY <1>0, PiColumns
  <2> QED BY <2>1, <1>1, <1>4 DEF CommitLink
<1>5. ASSUME NEW st \in {"voided", "overdue"}, NEW op,
             Commit(s, op, [r.snap EXCEPT !.status = st]), UNCHANGED books
      PROVE  UNCHANGED books /\ \A i \in Invoices : Amounts_(i)
  <2>1. st \in Status
    BY DEF Status
  <2>2. Same([r.snap EXCEPT !.status = st])
    BY <1>0, <2>1, StatusColumns
  <2> QED BY <2>2, <1>1, <1>5
<1> HIDE DEF Amounts_
<1>6. UNCHANGED books /\ \A i \in Invoices : Amounts_(i)
  BY <1>2, <1>3, <1>4, <1>5 DEF Finish, CommitVoid, CommitOverdue
<1> QED BY <1>6 DEF Amounts_

\* Two handlers that move money of one invoice: the second has the first in its way.
LEMMA MoversApart ==
    ASSUME OverlapInv, UnlockedMoneyAlone, NEW s \in Slots, NEW t \in Slots, s # t,
           Holds(s), MovesMoney(s), MovesMoney(t)
    PROVE  req[s].inv # req[t].inv
<1>1. CASE Unlocked(s) \/ Unlocked(t)
  BY <1>1 DEF UnlockedMoneyAlone
<1>2. CASE ~Unlocked(s) /\ ~Unlocked(t)
  <2>1. Holds(t)
    BY <1>2 DEF MovesMoney, OverlapInv, IInv, FreshInv
  <2> QED BY <2>1 DEF OverlapInv, IInv, LockInv
<1> QED BY <1>1, <1>2

\* A row that is created or deleted in one step is not a row that exists before
\* and after it.
LEMMA WholeStepApart ==
    ASSUME OverlapInv, NEW i \in Invoices, NEW j \in Invoices, WholeStep(j),
           row[i].status # "none", Exists(row'[i])
    PROVE  row'[i] = row[i] /\ books'[i] = books[i]
<1>0. TypeOK
  BY DEF OverlapInv, IInv
<1>1. ASSUME NEW r, row' = [row EXCEPT ![j] = r], row[j].status = "none", UNCHANGED books
      PROVE  row'[i] = row[i] /\ books'[i] = books[i]
  <2>1. j # i
    BY <1>1
  <2> QED BY <1>1, <2>1 DEF TypeOK
<1>2. ASSUME NEW total \in Amounts, CreateDraft(j, total)
      PROVE  row'[i] = row[i] /\ books'[i] = books[i]
  BY <1>1, <1>2 DEF CreateDraft
<1>3. ASSUME NEW total \in Amounts, NEW k \in Intents \cup {NoIntent},
             CreateIssued(j, total, k)
      PROVE  row'[i] = row[i] /\ books'[i] = books[i]
  BY <1>1, <1>3 DEF CreateIssued
<1>4. CASE BulkDelete(j)
  <2>1. ~Exists(row'[j])
    BY <1>0, <1>4 DEF BulkDelete, BlankRow, Exists, TypeOK
  <2>2. j # i
    BY <2>1
  <2> QED BY <1>0, <1>4, <2>2 DEF BulkDelete, TypeOK
<1>5. CASE DueDatePasses(j) \/ DeferDueDate(j)
  BY <1>5 DEF DueDatePasses, DeferDueDate
<1> QED BY <1>2, <1>3, <1>4, <1>5 DEF WholeStep

\* The amounts a money handler has loaded stay the committed ones until it ends.
LEMMA FreshMoneyKept ==
    ASSUME OverlapInv, UnlockedMoneyAlone, FreshMoney, [Next]_vars
    PROVE  FreshMoney'
<1> SUFFICES ASSUME NEW t \in Slots, MovesMoney(t)', Exists(row'[req'[t].inv])
             PROVE  LET i == req'[t].inv IN
                    /\ row'[i].paid = req'[t].snap.paid
                    /\ row'[i].due = req'[t].snap.due
                    /\ row'[i].total = req'[t].snap.total
                    /\ req'[t].op = "edit" => books'[i] = NoBooks
                    /\ req'[t].op = "credit" =>
                          req'[t].amt <= row'[i].total - books'[i].credited
  BY DEF FreshMoney
<1> DEFINE i == req[t].inv
<1>0. TypeOK /\ LockInv /\ IInv /\ RowInv /\ CopyInv
  BY DEF OverlapInv, IInv
<1>1. Moves(t)
  BY <1>0, NextMoves
<1>2. req'[t] # Idle
  BY DEF MovesMoney, Unlocked, InFlight, Idle
<1>3. CASE Begins(t)
  BY <1>0, <1>3 DEF Begins, Admitted, RowInv, tables
<1>4. CASE Continues(t)
  BY <1>4 DEF Continues, FreshMoney, MovesMoney, Unlocked, InFlight
<1>5. CASE req'[t] = req[t]
  <2>0. /\ MovesMoney(t) /\ InFlight(t) /\ i \in Invoices /\ row[i].status # "none"
        /\ Exists(row'[i])
    BY <1>0, <1>5 DEF MovesMoney, Unlocked, InFlight, LockInv, CopyInv
  <2>1. SUFFICES /\ row'[i].paid = row[i].paid /\ row'[i].due = row[i].due
                 /\ row'[i].total = row[i].total /\ books'[i] = books[i]
                 /\ Exists(row[i])
    BY <1>5, <2>0 DEF FreshMoney
  <2>2. CASE UNCHANGED <<row, books, lastNumber>>
    BY <2>0, <2>2
  <2>3. ASSUME NEW j \in Invoices, WholeStep(j)
        PROVE  row'[i] = row[i] /\ books'[i] = books[i]
    BY <2>0, <2>3, WholeStepApart
  <2>4. ASSUME NEW s \in Slots, Finish(s)
        PROVE  /\ row'[i].paid = row[i].paid /\ row'[i].due = row[i].due
               /\ row'[i].total = row[i].total /\ books'[i] = books[i]
               /\ Exists(row[i])
    <3>1. s # t /\ Holds(s)
      BY <1>2, <2>4, Committing
    <3>2. CASE ~MovesMoney(s)
      BY <2>0, <2>4, <3>2, FinishQuiet
    <3>3. CASE MovesMoney(s)
      <4>1. req[s].inv # i
        BY <2>0, <3>1, <3>3, MoversApart
      <4>2. row'[i] = row[i] /\ books'[i] = books[i]
        BY <1>0, <2>0, <2>4, <4>1, FinishCopy, CommitRow DEF SoundCopy, BooksMove
      <4> QED BY <2>0, <4>2
    <3> QED BY <3>2, <3>3
  <2> QED BY <1>0, <2>0, <2>2, <2>3, <2>4, RowsUntouched
<1> QED BY <1>1, <1>2, <1>3, <1>4, <1>5 DEF Moves


-----------------------------------------------------------------------------
(* The books balance while the handlers that move money have fresh amounts *)

LEMMA BalanceIsMoney ==
    ASSUME OverlapInv, BalancedRows
    PROVE  BooksBalance /\ CreditWithinTotal
<1>1. ASSUME NEW i \in Invoices, row[i].status = "none"
      PROVE  books[i].credited <= row[i].total
  BY <1>1 DEF OverlapInv, RowInv, NoBooks, BlankRow
<1>2. BooksBalance
  BY DEF BalancedRows, Balanced, BooksBalance
<1>3. CreditWithinTotal
  BY <1>1 DEF BalancedRows, Balanced, CreditWithinTotal, Exists
<1> QED BY <1>2, <1>3

\* A money handler writes all amounts as if it had loaded the committed row.
LEMMA CommitAmounts ==
    ASSUME OverlapInv, FreshMoney, NEW s \in Slots, Finish(s), MovesMoney(s),
           NEW op, NEW new \in Row, Commit(s, op, new)
    PROVE  LET i == req[s].inv
               l == req[s].snap IN
           /\ row'[i].paid = new.paid /\ row'[i].due = new.due /\ row'[i].total = new.total
           /\ row[i].paid = l.paid /\ row[i].due = l.due /\ row[i].total = l.total
           /\ \A j \in Invoices \ {i} : row'[j] = row[j]
<1>1. TypeOK /\ LockInv /\ Exists(row[req[s].inv])
  BY Committing DEF OverlapInv, IInv
<1> QED BY <1>1, CommitRow DEF FreshMoney


\* The arithmetic of each kind of posting: a row r with books b becomes n with c.
LEMMA TakingBalances ==
    ASSUME NEW r \in Row, NEW b \in Books, NEW n, NEW c, Balanced(r, b),
           NEW amount \in Nat, amount > 0, amount <= r.due,
           n.paid = r.paid + amount, n.due = r.due - amount, n.total = r.total,
           c.gross = b.gross + amount, c.refunded = b.refunded, c.credited = b.credited
    PROVE  Balanced(n, c)
BY DEF Row, Books, Balanced, AtLeastZero

LEMMA RefundingBalances ==
    ASSUME NEW r \in Row, NEW b \in Books, NEW n, NEW c, Balanced(r, b),
           NEW amount \in Nat, amount <= r.paid,
           n.paid = AtLeastZero(r.paid - amount), n.due = r.due, n.total = r.total,
           c.gross = b.gross, c.refunded = b.refunded + amount, c.credited = b.credited
    PROVE  Balanced(n, c)
BY DEF Row, Books, Balanced, AtLeastZero

LEMMA CreditingBalances ==
    ASSUME NEW r \in Row, NEW b \in Books, NEW n, NEW c, Balanced(r, b),
           NEW amount \in Nat, amount <= r.total - b.credited,
           n.paid = r.paid, n.due = AtLeastZero(r.due - amount), n.total = r.total,
           c.gross = b.gross, c.refunded = b.refunded, c.credited = b.credited + amount
    PROVE  Balanced(n, c)
BY DEF Row, Books, Balanced, AtLeastZero

LEMMA FreshBalances ==
    ASSUME NEW n, NEW amount \in Nat, n.paid = 0, n.due = amount, n.total = amount
    PROVE  Balanced(n, NoBooks)
BY DEF NoBooks, Balanced, AtLeastZero

LEMMA FinishMoney ==
    ASSUME OverlapInv, FreshMoney, BalancedRows, NEW s \in Slots, Finish(s), MovesMoney(s)
    PROVE  BalancedRows'
<1> DEFINE r == req[s]
           i == r.inv
           l == r.snap
<1>0. /\ i \in Invoices /\ Exists(row[i]) /\ Admitted(r) /\ Sound(l)
      /\ l \in Row /\ row[i] \in Row /\ r.amt \in Nat /\ books[i] \in Books
      /\ TypeOK /\ IInv /\ MovesMoney(s)
      /\ Captures(s) => Lesser(r.amt, l.due) > 0
  BY Committing DEF OverlapInv, IInv, TypeOK
<1>1. /\ row[i].paid = l.paid /\ row[i].due = l.due /\ row[i].total = l.total
      /\ r.op = "edit" => books[i] = NoBooks
      /\ r.op = "credit" => r.amt <= row[i].total - books[i].credited
  BY <1>0 DEF FreshMoney
<1>2. row'[i] \in Row /\ books'[i] \in Books
  BY <1>0, FinishKeepsTypes DEF IInv, TypeOK
\* It is enough that the row that is written is balanced.
<1>3. ASSUME Balanced(row'[i], books'[i]), \A j \in Invoices \ {i} : row'[j] = row[j],
             \A j \in Invoices \ {i} : books'[j] = books[j]
      PROVE  BalancedRows'
  BY <1>3 DEF BalancedRows
<1>4. Balanced(row[i], books[i])
  BY <1>0 DEF BalancedRows
<1>5. ASSUME NEW op, NEW new \in Row, Commit(s, op, new)
      PROVE  /\ row'[i].paid = new.paid /\ row'[i].due = new.due /\ row'[i].total = new.total
             /\ \A j \in Invoices \ {i} : row'[j] = row[j]
  BY <1>5, CommitAmounts
<1>6. CASE CommitEdit(s)
  <2>1. r.op = "edit" /\ Commit(s, "edit", Recalculated(l, r.amt)) /\ UNCHANGED books
    BY <1>6 DEF CommitEdit, Commit
  <2>2. l.paid = 0 /\ books'[i] = NoBooks
    BY <2>1, <1>0, <1>1 DEF Admitted, Sound
  <2> DEFINE n == Recalculated(l, r.amt)
  <2>3. n \in Row /\ n.paid = l.paid /\ n.due = r.amt - l.paid /\ n.total = r.amt
    BY <1>0, RecalculatedColumns
  <2> HIDE DEF n
  <2>4. row'[i].paid = 0 /\ row'[i].due = r.amt /\ row'[i].total = r.amt
        /\ \A j \in Invoices \ {i} : row'[j] = row[j]
    BY <1>0, <2>1, <2>2, <2>3, <1>5 DEF n
  <2>5. Balanced(row'[i], books'[i])
    BY <1>0, <1>2, <1>4, <2>2, <2>4, FreshBalances
  <2> QED BY <1>3, <2>1, <2>4, <2>5
<1>7. ASSUME NEW op \in {"cash", "webhook", "confirm"}, NEW a \in Nat, a > 0, a <= l.due,
             NEW n \in Row, Commit(s, op, n),
             n.paid = l.paid + a, n.due = l.due - a, n.total = l.total,
             books' = [books EXCEPT ![i].gross = @ + a]
      PROVE  BalancedRows'
  <2>1. /\ row'[i].paid = row[i].paid + a /\ row'[i].due = row[i].due - a
        /\ row'[i].total = row[i].total /\ a <= row[i].due
        /\ \A j \in Invoices \ {i} : row'[j] = row[j]
    BY <1>1, <1>5, <1>7
  <2>2. /\ books'[i].gross = books[i].gross + a
        /\ books'[i].refunded = books[i].refunded /\ books'[i].credited = books[i].credited
        /\ \A j \in Invoices \ {i} : books'[j] = books[j]
    BY <1>0, <1>7, PostedColumns
  <2>3. Balanced(row'[i], books'[i])
    <3>1. a \in Nat /\ a > 0 /\ row[i] \in Row /\ books[i] \in Books
      BY <1>0, <1>7
    <3> QED BY <3>1, <1>4, <2>1, <2>2, TakingBalances
  <2> QED BY <1>3, <2>1, <2>2, <2>3
<1>8. CASE CommitCash(s)
  <2>1. /\ r.op = "cash" /\ Commit(s, "cash", Settled(l, r.amt))
        /\ books' = [books EXCEPT ![i].gross = @ + r.amt]
    BY <1>8 DEF CommitCash, Commit
  <2>2. r.amt > 0 /\ r.amt <= l.due /\ r.amt \in Int /\ l.due \in Int
    BY <2>1, <1>0, RowColumns DEF Admitted
  <2>3. LET n == Settled(l, r.amt) IN
        n \in Row /\ n.paid = l.paid + r.amt /\ n.due = l.due - r.amt /\ n.total = l.total
    BY <1>0, <2>2, SettledColumns
  <2> QED BY <1>0, <1>7, <2>1, <2>2, <2>3
<1>9. ASSUME NEW op \in {"webhook", "confirm"}, CommitCapture(s, op) PROVE BalancedRows'
  <2> DEFINE a == Lesser(r.amt, l.due)
  <2>1. /\ r.op = op /\ Commit(s, op, Captured(l, r.amt))
        /\ books' = [books EXCEPT ![i].gross = @ + a]
    BY <1>9 DEF CommitCapture, Commit
  <2>2. a \in Nat /\ a > 0 /\ a <= l.due
    BY <2>1, <1>0, RowColumns DEF Captures, Lesser
  <2>3. LET n == Captured(l, r.amt) IN
        n \in Row /\ n.paid = l.paid + a /\ n.due = l.due - a /\ n.total = l.total
    BY <1>0, CapturedColumns
  <2> HIDE DEF a
  <2> QED BY <1>7, <2>1, <2>2, <2>3
<1>10. ASSUME NEW op \in {"cash_refund", "stripe_refund"}, CommitRefund(s, op)
       PROVE  BalancedRows'
  <2>1. /\ r.op = op /\ Commit(s, op, Refunded(l, r.amt))
        /\ books' = [books EXCEPT ![i].refunded = @ + r.amt]
    BY <1>10 DEF CommitRefund, Commit
  <2>2. r.amt <= l.paid
    BY <2>1, <1>0, RowColumns DEF Admitted
  <2> DEFINE n == Refunded(l, r.amt)
  <2>3. n \in Row /\ n.paid = AtLeastZero(l.paid - r.amt) /\ n.due = l.due
        /\ n.total = l.total
    BY <1>0, RefundedColumns
  <2> HIDE DEF n
  <2>4. /\ row'[i].paid = AtLeastZero(row[i].paid - r.amt) /\ row'[i].due = row[i].due
        /\ row'[i].total = row[i].total /\ r.amt <= row[i].paid
        /\ \A j \in Invoices \ {i} : row'[j] = row[j]
    BY <1>1, <1>5, <2>1, <2>2, <2>3 DEF n
  <2>5. /\ books'[i].gross = books[i].gross /\ books'[i].refunded = books[i].refunded + r.amt
        /\ books'[i].credited = books[i].credited
        /\ \A j \in Invoices \ {i} : books'[j] = books[j]
    BY <1>0, <2>1, PostedColumns
  <2>6. Balanced(row'[i], books'[i])
    BY <1>0, <1>2, <1>4, <2>4, <2>5, RefundingBalances
  <2> QED BY <1>3, <2>4, <2>5, <2>6
<1>11. CASE CommitCredit(s)
  <2>1. /\ r.op = "credit" /\ Commit(s, "credit", Credited(l, r.amt))
        /\ books' = [books EXCEPT ![i].credited = @ + r.amt]
    BY <1>11 DEF CommitCredit, Commit
  <2> DEFINE n == Credited(l, r.amt)
  <2>3. n \in Row /\ n.paid = l.paid /\ n.due = AtLeastZero(l.due - r.amt)
        /\ n.total = l.total
    BY <1>0, CreditedColumns
  <2> HIDE DEF n
  <2>4. /\ row'[i].paid = row[i].paid /\ row'[i].due = AtLeastZero(row[i].due - r.amt)
        /\ row'[i].total = row[i].total /\ r.amt <= row[i].total - books[i].credited
        /\ \A j \in Invoices \ {i} : row'[j] = row[j]
    BY <1>1, <1>5, <2>1, <2>3 DEF n
  <2>5. /\ books'[i].gross = books[i].gross /\ books'[i].refunded = books[i].refunded
        /\ books'[i].credited = books[i].credited + r.amt
        /\ \A j \in Invoices \ {i} : books'[j] = books[j]
    BY <1>0, <2>1, PostedColumns
  <2>6. Balanced(row'[i], books'[i])
    BY <1>0, <1>2, <1>4, <2>4, <2>5, CreditingBalances
  <2> QED BY <1>3, <2>4, <2>5, <2>6
\* The other handlers do not move money.
<1>12. ASSUME NEW op, NEW new, Commit(s, op, new),
              op \in {"issue", "link", "qr_link", "void", "overdue"}
       PROVE  FALSE
  BY <1>12, <1>0 DEF Commit, MovesMoney, Unlocked
<1> QED BY <1>6, <1>8, <1>9, <1>10, <1>11, <1>12
        DEF Finish, CommitIssue, CommitLink, CommitVoid, CommitOverdue


LEMMA BalanceKept ==
    ASSUME OverlapInv, FreshMoney, BalancedRows, [Next]_vars
    PROVE  BalancedRows'
<1>0. TypeOK /\ IInv
  BY DEF OverlapInv, IInv
<1>1. CASE UNCHANGED <<row, books, lastNumber>>
  BY <1>1 DEF BalancedRows
<1>2. ASSUME NEW i \in Invoices, WholeStep(i) PROVE BalancedRows'
  <2>1. ASSUME NEW st, NEW n, NEW total \in Nat, NEW k, row[i].status = "none",
               row' = [row EXCEPT ![i] = NewRow(st, n, total, k)], UNCHANGED books
        PROVE  BalancedRows'
    <3>1. books'[i] = NoBooks
      BY <2>1 DEF OverlapInv, RowInv
    <3>2. Balanced(row'[i], NoBooks)
      BY <1>0, <2>1, FreshBalances DEF NewRow, TypeOK
    <3>3. \A j \in Invoices \ {i} : row'[j] = row[j] /\ books'[j] = books[j]
      BY <1>0, <2>1 DEF TypeOK
    <3> QED BY <3>1, <3>2, <3>3 DEF BalancedRows
  <2>2. Amounts \subseteq Nat
    BY ConstantsAssumption DEF Amounts
  <2>3. ASSUME NEW total \in Amounts, CreateDraft(i, total) PROVE BalancedRows'
    BY <2>1, <2>2, <2>3 DEF CreateDraft
  <2>4. ASSUME NEW total \in Amounts, NEW k \in Intents \cup {NoIntent},
               CreateIssued(i, total, k)
        PROVE  BalancedRows'
    BY <2>1, <2>2, <2>4 DEF CreateIssued
  <2>5. CASE BulkDelete(i)
    <3>1. ~Exists(row'[i]) /\ \A j \in Invoices \ {i} : row'[j] = row[j] /\ books'[j] = books[j]
      BY <1>0, <2>5 DEF BulkDelete, BlankRow, Exists, TypeOK
    <3> QED BY <3>1 DEF BalancedRows
  <2>6. CASE DueDatePasses(i) \/ DeferDueDate(i)
    BY <2>6 DEF DueDatePasses, DeferDueDate, BalancedRows
  <2> QED BY <1>2, <2>3, <2>4, <2>5, <2>6 DEF WholeStep
<1>3. ASSUME NEW s \in Slots, Finish(s), ~MovesMoney(s) PROVE BalancedRows'
  BY <1>3, FinishQuiet DEF BalancedRows, Balanced
<1> QED BY <1>0, <1>1, <1>2, <1>3, FinishMoney, RowsUntouched

LEMMA MoneyInit == Init => MoneyInv
<1> SUFFICES ASSUME Init PROVE MoneyInv
  OBVIOUS
<1>1. FreshMoney
  BY DEF Init, FreshMoney, MovesMoney, Unlocked, InFlight, Idle
<1>2. BalancedRows
  BY BlankRowType DEF Init, BalancedRows
<1> QED BY <1>1, <1>2 DEF MoneyInv

LEMMA MoneyStep == OverlapInv /\ UnlockedMoneyAlone /\ MoneyInv /\ [Next]_vars => MoneyInv'
BY FreshMoneyKept, BalanceKept DEF MoneyInv

\* Webhooks, issues, links, voids, deletions and the nightly task may overlap as
\* they like: as long as no handler that moves money from a row it loaded unlocked
\* overlaps with another that moves money of the same invoice, amount_paid and
\* balance_due are what payments, refunds and credit notes make of the total.
THEOREM BooksBalanceWhenMoneyIsAlone == Spec /\ []UnlockedMoneyAlone => []BooksBalance
<1>1. OverlapInv /\ MoneyInv => BooksBalance
  BY BalanceIsMoney DEF MoneyInv
<1> QED BY <1>1, OverlapInvariantHolds, MoneyInit, MoneyStep, PTL DEF Spec

\* Under the same condition create_credit_note never credits more than the total.
THEOREM CreditStaysWithinTotal == Spec /\ []UnlockedMoneyAlone => []CreditWithinTotal
<1>1. OverlapInv /\ MoneyInv => CreditWithinTotal
  BY BalanceIsMoney DEF MoneyInv
<1> QED BY <1>1, OverlapInvariantHolds, MoneyInit, MoneyStep, PTL DEF Spec

\* The requests that write a row without moving money, or lock it as they load it.
SafeOps == AllOps \ {"edit", "cash", "confirm", "cash_refund", "stripe_refund", "credit"}

OpsInv == \A s \in Slots : req[s].op \in Ops \cup {"none"}

LEMMA OnlyOps == Spec => []OpsInv
<1>1. Init => OpsInv
  BY DEF Init, OpsInv, Idle
<1>2. ASSUME OverlapInv, OpsInv, [Next]_vars PROVE OpsInv'
  <2> DEFINE Known(t) == req'[t].op \in {req[t].op, "none"} \cup Ops
  <2>0. TypeOK
    BY <1>2 DEF OverlapInv, IInv
  <2>1. SUFFICES \A t \in Slots : Known(t)
    BY <1>2 DEF OpsInv
  <2>2. CASE UNCHANGED req
    BY <2>2
  <2>3. ASSUME NEW s \in Slots, NEW i \in Invoices, Start(s, i) PROVE \A t \in Slots : Known(t)
    <3>1. PICK op, amount, k : Load(s, op, i, amount, k)
      BY <2>0, <2>3, StartLoads DEF Loads
    <3>2. op \in Ops /\ req'[s].op = op /\ \A t \in Slots \ {s} : req'[t] = req[t]
      BY <2>0, <3>1 DEF Load, TypeOK
    <3> QED BY <3>2
  <2>4. ASSUME NEW s \in Slots, NEW k \in Intents, DeliverWebhook(s, k)
        PROVE  \A t \in Slots : Known(t)
    BY <2>0, <2>4 DEF DeliverWebhook, TypeOK
  <2>5. ASSUME NEW s \in Slots, req' = [req EXCEPT ![s] = Idle] PROVE \A t \in Slots : Known(t)
    BY <2>0, <2>5 DEF Idle, TypeOK
  <2>6. ASSUME NEW s \in Slots, NEW p, NEW k,
               \/ req' = [req EXCEPT ![s].phase = p]
               \/ req' = [req EXCEPT ![s].phase = p, ![s].k = k]
        PROVE  \A t \in Slots : Known(t)
    <3>1. \A t \in Slots \ {s} : req'[t] = req[t]
      BY <2>0, <2>6 DEF TypeOK
    <3>2. \A r \in Request : /\ [r EXCEPT !.phase = p].op = r.op
                             /\ [r EXCEPT !.phase = p, !.k = k].op = r.op
      BY DEF Request
    <3>3. req'[s].op = req[s].op
      <4>1. /\ req[s] \in Request
            /\ \/ req'[s] = [req[s] EXCEPT !.phase = p]
               \/ req'[s] = [req[s] EXCEPT !.phase = p, !.k = k]
        BY <2>0, <2>6 DEF TypeOK
      <4> QED BY <3>2, <4>1
    <3> QED BY <3>1, <3>3
  <2> HIDE DEF Known
  <2>7. ASSUME NEW i \in Invoices, WholeStep(i) PROVE UNCHANGED req
    BY <2>7 DEF WholeStep, CreateDraft, CreateIssued, BulkDelete, DueDatePasses, DeferDueDate
  <2>8. ASSUME NEW s \in Slots, Finish(s) \/ Abort(s) PROVE req' = [req EXCEPT ![s] = Idle]
    BY <2>8, FinishCommits DEF Commit, Abort
  <2>9. ASSUME NEW s \in Slots, StripeAnswers(s) \/ Flush(s) \/ LockConfirm(s)
        PROVE  \A t \in Slots : Known(t)
    <3>1. CASE StripeConfirms(s) \/ Flush(s) \/ LockConfirm(s)
      BY <2>6, <3>1 DEF StripeConfirms, Flush, LockConfirm
    <3>2. ASSUME NEW k \in Intents, StripeRefunds(s, k) PROVE \A t \in Slots : Known(t)
      BY <2>6, <3>2 DEF StripeRefunds
    <3>3. ASSUME NEW cancelled \in BOOLEAN, CancelOldIntent(s, cancelled)
          PROVE  \A t \in Slots : Known(t)
      BY <2>6, <3>3 DEF CancelOldIntent
    <3> QED BY <2>9, <3>1, <3>2, <3>3 DEF StripeAnswers
  <2>10. ASSUME NEW k \in Intents, CustomerPays(k) \/ AnswerEvent(k) PROVE UNCHANGED req
    BY <2>10 DEF CustomerPays, AnswerEvent
  <2>11. CASE UNCHANGED vars
    BY <2>2, <2>11 DEF vars
  <2>12. CASE Next
    BY <2>12, <2>2, <2>3, <2>4, <2>5, <2>7, <2>8, <2>9, <2>10 DEF Next, WholeStep
  <2> QED BY <1>2, <2>1, <2>11, <2>12
<1> QED BY <1>1, <1>2, OverlapInvariantHolds, PTL DEF Spec

\* With no condition on the overlaps: where every payment comes by webhook, the
\* books balance however issues, links, voids, deletions, the nightly task and
\* repeated deliveries interleave.
THEOREM BooksBalanceByWebhook ==
    ASSUME Ops \subseteq SafeOps
    PROVE  Spec => []BooksBalance
<1>1. OpsInv => UnlockedMoneyAlone
  BY Ops \subseteq SafeOps DEF OpsInv, UnlockedMoneyAlone, Unlocked, SafeOps
<1> QED BY <1>1, OnlyOps, BooksBalanceWhenMoneyIsAlone, PTL


-----------------------------------------------------------------------------
(* One request at a time on an invoice: the copies are the committed rows *)

LEMMA AtomicAlone == OneAtATime => UnlockedMoneyAlone
BY DEF OneAtATime, UnlockedMoneyAlone, MovesMoney, Unlocked

LEMMA FreshCopiesKept ==
    ASSUME OverlapInv, OneAtATime, FreshCopies, [Next]_vars
    PROVE  FreshCopies'
<1> SUFFICES ASSUME NEW t \in Slots, InFlight(t)', Exists(row'[req'[t].inv])
             PROVE  req'[t].snap = row'[req'[t].inv]
  BY DEF FreshCopies
<1> DEFINE i == req[t].inv
<1>0. TypeOK /\ LockInv /\ IInv /\ CopyInv /\ RowInv
  BY DEF OverlapInv, IInv
<1>1. Moves(t)
  BY <1>0, NextMoves
<1>2. req'[t] # Idle
  BY DEF InFlight, Idle
<1>3. CASE Begins(t)
  BY <1>3 DEF Begins, tables
<1>4. CASE Continues(t)
  BY <1>4 DEF Continues, FreshCopies
<1>5. CASE req'[t] = req[t]
  <2>0. /\ InFlight(t) /\ i \in Invoices /\ row[i].status # "none" /\ Exists(row'[i])
    BY <1>0, <1>5 DEF InFlight, LockInv, CopyInv
  <2>1. ASSUME row'[i] = row[i] PROVE req'[t].snap = row'[req'[t].inv]
    BY <2>0, <2>1, <1>5 DEF FreshCopies
  <2>2. ASSUME NEW s \in Slots, Finish(s) PROVE row'[i] = row[i]
    <3>1. s # t /\ InFlight(s)
      BY <1>2, <2>2, Committing
    <3>2. req[s].inv # i
      BY <2>0, <3>1 DEF OneAtATime
    <3> QED BY <1>0, <2>0, <2>2, <3>2, FinishCopy, CommitRow DEF SoundCopy
  <2>3. ASSUME NEW j \in Invoices, WholeStep(j) PROVE row'[i] = row[i]
    BY <2>0, <2>3, WholeStepApart
  <2> QED BY <1>0, <2>1, <2>2, <2>3, RowsUntouched
<1> QED BY <1>1, <1>2, <1>3, <1>4, <1>5 DEF Moves

\* Where nothing has overlapped, a commit replaces the row it loaded.
LEMMA WrittenWhole ==
    ASSUME NEW r \in Row, NEW n \in Row
    PROVE  Written(r, r, n) = n
BY DEF Written, Column, Row

LEMMA CommitWhole ==
    ASSUME OverlapInv, FreshCopies, NEW s \in Slots, NEW op, NEW new \in Row,
           Commit(s, op, new), Finish(s)
    PROVE  /\ req[s].snap = row[req[s].inv]
           /\ row' = [row EXCEPT ![req[s].inv] = new]
<1>1. /\ InFlight(s) /\ req[s].inv \in Invoices /\ Exists(row[req[s].inv])
      /\ req[s].snap \in Row
  BY Committing
<1>2. req[s].snap = row[req[s].inv]
  BY <1>1 DEF FreshCopies
<1>3. Written(row[req[s].inv], req[s].snap, new) = new
  BY <1>1, <1>2, WrittenWhole
<1> QED BY <1>2, <1>3 DEF Commit


-----------------------------------------------------------------------------
(* Each handler is a step of InvoiceBook when its invoice has no other *)

Recorded == {k \in Intents : intent[k].captures > 0}

LEMMA BookVars ==
    ASSUME UNCHANGED <<row, books, lastNumber>>, UNCHANGED Recorded
    PROVE  UNCHANGED Book!vars
BY DEF Book!vars, Recorded

\* The row helpers are those InvoiceBook sees.
LEMMA BookHelpers ==
    /\ \A st, n, total, k : Book!NewRow(st, n, total, k) = NewRow(st, n, total, k)
    /\ \A r, n, k : Book!Issued(r, n, k) = Issued(r, n, k)
    /\ \A r, total : Book!Recalculated(r, total) = Recalculated(r, total)
    /\ \A r, amount : /\ Book!Settled(r, amount) = Settled(r, amount)
                      /\ Book!Captured(r, amount) = Captured(r, amount)
                      /\ Book!Refunded(r, amount) = Refunded(r, amount)
                      /\ Book!Credited(r, amount) = Credited(r, amount)
                      /\ Book!Lesser(r, amount) = Lesser(r, amount)
    /\ \A r : /\ Book!Payable(r) <=> Payable(r)
              /\ Book!Refundable(r) <=> Refundable(r)
              /\ Book!Creditable(r) <=> Creditable(r)
              /\ Book!Exists(r) <=> Exists(r)
              /\ \A target : Book!ValidTransition(r, target) <=> ValidTransition(r, target)
    /\ Book!BlankRow = BlankRow /\ Book!NoBooks = NoBooks
<1>1. \A a, b : Book!Lesser(a, b) = Lesser(a, b)
  BY DEF Book!Lesser, Lesser
<1>2. \A a : Book!AtLeastZero(a) = AtLeastZero(a)
  BY DEF Book!AtLeastZero, AtLeastZero
<1>3. \A r, amount : Book!Settled(r, amount) = Settled(r, amount)
  BY DEF Book!Settled, Settled
<1>4. \A r, amount : Book!Captured(r, amount) = Captured(r, amount)
  BY <1>1, <1>3 DEF Book!Captured, Captured
<1>5. \A r, amount : Book!Refunded(r, amount) = Refunded(r, amount)
  BY <1>2 DEF Book!Refunded, Refunded
<1>6. \A r, amount : Book!Credited(r, amount) = Credited(r, amount)
  BY <1>2 DEF Book!Credited, Credited
<1>7. \A r, target : Book!ValidTransition(r, target) <=> ValidTransition(r, target)
  BY DEF Book!ValidTransition, ValidTransition, Book!VALID_TRANSITIONS, VALID_TRANSITIONS,
         Book!Status, Status
<1>8. /\ \A st, n, total, k : Book!NewRow(st, n, total, k) = NewRow(st, n, total, k)
      /\ \A r, n, k : Book!Issued(r, n, k) = Issued(r, n, k)
      /\ \A r, total : Book!Recalculated(r, total) = Recalculated(r, total)
      /\ Book!BlankRow = BlankRow /\ Book!NoBooks = NoBooks
  BY DEF Book!NewRow, NewRow, Book!Issued, Issued, Book!Recalculated, Recalculated,
         Book!BlankRow, BlankRow, Book!NoBooks, NoBooks
<1>9. ASSUME NEW r
      PROVE  /\ Book!Payable(r) <=> Payable(r)
             /\ Book!Refundable(r) <=> Refundable(r)
             /\ Book!Creditable(r) <=> Creditable(r)
             /\ Book!Exists(r) <=> Exists(r)
  <2>1. Book!Payable(r) <=> Payable(r)
    BY DEF Book!Payable, Payable
  <2>2. Book!Refundable(r) <=> Refundable(r)
    BY DEF Book!Refundable, Refundable
  <2>3. Book!Creditable(r) <=> Creditable(r)
    BY DEF Book!Creditable, Creditable
  <2>4. Book!Exists(r) <=> Exists(r)
    BY DEF Book!Exists, Exists
  <2> QED BY <2>1, <2>2, <2>3, <2>4
<1> QED BY <1>1, <1>3, <1>4, <1>5, <1>6, <1>7, <1>8, <1>9, Zenon

\* Loading, locking, calling Stripe and rolling back leave no trace in the book.
LEMMA QuietIsStutter ==
    ASSUME OverlapInv,
           \/ UNCHANGED vars
           \/ \E s \in Slots, i \in Invoices : Start(s, i)
           \/ \E s \in Slots : StripeAnswers(s) \/ Flush(s) \/ LockConfirm(s) \/ Abort(s)
           \/ \E s \in Slots, k \in Intents : DeliverWebhook(s, k)
           \/ \E k \in Intents : CustomerPays(k) \/ AnswerEvent(k)
           \/ \E i \in Invoices : DueDatePasses(i) \/ DeferDueDate(i)
    PROVE  UNCHANGED <<row, books, lastNumber>> /\ UNCHANGED Recorded
<1>0. TypeOK
  BY DEF OverlapInv, IInv
<1>1. ASSUME UNCHANGED tables PROVE UNCHANGED <<row, books, lastNumber>> /\ UNCHANGED Recorded
  BY <1>1 DEF tables, Recorded
<1>2. ASSUME NEW k \in Intents, NEW c \in Intent, intent' = [intent EXCEPT ![k] = c],
             c.captures = intent[k].captures
      PROVE  UNCHANGED Recorded
  BY <1>0, <1>2 DEF Recorded, TypeOK
<1>3. ASSUME NEW k \in Intents, NEW n \in Nat, NEW st \in {"succeeded", "canceled"},
             \/ intent' = [intent EXCEPT ![k].st = st]
             \/ intent' = [intent EXCEPT ![k].sentBack = n]
             \/ intent' = [intent EXCEPT ![k].told = TRUE]
      PROVE  UNCHANGED Recorded
  <2>1. intent[k] \in Intent
    BY <1>0 DEF TypeOK
  <2>2. /\ [intent[k] EXCEPT !.st = st] \in Intent
        /\ [intent[k] EXCEPT !.st = st].captures = intent[k].captures
        /\ [intent[k] EXCEPT !.sentBack = n] \in Intent
        /\ [intent[k] EXCEPT !.sentBack = n].captures = intent[k].captures
        /\ [intent[k] EXCEPT !.told = TRUE] \in Intent
        /\ [intent[k] EXCEPT !.told = TRUE].captures = intent[k].captures
    BY <2>1 DEF Intent
  <2> QED BY <1>2, <1>3, <2>2
<1>4. ASSUME NEW s \in Slots, NEW i \in Invoices, Start(s, i) PROVE UNCHANGED tables
  BY <1>0, <1>4, StartBegins DEF Begins
<1>5. ASSUME NEW s \in Slots,
             \/ StripeConfirms(s) \/ Flush(s) \/ LockConfirm(s) \/ Abort(s)
             \/ \E k \in Intents : DeliverWebhook(s, k)
      PROVE  UNCHANGED tables
  BY <1>5 DEF StripeConfirms, Flush, LockConfirm, Abort, DeliverWebhook
<1>6. ASSUME NEW s \in Slots, NEW k \in Intents, StripeRefunds(s, k)
      PROVE  UNCHANGED <<row, books, lastNumber>> /\ UNCHANGED Recorded
  <2>1. intent[k].sentBack + req[s].amt \in Nat
    BY <1>0, RequestType DEF TypeOK, Intent
  <2> QED BY <1>3, <1>6, <2>1 DEF StripeRefunds
<1>7. ASSUME NEW s \in Slots, NEW cancelled \in BOOLEAN, CancelOldIntent(s, cancelled)
      PROVE  UNCHANGED <<row, books, lastNumber>> /\ UNCHANGED Recorded
  <2>1. req[s].snap.pi \in Intents \cup {NoIntent}
    BY <1>0, RequestType, RowColumns
  <2>2. CASE intent' = intent
    BY <1>7, <2>2 DEF CancelOldIntent, Recorded
  <2>3. CASE intent' # intent
    BY <1>3, <1>7, <2>1, <2>3 DEF CancelOldIntent
  <2> QED BY <2>2, <2>3
<1>8. ASSUME NEW k \in Intents, CustomerPays(k) \/ AnswerEvent(k)
      PROVE  UNCHANGED <<row, books, lastNumber>> /\ UNCHANGED Recorded
  BY <1>3, <1>8 DEF CustomerPays, AnswerEvent
<1>9. ASSUME NEW i \in Invoices, DueDatePasses(i) \/ DeferDueDate(i) \/ UNCHANGED vars
      PROVE  UNCHANGED <<row, books, lastNumber>> /\ UNCHANGED Recorded
  BY <1>9 DEF DueDatePasses, DeferDueDate, vars, Recorded
<1>10. CASE UNCHANGED vars
  BY <1>10 DEF vars, Recorded
<1> QED BY <1>1, <1>4, <1>5, <1>6, <1>7, <1>8, <1>9, <1>10 DEF StripeAnswers

\* A PaymentIntent that is opened is not a recorded one.
LEMMA OpenedUnrecorded ==
    ASSUME OverlapInv, NEW k \in Intents \cup {NoIntent}, NEW i \in Invoices, NEW amount,
           k # NoIntent => k \in FreshIntents, Opened(k, i, amount)
    PROVE  UNCHANGED Recorded
<1>1. TypeOK /\ IntentInv
  BY DEF OverlapInv, IInv
<1>2. \A j \in Intents : intent'[j].captures = IF j = k THEN 0 ELSE intent[j].captures
  BY <1>1, OpenedStays
<1>3. k \in Intents => intent[k].captures = 0
  BY ConstantsAssumption DEF FreshIntents, OverlapInv, RefundInv
<1> QED BY <1>2, <1>3 DEF Recorded


\* Creating and deleting an invoice.
LEMMA WholeStepIsBookStep ==
    ASSUME OverlapInv, NEW i \in Invoices, WholeStep(i)
    PROVE  Book!Next \/ UNCHANGED Book!vars
<1>0. NoIntent \in Intents \cup {NoIntent} /\ TypeOK
  BY DEF OverlapInv, IInv
<1>1. ASSUME NEW total \in Amounts, CreateDraft(i, total) PROVE Book!Create(i, total)
  BY <1>1, BookHelpers DEF CreateDraft, Book!Create, Book!Change, Recorded
<1>2. ASSUME NEW total \in Amounts, NEW k \in Intents \cup {NoIntent},
             CreateIssued(i, total, k)
      PROVE  Book!Create(i, total)
  <2>1. k # NoIntent => k \in FreshIntents
    BY <1>2 DEF CreateIssued, MaybeIntent
  <2>2. UNCHANGED Recorded
    BY <1>2, <2>1, OpenedUnrecorded DEF CreateIssued
  <2> QED BY <1>2, <2>2, BookHelpers DEF CreateIssued, NextNumber, Book!Create,
                                         Book!Change, Recorded
<1>3. CASE BulkDelete(i)
  <2>1. \A k \in Intents : intent'[k].captures \in {0, intent[k].captures}
    BY <1>0, <1>3 DEF BulkDelete, TypeOK, Intent
  <2>2. Recorded' \subseteq Recorded
    BY <2>1 DEF Recorded
  <2>3. Book!Delete(i)
    BY <1>3, <2>2, BookHelpers DEF BulkDelete, Book!Delete, Book!Change, Recorded
  <2> QED BY <2>3 DEF Book!Next
<1>4. CASE DueDatePasses(i) \/ DeferDueDate(i)
  BY <1>4, QuietIsStutter, BookVars
<1> QED BY <1>1, <1>2, <1>3, <1>4 DEF WholeStep, Book!Next

\* Issuing, editing, voiding, marking overdue and storing a payment link.
LEMMA QuietCommitIsBookStep ==
    ASSUME OverlapInv, FreshCopies, NEW s \in Slots, Finish(s),
           \/ CommitEdit(s) \/ CommitVoid(s) \/ CommitOverdue(s)
           \/ \E k \in Intents \cup {NoIntent} : CommitIssue(s, k)
           \/ \E op \in {"link", "qr_link"}, k \in Intents : CommitLink(s, op, k)
    PROVE  Book!Next
<1> DEFINE r == req[s]
           i == r.inv
           l == r.snap
<1>0. /\ i \in Invoices /\ Admitted(r) /\ l \in Row /\ r.amt \in Nat
      /\ TypeOK /\ lastNumber + 1 \in Nat
  BY Committing DEF OverlapInv, IInv, TypeOK
<1>1. ASSUME NEW op, NEW new \in Row, Commit(s, op, new)
      PROVE  r.op = op /\ l = row[i] /\ Book!Change(i, new)
  BY <1>1, CommitWhole DEF Commit, Book!Change
<1>2. ASSUME UNCHANGED intent PROVE UNCHANGED Recorded
  BY <1>2 DEF Recorded
<1>3. CASE CommitEdit(s)
  <2>1. Recalculated(l, r.amt) \in Row
    BY <1>0, RecalculatedColumns
  <2>2. r.op = "edit" /\ l = row[i] /\ Book!Change(i, Recalculated(l, r.amt))
    BY <1>1, <1>3, <2>1 DEF CommitEdit
  <2>3. Book!Edit(i, r.amt) /\ r.amt \in Amounts
    BY <1>0, <1>2, <1>3, <2>2, BookHelpers DEF CommitEdit, Admitted, Book!Edit, Recorded
  <2> QED BY <1>0, <2>3 DEF Book!Next
<1>4. CASE CommitVoid(s)
  <2>1. [l EXCEPT !.status = "voided"] \in Row
    BY <1>0, StatusTypes, StatusColumns
  <2>2. r.op = "void" /\ l = row[i] /\ Book!Change(i, [l EXCEPT !.status = "voided"])
    BY <1>1, <1>4, <2>1 DEF CommitVoid
  <2>3. Book!Void(i)
    BY <1>0, <1>2, <1>4, <2>2, BookHelpers DEF CommitVoid, Admitted, Book!Void, Recorded
  <2> QED BY <1>0, <2>3 DEF Book!Next
<1>5. CASE CommitOverdue(s)
  <2>1. [l EXCEPT !.status = "overdue"] \in Row
    BY <1>0, StatusTypes, StatusColumns
  <2>2. r.op = "overdue" /\ l = row[i] /\ Book!Change(i, [l EXCEPT !.status = "overdue"])
    BY <1>1, <1>5, <2>1 DEF CommitOverdue
  <2>3. Book!MarkOverdue(i)
    BY <1>0, <1>2, <1>5, <2>2 DEF CommitOverdue, Admitted, Book!MarkOverdue, Recorded
  <2> QED BY <1>0, <2>3 DEF Book!Next
<1>6. ASSUME NEW k \in Intents \cup {NoIntent}, CommitIssue(s, k) PROVE Book!Next
  <2>1. Issued(l, lastNumber + 1, k) \in Row
    BY <1>0, IssuedColumns
  <2>2. r.op = "issue" /\ l = row[i] /\ Book!Change(i, Issued(l, lastNumber + 1, k))
    BY <1>1, <1>6, <2>1 DEF CommitIssue, NextNumber
  <2>3. k # NoIntent => k \in FreshIntents
    BY <1>6 DEF CommitIssue, MaybeIntent
  <2>4. UNCHANGED Recorded
    BY <1>0, <1>6, <2>3, OpenedUnrecorded DEF CommitIssue
  <2>5. Book!Issue(i)
    BY <1>0, <1>6, <2>2, <2>4, BookHelpers
       DEF CommitIssue, NextNumber, Admitted, Book!Issue, Recorded
  <2> QED BY <1>0, <2>5 DEF Book!Next
<1>7. ASSUME NEW op \in {"link", "qr_link"}, NEW k \in Intents, CommitLink(s, op, k)
      PROVE  Book!Next
  <2>1. [l EXCEPT !.pi = k] \in Row
    BY <1>0, PiColumns
  <2>2. r.op = op /\ l = row[i] /\ Book!Change(i, [l EXCEPT !.pi = k])
    BY <1>1, <1>7, <2>1 DEF CommitLink
  <2>3. UNCHANGED Recorded
    BY <1>0, <1>7, OpenedUnrecorded DEF CommitLink
  <2>4. Book!StoreLink(i, k)
    BY <1>0, <1>7, <2>2, <2>3, BookHelpers DEF CommitLink, Admitted, Book!StoreLink, Recorded
  <2> QED BY <1>0, <2>4 DEF Book!Next
<1> QED BY <1>3, <1>4, <1>5, <1>6, <1>7


\* Payments, refunds and credit notes.
LEMMA MoneyCommitIsBookStep ==
    ASSUME OverlapInv, MoneyInv, FreshCopies, NEW s \in Slots, Finish(s),
           \/ CommitCash(s) \/ CommitCredit(s)
           \/ \E op \in {"webhook", "confirm"} : CommitCapture(s, op)
           \/ \E op \in {"cash_refund", "stripe_refund"} : CommitRefund(s, op)
    PROVE  Book!Next
<1> DEFINE r == req[s]
           i == r.inv
           l == r.snap
<1>0. /\ i \in Invoices /\ Admitted(r) /\ l \in Row /\ r.amt \in Nat /\ Exists(row[i])
      /\ TypeOK /\ CaptureInv /\ IntentInv /\ InFlight(s) /\ Holds(s) /\ books[i] \in Books
  BY Committing DEF OverlapInv, IInv, TypeOK
<1>1. ASSUME NEW op, NEW new \in Row, Commit(s, op, new)
      PROVE  r.op = op /\ l = row[i] /\ Book!Change(i, new)
  BY <1>1, CommitWhole DEF Commit, Book!Change
<1>2. ASSUME UNCHANGED intent PROVE UNCHANGED Recorded
  BY <1>2 DEF Recorded
<1>3. CASE CommitCash(s)
  <2>1. Settled(l, r.amt) \in Row
    BY <1>0, SettledColumns
  <2>2. r.op = "cash" /\ l = row[i] /\ Book!Change(i, Settled(l, r.amt))
    BY <1>1, <1>3, <2>1 DEF CommitCash
  <2>3. Book!PayCash(i, r.amt) /\ r.amt \in Amounts
    BY <1>0, <1>2, <1>3, <2>2, BookHelpers
       DEF CommitCash, Admitted, Book!PayCash, Book!Post, Recorded
  <2> QED BY <1>0, <2>3 DEF Book!Next
<1>4. CASE CommitCredit(s)
  <2>1. Credited(l, r.amt) \in Row
    BY <1>0, CreditedColumns
  <2>2. r.op = "credit" /\ l = row[i] /\ Book!Change(i, Credited(l, r.amt))
    BY <1>1, <1>4, <2>1 DEF CommitCredit
  <2>3. r.amt <= row[i].total - books[i].credited
    BY <1>0, <2>2 DEF MoneyInv, FreshMoney, MovesMoney, Unlocked
  <2>4. r.amt \in 1..(row[i].total - books[i].credited)
    BY <1>0, <2>2, <2>3, RowColumns DEF Admitted, Books
  <2>5. Book!Credit(i, r.amt) /\ r.amt \in Amounts
    BY <1>0, <1>2, <1>4, <2>2, <2>4, BookHelpers
       DEF CommitCredit, Admitted, Book!Credit, Book!Post, Recorded
  <2> QED BY <1>0, <2>5 DEF Book!Next
<1>5. ASSUME NEW op \in {"cash_refund", "stripe_refund"}, CommitRefund(s, op) PROVE Book!Next
  <2>1. Refunded(l, r.amt) \in Row
    BY <1>0, RefundedColumns
  <2>2. r.op = op /\ l = row[i] /\ Book!Change(i, Refunded(l, r.amt))
    BY <1>1, <1>5, <2>1 DEF CommitRefund
  <2>3. \A k \in Intents : intent'[k].captures = intent[k].captures
    BY <1>0, <1>5 DEF CommitRefund, TypeOK, Intent
  <2>4. UNCHANGED Recorded
    BY <2>3 DEF Recorded
  <2>5. Book!Refund(i, r.amt) /\ r.amt \in Amounts
    BY <1>0, <1>5, <2>2, <2>4, BookHelpers
       DEF CommitRefund, Admitted, Book!Refund, Book!Post, Recorded
  <2> QED BY <1>0, <2>5 DEF Book!Next
\* What is captured is the lesser of the intent's amount and the balance, and so
\* is an amount that an invoice may have.
<1>6. ASSUME NEW op \in {"webhook", "confirm"}, CommitCapture(s, op) PROVE Book!Next
  <2> DEFINE a == Lesser(r.amt, l.due)
  <2>1. Captured(l, r.amt) \in Row
    BY <1>0, CapturedColumns
  <2>2. r.op = op /\ l = row[i] /\ Book!Change(i, Captured(l, r.amt))
    BY <1>1, <1>6, <2>1 DEF CommitCapture
  <2>3. Captures(s) /\ a > 0 /\ r.k \in Intents /\ intent[r.k].captures = 0
    BY <1>0, <2>2 DEF Captures, CaptureInv, IntentInv
  <2>4. /\ l.due \in Int /\ l.total \in 0..MaxTotal /\ MaxTotal \in Nat
        /\ l.due = AtLeastZero(l.total - books[i].gross - books[i].credited)
        /\ books[i].gross \in Nat /\ books[i].credited \in Nat
    BY <1>0, <2>2, RowColumns, ConstantsAssumption
       DEF MoneyInv, BalancedRows, Balanced, Books, OverlapInv, RowInv, Sound, Amounts
  <2>5. a \in Amounts /\ Lesser(a, l.due) = a
    BY <1>0, <2>3, <2>4 DEF Lesser, AtLeastZero, Amounts
  <2>6. Captured(l, a) = Captured(l, r.amt)
    BY <2>5 DEF Captured
  <2>7. Recorded' = Recorded \cup {r.k} /\ r.k \notin Recorded
    <3>1. /\ intent'[r.k].captures = 1
          /\ \A k \in Intents \ {r.k} : intent'[k] = intent[k]
      BY <1>0, <1>6, <2>3 DEF CommitCapture, TypeOK, Intent
    <3> QED BY <2>3, <3>1 DEF Recorded
  <2>8. books' = [books EXCEPT ![i].gross = @ + a] /\ UNCHANGED lastNumber
    BY <1>6 DEF CommitCapture
  <2>9. Payable(l)
    BY <1>0, <2>2 DEF Admitted
  <2> HIDE DEF a
  <2>10. PICK amount \in Amounts, k \in Intents : amount = a /\ k = r.k
    BY <2>3, <2>5
  <2>11. Book!Capture(i, amount, k)
    BY <2>2, <2>3, <2>5, <2>6, <2>7, <2>8, <2>9, <2>10, BookHelpers
       DEF Book!Capture, Book!Post, Recorded
  <2> QED BY <1>0, <2>11 DEF Book!Next
<1> QED BY <1>3, <1>4, <1>5, <1>6

LEMMA NextIsBookStep ==
    ASSUME OverlapInv, MoneyInv, FreshCopies, [Next]_vars
    PROVE  [Book!Next]_Book!vars
<1>1. ASSUME NEW s \in Slots, Finish(s) PROVE Book!Next
  BY <1>1, QuietCommitIsBookStep, MoneyCommitIsBookStep DEF Finish
<1>2. ASSUME NEW i \in Invoices, WholeStep(i) PROVE [Book!Next]_Book!vars
  BY <1>2, WholeStepIsBookStep
<1>3. CASE UNCHANGED vars
  BY <1>3, QuietIsStutter, BookVars
<1>4. CASE Next
  BY <1>1, <1>2, <1>4, QuietIsStutter, BookVars DEF Next, WholeStep
<1> QED BY <1>3, <1>4


-----------------------------------------------------------------------------
(* What the indivisible steps keep true of a row and its books *)

\* A step may take row r with books b to n with c.
Lawful(r, b, n, c) ==
    /\ Agrees(n, c)
    /\ r.status = "paid" =>
          n.status \in {"paid", "refunded", "partially_refunded", "voided", "deleted"}

\* What is known of a row and its books before the step.
Known(r, b) ==
    /\ r \in Row /\ b \in Books
    /\ r.paid >= 0 /\ r.due >= 0
    /\ r.status = "none" => r = BlankRow
    /\ r.status \in {"none", "draft"} => b = NoBooks
    /\ Exists(r) => Balanced(r, b)
    /\ Agrees(r, b)

LEMMA KnownRows ==
    ASSUME OverlapInv, BalancedRows, AgreeingRows, NEW i \in Invoices
    PROVE  Known(row[i], books[i])
BY DEF OverlapInv, IInv, TypeOK, RowInv, Sound, BalancedRows, AgreeingRows, Known

LEMMA LawfulSame ==
    ASSUME NEW r, NEW b, Agrees(r, b)
    PROVE  Lawful(r, b, r, b)
BY DEF Lawful

LEMMA LawfulCreate ==
    ASSUME NEW r, NEW b, NEW n, Known(r, b), r.status = "none",
           (n.status = "draft" /\ n.number = 0) \/ n.status = "issued",
           n.due = n.total, n.total \in Nat
    PROVE  Lawful(r, b, n, b)
<1>1. r.number = 0 /\ b = NoBooks /\ b.gross = 0 /\ b.refunded = 0
  BY DEF Known, BlankRow, NoBooks
<1> QED BY <1>1 DEF Lawful, Agrees, Payable, Exists

LEMMA LawfulFromDraft ==
    ASSUME NEW r, NEW b, NEW n, Known(r, b), r.status = "draft", n.total \in Nat,
           \/ n.status = "draft" /\ n.number = r.number /\ n.due = n.total - r.paid
           \/ n.status = "issued" /\ n.due = r.due /\ n.total = r.total
    PROVE  Lawful(r, b, n, b)
<1>1. /\ r.number = 0 /\ b = NoBooks /\ b.gross = 0 /\ b.refunded = 0 /\ b.credited = 0
      /\ r.total \in Nat /\ r.due \in Int
  BY DEF Known, Agrees, NoBooks, Row
<1>2. Exists(r) /\ r.due = AtLeastZero(r.total - b.gross - b.credited)
  BY DEF Known, Balanced, Exists
<1> QED BY <1>1, <1>2 DEF Lawful, Agrees, Payable, Exists, AtLeastZero

LEMMA LawfulPayment ==
    ASSUME NEW r, NEW b, NEW n, NEW c, Known(r, b), Payable(r),
           NEW amount \in Nat, amount > 0, amount <= r.due,
           n.status = IF r.due = amount THEN "paid" ELSE "partially_paid",
           n.number = r.number, n.total = r.total,
           n.paid = r.paid + amount, n.due = r.due - amount,
           c.gross = b.gross + amount, c.refunded = b.refunded, c.credited = b.credited
    PROVE  Lawful(r, b, n, c)
<1>1. /\ r.total \in Nat /\ r.paid \in Int /\ r.due \in Int /\ r.paid >= 0
      /\ b.gross \in Nat /\ b.refunded \in Nat /\ b.credited \in Nat
      /\ b.refunded = 0 /\ Exists(r)
  BY DEF Known, Row, Books, Agrees, Payable, Exists
<1>2. r.due = AtLeastZero(r.total - b.gross - b.credited)
  BY <1>1 DEF Known, Balanced
<1>3. c.gross <= n.total /\ n.paid > 0 /\ c.refunded = 0
  BY <1>1, <1>2 DEF AtLeastZero
<1>4. /\ n.status = "paid" => n.due = 0
      /\ n.status = "partially_paid" => n.due > 0
      /\ n.status \in {"paid", "partially_paid"} /\ r.status # "voided" /\ r.status # "paid"
  BY <1>1 DEF Payable
<1> QED BY <1>3, <1>4 DEF Lawful, Agrees, Payable, Exists

\* A refund never leaves an invoice "paid": what is kept of what came in is less
\* than the total.
LEMMA LawfulRefund ==
    ASSUME NEW r, NEW b, NEW n, NEW c, Known(r, b), Refundable(r),
           NEW amount \in Nat, amount > 0, amount <= r.paid,
           n.status = IF r.paid - amount <= 0 THEN "refunded"
                      ELSE IF r.paid - amount < r.total THEN "partially_refunded"
                      ELSE "paid",
           n.number = r.number, n.total = r.total,
           n.paid = AtLeastZero(r.paid - amount), n.due = r.due,
           c.gross = b.gross, c.refunded = b.refunded + amount, c.credited = b.credited
    PROVE  Lawful(r, b, n, c)
<1>1. /\ r.total \in Nat /\ r.paid \in Int
      /\ b.gross \in Nat /\ b.refunded \in Nat
      /\ Exists(r) /\ b.gross <= r.total /\ r.status # "voided"
  BY DEF Known, Row, Books, Agrees, Refundable, Exists
<1>2. r.paid = b.gross - b.refunded
  BY <1>1 DEF Known, Balanced
<1>3. /\ n.status \in {"refunded", "partially_refunded"} /\ c.refunded > 0
      /\ n.status = "refunded" => n.paid = 0
      /\ n.status = "partially_refunded" => n.paid > 0
  BY <1>1, <1>2 DEF AtLeastZero
<1> QED BY <1>1, <1>3 DEF Lawful, Agrees, Payable, Exists

LEMMA LawfulCredit ==
    ASSUME NEW r, NEW b, NEW n, NEW c, Known(r, b), Creditable(r), NEW amount \in Nat,
           n.status = IF AtLeastZero(r.due - amount) = 0 THEN "paid"
                      ELSE IF r.paid > 0 THEN "partially_paid" ELSE r.status,
           n.number = r.number, n.total = r.total,
           n.paid = r.paid, n.due = AtLeastZero(r.due - amount),
           c.gross = b.gross, c.refunded = b.refunded, c.credited = b.credited + amount
    PROVE  Lawful(r, b, n, c)
<1>1. /\ r.paid \in Int /\ r.due \in Int /\ r.paid >= 0
      /\ Exists(r) /\ b.gross <= r.total
  BY DEF Known, Row, Agrees, Creditable, Exists
<1>2. /\ b.refunded = 0
      /\ r.status = "paid" => r.due = 0
      /\ r.status = "issued" => b.gross = 0
      /\ r.status = "partially_paid" => r.paid > 0
      /\ r.status \in {"issued", "partially_paid", "paid", "overdue"}
  BY DEF Known, Agrees, Creditable, Payable
<1>3. n.due \in Nat /\ (r.status = "paid" => n.due = 0 /\ n.status = "paid")
  BY <1>1, <1>2 DEF AtLeastZero
<1>4. /\ n.status \in {"issued", "partially_paid", "paid", "overdue"}
      /\ n.status = "issued" => b.gross = 0
      /\ n.status = "paid" => n.due = 0
      /\ n.status = "partially_paid" => n.paid > 0
      /\ n.status # "paid" => n.due > 0
  <2>1. n.status = IF n.due = 0 THEN "paid"
                   ELSE IF r.paid > 0 THEN "partially_paid" ELSE r.status
    OBVIOUS
  <2>2. CASE n.due = 0
    BY <2>1, <2>2
  <2>3. CASE n.due # 0 /\ r.paid > 0
    BY <1>3, <2>1, <2>3
  <2>4. CASE n.due # 0 /\ ~(r.paid > 0)
    BY <1>2, <1>3, <2>1, <2>4
  <2> QED BY <2>2, <2>3, <2>4
<1> QED BY <1>1, <1>2, <1>3, <1>4 DEF Lawful, Agrees, Payable, Exists

\* Voiding, marking overdue, storing a link: the amounts stay.
LEMMA LawfulStatus ==
    ASSUME NEW r, NEW b, NEW n, Known(r, b), Exists(r),
           n.number = r.number, n.total = r.total, n.paid = r.paid, n.due = r.due,
           \/ n.status = "voided"
           \/ n.status = "overdue" /\ r.status \in {"issued", "partially_paid"} /\ r.due > 0
           \/ n.status = r.status
    PROVE  Lawful(r, b, n, b)
BY DEF Known, Lawful, Agrees, Payable, Exists

LEMMA LawfulDelete ==
    ASSUME NEW r, NEW b, NEW n, NEW c, n.status = "deleted", n.number = r.number
    PROVE  Lawful(r, b, n, c)
BY DEF Lawful, Agrees, Payable, Exists


\* Every step of InvoiceBook does so to its invoice, and leaves the others alone.
LEMMA BookStepLawful ==
    ASSUME OverlapInv, BalancedRows, AgreeingRows, Book!Next, NEW j \in Invoices
    PROVE  Lawful(row[j], books[j], row'[j], books'[j])
<1> DEFINE Good(i) == /\ row'[i] = row[i] /\ books'[i] = books[i]
                      \/ Lawful(row[i], books[i], row'[i], books'[i])
           SameColumns(i, n) == /\ n.number = row[i].number /\ n.total = row[i].total
                                /\ n.paid = row[i].paid /\ n.due = row[i].due
           BooksMoved(i, g, f, c) ==
               /\ books'[i].gross = books[i].gross + g
               /\ books'[i].refunded = books[i].refunded + f
               /\ books'[i].credited = books[i].credited + c
               /\ \A m \in Invoices \ {i} : books'[m] = books[m]
<1>0. /\ TypeOK /\ NoIntent \in Intents \cup {NoIntent} /\ lastNumber + 1 \in Nat
      /\ Amounts \subseteq Nat
  BY ConstantsAssumption DEF OverlapInv, IInv, TypeOK, Amounts
<1>1. SUFFICES Good(j)
  BY KnownRows, LawfulSame DEF Known
\* It is enough to look at the invoice of the step.
<1>2. ASSUME NEW i \in Invoices, NEW n, Book!Change(i, n),
             Lawful(row[i], books[i], n, books'[i]),
             \A m \in Invoices \ {i} : books'[m] = books[m]
      PROVE  Good(j)
  BY <1>0, <1>2 DEF TypeOK, Book!Change
<1> HIDE DEF Good
<1>3. ASSUME NEW i \in Invoices
      PROVE  Known(row[i], books[i]) /\ row[i] \in Row /\ books[i] \in Books
  BY KnownRows DEF Known
<1>4. ASSUME NEW i \in Invoices, NEW total \in Amounts, Book!Create(i, total) PROVE Good(j)
  <2>1. ASSUME NEW n, NEW st, NEW number, NEW k, n = NewRow(st, number, total, k),
               (st = "draft" /\ number = 0) \/ st = "issued", Book!Change(i, n)
        PROVE  Good(j)
    <3>1. n.status = st /\ n.number = number /\ n.due = n.total /\ n.total \in Nat
      BY <1>0, <2>1 DEF NewRow
    <3>2. Lawful(row[i], books[i], n, books[i])
      BY <1>3, <1>4, <2>1, <3>1, LawfulCreate DEF Book!Create
    <3> QED BY <1>2, <1>4, <2>1, <3>2 DEF Book!Create
  <2> QED BY <1>4, <2>1, BookHelpers DEF Book!Create
<1>5. ASSUME NEW i \in Invoices, Book!Issue(i) PROVE Good(j)
  <2>0. PICK k \in Intents \cup {NoIntent} :
          Book!Change(i, Issued(row[i], lastNumber + 1, k))
    BY <1>5, BookHelpers DEF Book!Issue
  <2>1. PICK n : n = Issued(row[i], lastNumber + 1, k) /\ Book!Change(i, n)
    BY <2>0 DEF Book!Change
  <2>2. n.status = "issued" /\ n.due = row[i].due /\ n.total = row[i].total
        /\ row[i].total \in Nat
    BY <1>0, <1>3, <2>1, IssuedColumns, RowColumns
  <2>3. UNCHANGED books /\ row[i].status = "draft"
    BY <1>5 DEF Book!Issue
  <2>4. Lawful(row[i], books[i], n, books[i])
    BY <1>3, <2>2, <2>3, LawfulFromDraft
  <2> QED BY <1>2, <2>1, <2>3, <2>4
<1>6. ASSUME NEW i \in Invoices, NEW total \in Amounts, Book!Edit(i, total) PROVE Good(j)
  <2>1. PICK n : n = Recalculated(row[i], total)
    OBVIOUS
  <2>2. n.status = row[i].status /\ n.number = row[i].number /\ n.total = total
        /\ n.due = total - row[i].paid
    BY <1>0, <1>3, <2>1, RecalculatedColumns
  <2>3. Book!Change(i, n) /\ UNCHANGED books /\ row[i].status = "draft"
    BY <1>6, <2>1, BookHelpers DEF Book!Edit, Book!Change
  <2>4. Lawful(row[i], books[i], n, books[i])
    BY <1>0, <1>3, <2>2, <2>3, LawfulFromDraft
  <2> QED BY <1>2, <2>3, <2>4
\* What a posting leaves in the books of its invoice, and in the others.
<1>7. ASSUME NEW i \in Invoices, NEW a \in Nat
      PROVE  /\ Book!Post(i, "gross", a) => BooksMoved(i, a, 0, 0)
             /\ Book!Post(i, "refunded", a) => BooksMoved(i, 0, a, 0)
             /\ Book!Post(i, "credited", a) => BooksMoved(i, 0, 0, a)
  BY <1>0, <1>7, PostedColumns DEF Book!Post, TypeOK, Books
<1>8. ASSUME NEW i \in Invoices, NEW a \in Nat, a > 0, a <= row[i].due, Payable(row[i]),
             NEW n, n.status = IF row[i].due = a THEN "paid" ELSE "partially_paid",
             n.number = row[i].number, n.total = row[i].total,
             n.paid = row[i].paid + a, n.due = row[i].due - a,
             Book!Change(i, n), Book!Post(i, "gross", a)
      PROVE  Good(j)
  <2>1. BooksMoved(i, a, 0, 0)
    BY <1>7, <1>8
  <2>2. books[i].refunded \in Nat /\ books[i].credited \in Nat
    BY <1>3, <1>8 DEF Books
  <2>3. Lawful(row[i], books[i], n, books'[i])
    BY <1>3, <1>8, <2>1, <2>2, LawfulPayment
  <2> QED BY <1>2, <1>8, <2>1, <2>3
<1>9. ASSUME NEW i \in Invoices, NEW amount \in Amounts, Book!PayCash(i, amount) PROVE Good(j)
  <2>1. PICK n : n = Settled(row[i], amount)
    OBVIOUS
  <2>2. /\ Book!Change(i, n) /\ Book!Post(i, "gross", amount) /\ Payable(row[i])
        /\ amount \in 1..row[i].due
    BY <1>9, <2>1, BookHelpers DEF Book!PayCash
  <2>3. amount \in Nat /\ amount \in Int /\ row[i].due \in Int
    BY <1>0, <1>3, <1>9, RowColumns
  <2>4. /\ n.status = IF row[i].due = amount THEN "paid" ELSE "partially_paid"
        /\ n.number = row[i].number /\ n.total = row[i].total
        /\ n.paid = row[i].paid + amount /\ n.due = row[i].due - amount
    BY <1>3, <2>1, <2>3, SettledColumns
  <2>5. amount > 0 /\ amount <= row[i].due
    BY <2>2, <2>3
  <2> QED BY <1>8, <2>2, <2>3, <2>4, <2>5
<1>10. ASSUME NEW i \in Invoices, NEW amount \in Amounts, NEW k \in Intents,
              Book!Capture(i, amount, k)
       PROVE  Good(j)
  <2>1. PICK n, a : n = Captured(row[i], amount) /\ a = Lesser(amount, row[i].due)
    OBVIOUS
  <2>2. Book!Change(i, n) /\ Book!Post(i, "gross", a) /\ Payable(row[i]) /\ a > 0
    BY <1>10, <2>1, BookHelpers DEF Book!Capture
  <2>3. amount \in Nat /\ row[i].due \in Int
    BY <1>0, <1>3, <1>10, RowColumns
  <2>4. a \in Nat /\ a <= row[i].due
    BY <2>1, <2>2, <2>3 DEF Lesser
  <2>5. /\ n.status = IF row[i].due = a THEN "paid" ELSE "partially_paid"
        /\ n.number = row[i].number /\ n.total = row[i].total
        /\ n.paid = row[i].paid + a /\ n.due = row[i].due - a
    BY <1>3, <2>1, <2>3, CapturedColumns
  <2> QED BY <1>8, <2>2, <2>4, <2>5
<1>11. ASSUME NEW i \in Invoices, NEW amount \in Amounts, Book!Refund(i, amount) PROVE Good(j)
  <2>1. PICK n : n = Refunded(row[i], amount)
    OBVIOUS
  <2>2. /\ Book!Change(i, n) /\ Book!Post(i, "refunded", amount) /\ Refundable(row[i])
        /\ amount \in 1..row[i].paid
    BY <1>11, <2>1, BookHelpers DEF Book!Refund
  <2>3. /\ amount \in Nat /\ row[i].paid \in Int
        /\ books[i].gross \in Nat /\ books[i].credited \in Nat
    BY <1>0, <1>3, <1>11, RowColumns DEF Books
  <2>4. /\ n.status = IF row[i].paid - amount <= 0 THEN "refunded"
                      ELSE IF row[i].paid - amount < row[i].total THEN "partially_refunded"
                      ELSE "paid"
        /\ n.number = row[i].number /\ n.total = row[i].total
        /\ n.paid = AtLeastZero(row[i].paid - amount) /\ n.due = row[i].due
    BY <1>3, <2>1, <2>3, RefundedColumns
  <2>5. amount > 0 /\ amount <= row[i].paid
    BY <2>2, <2>3
  <2>6. BooksMoved(i, 0, amount, 0)
    BY <1>7, <2>2, <2>3
  <2>7. Lawful(row[i], books[i], n, books'[i])
    BY <1>3, <2>2, <2>3, <2>4, <2>5, <2>6, LawfulRefund
  <2> QED BY <1>2, <2>2, <2>6, <2>7
<1>12. ASSUME NEW i \in Invoices, NEW amount \in Amounts, Book!Credit(i, amount) PROVE Good(j)
  <2>1. PICK n : n = Credited(row[i], amount)
    OBVIOUS
  <2>2. Book!Change(i, n) /\ Book!Post(i, "credited", amount) /\ Creditable(row[i])
    BY <1>12, <2>1, BookHelpers DEF Book!Credit
  <2>3. /\ amount \in Nat
        /\ books[i].gross \in Nat /\ books[i].refunded \in Nat
    BY <1>0, <1>3, <1>12 DEF Books
  <2>4. /\ n.status = IF AtLeastZero(row[i].due - amount) = 0 THEN "paid"
                      ELSE IF row[i].paid > 0 THEN "partially_paid" ELSE row[i].status
        /\ n.number = row[i].number /\ n.total = row[i].total
        /\ n.paid = row[i].paid /\ n.due = AtLeastZero(row[i].due - amount)
    BY <1>3, <2>1, <2>3, CreditedColumns
  <2>5. BooksMoved(i, 0, 0, amount)
    BY <1>7, <2>2, <2>3
  <2>6. Lawful(row[i], books[i], n, books'[i])
    BY <1>3, <2>2, <2>3, <2>4, <2>5, LawfulCredit
  <2> QED BY <1>2, <2>2, <2>5, <2>6
<1>13. ASSUME NEW i \in Invoices, NEW n, Book!Change(i, n), UNCHANGED books, Exists(row[i]),
              SameColumns(i, n),
              \/ n.status = "voided" \/ n.status = row[i].status
              \/ /\ n.status = "overdue" /\ row[i].status \in {"issued", "partially_paid"}
                 /\ row[i].due > 0
       PROVE  Good(j)
  <2>1. Lawful(row[i], books[i], n, books[i])
    BY <1>3, <1>13, LawfulStatus
  <2> QED BY <1>2, <1>13, <2>1
<1>14. ASSUME NEW i \in Invoices, Book!Void(i) PROVE Good(j)
  <2>1. PICK n : n = [row[i] EXCEPT !.status = "voided"]
    OBVIOUS
  <2>2. Book!Change(i, n) /\ UNCHANGED books /\ ValidTransition(row[i], "voided")
    BY <1>14, <2>1, BookHelpers DEF Book!Void
  <2>3. Exists(row[i])
    BY <2>2 DEF ValidTransition, Status, Exists
  <2>4. n.status = "voided" /\ SameColumns(i, n)
    BY <1>3, <2>1, StatusTypes, StatusColumns
  <2> QED BY <1>13, <2>2, <2>3, <2>4
<1>15. ASSUME NEW i \in Invoices, Book!MarkOverdue(i) PROVE Good(j)
  <2>1. PICK n : n = [row[i] EXCEPT !.status = "overdue"]
    OBVIOUS
  <2>2. /\ Book!Change(i, n) /\ UNCHANGED books
        /\ row[i].status \in {"issued", "partially_paid"} /\ row[i].due > 0 /\ Exists(row[i])
    BY <1>15, <2>1 DEF Book!MarkOverdue, Exists
  <2>3. n.status = "overdue" /\ SameColumns(i, n)
    BY <1>3, <2>1, StatusTypes, StatusColumns
  <2> QED BY <1>13, <2>2, <2>3
<1>16. ASSUME NEW i \in Invoices, NEW k \in Intents, Book!StoreLink(i, k) PROVE Good(j)
  <2>1. PICK n : n = [row[i] EXCEPT !.pi = k]
    OBVIOUS
  <2>2. Book!Change(i, n) /\ UNCHANGED books /\ Exists(row[i])
    BY <1>16, <2>1, BookHelpers DEF Book!StoreLink, Payable, Exists
  <2>3. k \in Intents \cup {NoIntent}
    BY <1>16
  <2>4. n.status = row[i].status /\ SameColumns(i, n)
    BY <1>3, <2>1, <2>3, PiColumns
  <2> QED BY <1>13, <2>2, <2>4
<1>17. ASSUME NEW i \in Invoices, Book!Delete(i) PROVE Good(j)
  <2>1. PICK n : n = [BlankRow EXCEPT !.status = "deleted", !.number = row[i].number]
    OBVIOUS
  <2>2. n.status = "deleted" /\ n.number = row[i].number
    BY <2>1 DEF BlankRow
  <2>3. Book!Change(i, n) /\ \A m \in Invoices \ {i} : books'[m] = books[m]
    BY <1>0, <1>17, <2>1, BookHelpers DEF Book!Delete, TypeOK
  <2> QED BY <1>2, <2>2, <2>3, LawfulDelete
<1> QED BY <1>1, <1>4, <1>5, <1>6, <1>9, <1>10, <1>11, <1>12, <1>14, <1>15, <1>16, <1>17
        DEF Book!Next


-----------------------------------------------------------------------------
(* Theorems about behaviours with one request at a time on an invoice *)

\* A step of the system is lawful for every invoice.
LEMMA StepLawful ==
    ASSUME OverlapInv, AtomicInv, [Next]_vars, NEW i \in Invoices
    PROVE  Lawful(row[i], books[i], row'[i], books'[i])
<1>1. BalancedRows /\ AgreeingRows
  BY DEF AtomicInv, MoneyInv
<1>2. [Book!Next]_Book!vars
  BY NextIsBookStep DEF AtomicInv
<1>3. CASE UNCHANGED Book!vars
  <2>1. row' = row /\ books' = books
    BY <1>3 DEF Book!vars
  <2> QED BY <1>1, <2>1, LawfulSame DEF AgreeingRows
<1> QED BY <1>1, <1>2, <1>3, BookStepLawful

LEMMA AtomicInit == Init => AtomicInv
<1> SUFFICES ASSUME Init PROVE AtomicInv
  OBVIOUS
<1>1. FreshCopies
  BY DEF Init, FreshCopies, InFlight, Idle
<1>2. AgreeingRows
  BY DEF Init, AgreeingRows, Agrees, BlankRow, Payable, Exists
<1> QED BY <1>1, <1>2, MoneyInit DEF AtomicInv

LEMMA AtomicStep == OverlapInv /\ OneAtATime /\ AtomicInv /\ [Next]_vars => AtomicInv'
<1> SUFFICES ASSUME OverlapInv, OneAtATime, AtomicInv, [Next]_vars PROVE AtomicInv'
  OBVIOUS
<1>1. MoneyInv'
  BY AtomicAlone, MoneyStep DEF AtomicInv
<1>2. FreshCopies'
  BY FreshCopiesKept DEF AtomicInv
<1>3. AgreeingRows'
  BY StepLawful DEF AgreeingRows, Lawful
<1> QED BY <1>1, <1>2, <1>3 DEF AtomicInv

LEMMA AtomicInvariantHolds == Spec /\ []OneAtATime => []AtomicInv
BY OverlapInvariantHolds, AtomicInit, AtomicStep, PTL DEF Spec

\* While no invoice has two requests in flight, the status of every invoice tells
\* the truth about its payments, refunds and credit notes.
THEOREM StatusTellsTheTruth == Spec /\ []OneAtATime => []StatusAgreesWithBooks
<1>1. AtomicInv => StatusAgreesWithBooks
  BY DEF AtomicInv, AgreeingRows, Agrees, StatusAgreesWithBooks
<1> QED BY <1>1, AtomicInvariantHolds, PTL

\* Then, too, only a refund, a void or a deletion takes an invoice out of "paid".
THEOREM PaidLeavesByMoneyOut == Spec /\ []OneAtATime => PaidLeavesOnlyByMoneyOut
<1>1. OverlapInv /\ AtomicInv /\ [Next]_vars =>
        [\A i \in Invoices : row[i].status = "paid" =>
            row'[i].status \in {"paid", "refunded", "partially_refunded", "voided",
                                "deleted"}]_vars
  BY StepLawful DEF Lawful
<1> QED BY <1>1, OverlapInvariantHolds, AtomicInvariantHolds, PTL
        DEF Spec, PaidLeavesOnlyByMoneyOut

\* InvoiceService implements InvoiceBook: with one request at a time on an invoice,
\* loading, calling Stripe, locking, committing and rolling back amount to the one
\* indivisible step the handler promises.
THEOREM ServiceImplementsBook == Spec /\ []OneAtATime => HandlersLookAtomic
<1>1. Init => Book!Init
  BY BookHelpers DEF Init, Book!Init, NoIntentYet
<1>2. OverlapInv /\ AtomicInv /\ [Next]_vars => [Book!Next]_Book!vars
  BY NextIsBookStep DEF AtomicInv
<1> QED BY <1>1, <1>2, OverlapInvariantHolds, AtomicInvariantHolds, PTL
        DEF Spec, HandlersLookAtomic, Book!Spec
=============================================================================
