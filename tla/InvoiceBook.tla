----------------------------- MODULE InvoiceBook ----------------------------
(***************************************************************************)
(* What the invoice handlers promise: each of them is one indivisible step *)
(* on the committed row.  Nothing here loads, locks, calls Stripe or is    *)
(* rolled back; a handler is admitted by the row it changes.               *)
(***************************************************************************)
EXTENDS InvoiceRow

CONSTANTS Invoices, Amounts

VARIABLES row, books, lastNumber, captured   \* captured: intents already recorded

vars == <<row, books, lastNumber, captured>>

NoBooks == [gross |-> 0, refunded |-> 0, credited |-> 0]

Init ==
    /\ row = [i \in Invoices |-> BlankRow]
    /\ books = [i \in Invoices |-> NoBooks]
    /\ lastNumber = 0
    /\ captured = {}

Change(i, new) == row' = [row EXCEPT ![i] = new]
Post(i, column, amount) == books' = [books EXCEPT ![i][column] = @ + amount]

Create(i, total) ==
    /\ row[i].status = "none"
    /\ \/ /\ Change(i, NewRow("draft", 0, total, NoIntent))
          /\ UNCHANGED lastNumber
       \/ /\ \E k \in Intents \cup {NoIntent} :
                Change(i, NewRow("issued", lastNumber + 1, total, k))
          /\ lastNumber' = lastNumber + 1
    /\ UNCHANGED <<books, captured>>

Issue(i) ==
    /\ row[i].status = "draft"
    /\ \E k \in Intents \cup {NoIntent} : Change(i, Issued(row[i], lastNumber + 1, k))
    /\ lastNumber' = lastNumber + 1
    /\ UNCHANGED <<books, captured>>

Edit(i, total) ==
    /\ row[i].status = "draft"
    /\ Change(i, Recalculated(row[i], total))
    /\ UNCHANGED <<books, lastNumber, captured>>

PayCash(i, amount) ==
    /\ Payable(row[i])
    /\ amount \in 1..row[i].due
    /\ Change(i, Settled(row[i], amount))
    /\ Post(i, "gross", amount)
    /\ UNCHANGED <<lastNumber, captured>>

Capture(i, amount, k) ==
    /\ Payable(row[i])
    /\ k \notin captured
    /\ Lesser(amount, row[i].due) > 0
    /\ Change(i, Captured(row[i], amount))
    /\ Post(i, "gross", Lesser(amount, row[i].due))
    /\ captured' = captured \cup {k}
    /\ UNCHANGED lastNumber

Refund(i, amount) ==
    /\ Refundable(row[i])
    /\ amount \in 1..row[i].paid
    /\ Change(i, Refunded(row[i], amount))
    /\ Post(i, "refunded", amount)
    /\ UNCHANGED <<lastNumber, captured>>

Credit(i, amount) ==
    /\ Creditable(row[i])
    /\ amount \in 1..(row[i].total - books[i].credited)
    /\ Change(i, Credited(row[i], amount))
    /\ Post(i, "credited", amount)
    /\ UNCHANGED <<lastNumber, captured>>

Void(i) ==
    /\ ValidTransition(row[i], "voided")
    /\ Change(i, [row[i] EXCEPT !.status = "voided"])
    /\ UNCHANGED <<books, lastNumber, captured>>

MarkOverdue(i) ==
    /\ row[i].status \in {"issued", "partially_paid"}
    /\ row[i].due > 0
    /\ Change(i, [row[i] EXCEPT !.status = "overdue"])
    /\ UNCHANGED <<books, lastNumber, captured>>

StoreLink(i, k) ==
    /\ Payable(row[i])
    /\ row[i].due > 0
    /\ Change(i, [row[i] EXCEPT !.pi = k])
    /\ UNCHANGED <<books, lastNumber, captured>>

\* The payments that recorded an invoice's intents go with the invoice.
Delete(i) ==
    /\ Exists(row[i])
    /\ Change(i, [BlankRow EXCEPT !.status = "deleted", !.number = row[i].number])
    /\ books' = [books EXCEPT ![i] = NoBooks]
    /\ captured' \subseteq captured
    /\ UNCHANGED lastNumber

Next ==
    \E i \in Invoices :
        \/ Issue(i) \/ Void(i) \/ MarkOverdue(i) \/ Delete(i)
        \/ \E k \in Intents : StoreLink(i, k)
        \/ \E amount \in Amounts :
            \/ Create(i, amount) \/ Edit(i, amount) \/ PayCash(i, amount)
            \/ Refund(i, amount) \/ Credit(i, amount)
            \/ \E k \in Intents : Capture(i, amount, k)

Spec == Init /\ [][Next]_vars
=============================================================================
