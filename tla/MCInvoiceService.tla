-------------------------- MODULE MCInvoiceService --------------------------
(* Small instances of InvoiceService for TLC. *)
EXTENDS InvoiceService, TLC

CONSTANTS i1, i2, k1, k2, s1, s2

SymIntents == Permutations({k1, k2})
SymSlots   == Permutations({s1, s2})
SymAll     == Permutations({i1, i2}) \cup SymIntents \cup SymSlots

EveryOp   == AllOps
MoneyOps  == AllOps \ {"delete", "defer", "edit"}
StripeOps == {"create", "issue", "link", "webhook", "delete"}
LiveOps   == {"create", "qr_link", "webhook", "cash", "credit", "overdue", "defer"}

VoidRaceOps    == {"create", "cash", "void"}
CreditRaceOps  == {"create", "credit"}
IssueRaceOps   == {"create", "issue"}
ConfirmRaceOps == {"create", "link", "webhook", "confirm"}
=============================================================================
