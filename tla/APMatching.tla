------------------------------ MODULE APMatching ------------------------------
(***************************************************************************)
(* match_invoice (src/app/matching.py): the two- and three-way match of an *)
(* invoice against its purchase order, as the set of the codes of its      *)
(* variances.                                                              *)
(*                                                                         *)
(* Money is counted in tenths of a cent, so that what _money rounds away   *)
(* is visible; quantities are whole.  Percentages are compared exactly.    *)
(* The first checks of match_invoice, against the supported ranges, are    *)
(* left out: extraction.py refuses such an invoice already.                *)
(***************************************************************************)
EXTENDS Integers, Sequences, Functions

CONSTANT Policy  \* the tolerances and limits of Settings, in percent

ASSUME PolicyIsNat ==
    Policy \in [price : Nat, quantity : Nat, total : Nat, tax : Nat,
                freight : Nat, discount : Nat]

\* An invoice or PO line; poLine 0: the invoice names no line.
InvoiceLine == [poLine : Nat, quantity : Nat, unitPrice : Nat, amount : Nat]
POLine == [number : Nat, quantity : Nat, unitPrice : Nat, received : Nat]
Invoice == [vendor : STRING, currency : STRING, lines : Seq(InvoiceLine),
            subtotal : SUBSET Nat, tax : Nat, freight : Nat, discount : Nat, total : Nat]
PurchaseOrder == [vendor : STRING, currency : STRING, lines : SUBSET POLine]

Abs(n) == IF n < 0 THEN -n ELSE n

SumOf(f) == FoldFunction(+, 0, f)

\* quantize to cents, half to even.
Money(n) ==
    LET cents == n \div 10
        rest == n % 10
    IN  IF rest > 5 \/ (rest = 5 /\ cents % 2 = 1) THEN cents + 1 ELSE cents

\* _pct(actual, expected) > limit.
Differs(actual, expected, limit) ==
    IF expected = 0 THEN actual # 0 /\ 100 > limit
    ELSE 100 * Abs(actual - expected) > limit * Abs(expected)

\* amount > 0 and _ratio_pct(amount, base) > limit.
OverShare(amount, base, limit) ==
    amount > 0 /\ IF base = 0 THEN 100 > limit ELSE 100 * amount > limit * Abs(base)

LineTotal(invoice) == SumOf([n \in DOMAIN invoice.lines |-> invoice.lines[n].amount])

\* invoice.subtotal is optional: a set of at most one amount.
DeclaredSubtotal(invoice) ==
    IF invoice.subtotal = {} THEN LineTotal(invoice)
    ELSE CHOOSE amount \in invoice.subtotal : TRUE

LinesDoNotAddUp(invoice) ==
    \E n \in DOMAIN invoice.lines :
        LET line == invoice.lines[n] IN
        Money(line.amount) # Money(line.quantity * line.unitPrice)

\* The invoice against itself.
ArithmeticVariances(invoice) ==
    LET subtotal == DeclaredSubtotal(invoice)
        calculated == subtotal + invoice.tax + invoice.freight - invoice.discount
    IN  {code \in {"LINE_DETAIL_MISSING", "LINE_AMOUNT_MISMATCH", "SUBTOTAL_MISMATCH",
                   "INVOICE_TOTAL_MISMATCH", "TAX_VARIANCE", "FREIGHT_VARIANCE",
                   "DISCOUNT_VARIANCE"} :
            \/ code = "LINE_DETAIL_MISSING" /\ invoice.lines = <<>>
            \/ code = "LINE_AMOUNT_MISMATCH" /\ LinesDoNotAddUp(invoice)
            \/ code = "SUBTOTAL_MISMATCH" /\ Money(LineTotal(invoice)) # Money(subtotal)
            \/ /\ code = "INVOICE_TOTAL_MISMATCH"
               /\ invoice.lines # <<>> \/ invoice.subtotal # {}
               /\ Money(invoice.total) # Money(calculated)
            \/ code = "TAX_VARIANCE" /\ OverShare(invoice.tax, subtotal, Policy.tax)
            \/ code = "FREIGHT_VARIANCE" /\ OverShare(invoice.freight, subtotal, Policy.freight)
            \/ code = "DISCOUNT_VARIANCE" /\ OverShare(invoice.discount, subtotal, Policy.discount)}

\* Mutant: lines are matched by their place.
LineNumberByPlace(invoice, n) == n

\* line.po_line or index
LineNumber(invoice, n) ==
    IF invoice.lines[n].poLine = 0 THEN n ELSE invoice.lines[n].poLine

\* The PO line an invoice line maps to, as a set.
POLineOf(invoice, po, n) == {line \in po.lines : line.number = LineNumber(invoice, n)}

ExpectedGoods(invoice, po) ==
    SumOf([n \in DOMAIN invoice.lines |->
             SumOf([line \in POLineOf(invoice, po, n) |->
                      invoice.lines[n].quantity * line.unitPrice])])

\* Mutant: the quantity is compared with the order in a three-way match only.
LineVariancesByReceipt(line, poLine, receipt) ==
    {code \in {"PRICE_VARIANCE", "QUANTITY_VARIANCE", "RECEIPT_SHORTFALL"} :
        \/ code = "PRICE_VARIANCE" /\ Differs(line.unitPrice, poLine.unitPrice, Policy.price)
        \/ /\ code = "QUANTITY_VARIANCE" /\ receipt
           /\ line.quantity > poLine.quantity
           /\ Differs(line.quantity, poLine.quantity, Policy.quantity)
        \/ code = "RECEIPT_SHORTFALL" /\ receipt /\ line.quantity > poLine.received}

\* One invoice line against its PO line.
LineVariances(line, poLine, receipt) ==
    {code \in {"PRICE_VARIANCE", "QUANTITY_VARIANCE", "RECEIPT_SHORTFALL"} :
        \/ code = "PRICE_VARIANCE" /\ Differs(line.unitPrice, poLine.unitPrice, Policy.price)
        \/ /\ code = "QUANTITY_VARIANCE"
           /\ line.quantity > poLine.quantity
           /\ Differs(line.quantity, poLine.quantity, Policy.quantity)
        \/ code = "RECEIPT_SHORTFALL" /\ receipt /\ line.quantity > poLine.received}

\* The invoice against the purchase order.
OrderVariances(invoice, po, receipt) ==
    {code \in {"VENDOR_MISMATCH", "CURRENCY_MISMATCH", "MISSING_PO_LINE", "TOTAL_VARIANCE"} :
        \/ code = "VENDOR_MISMATCH" /\ invoice.vendor # po.vendor
        \/ code = "CURRENCY_MISMATCH" /\ invoice.currency # po.currency
        \/ /\ code = "MISSING_PO_LINE"
           /\ \E n \in DOMAIN invoice.lines : POLineOf(invoice, po, n) = {}
        \/ /\ code = "TOTAL_VARIANCE"
           /\ invoice.lines # <<>>
           /\ Differs(DeclaredSubtotal(invoice), ExpectedGoods(invoice, po), Policy.total)}
    \cup UNION {UNION {LineVariances(invoice.lines[n], line, receipt) :
                         line \in POLineOf(invoice, po, n)} :
                  n \in DOMAIN invoice.lines}

\* match_invoice: pos holds the purchase order the ERP found, if any.
Variances(invoice, pos, receipt, duplicate) ==
    ArithmeticVariances(invoice)
    \cup (IF duplicate THEN {"DUPLICATE_INVOICE"} ELSE {})
    \cup (IF pos = {} THEN {"MISSING_PO"}
          ELSE UNION {OrderVariances(invoice, po, receipt) : po \in pos})
=============================================================================
