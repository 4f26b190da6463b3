------------------------------ MODULE MCMatchRun ------------------------------
(***************************************************************************)
(* A small instance of MatchRun for TLC.                                   *)
(***************************************************************************)
EXTENDS MatchRun

CONSTANTS p1, p2, p3, none

ThreePolicies == <<p1, p2, p3>>

SomeCitations == {{}, {p1, none}, {p1, p2, p3}}

Tolerances ==
    [price |-> 10, quantity |-> 50, total |-> 5, tax |-> 25, freight |-> 10, discount |-> 30]

AllSettings == [autoPost : BOOLEAN, requireApproval : BOOLEAN]

\* Line 1 is received in full, line 2 not at all, line 3 in part.
Order ==
    [vendor |-> "v1", currency |-> "USD",
     lines |-> {[number |-> 1, quantity |-> 2, unitPrice |-> 100, received |-> 2],
                [number |-> 2, quantity |-> 1, unitPrice |-> 55, received |-> 0],
                [number |-> 3, quantity |-> 4, unitPrice |-> 20, received |-> 3]}]

Item(poLine, quantity, unitPrice, amount) ==
    [poLine |-> poLine, quantity |-> quantity, unitPrice |-> unitPrice, amount |-> amount]

\* Exact, partial, above the order, above tolerance, rounded, unnamed, unknown.
Lines ==
    {Item(1, 2, 100, 200), Item(1, 1, 100, 100), Item(1, 3, 100, 300), Item(1, 1, 110, 110),
     Item(1, 1, 111, 111), Item(2, 1, 55, 55), Item(2, 1, 55, 64), Item(2, 1, 55, 66),
     Item(3, 4, 20, 80), Item(3, 9, 20, 180), Item(0, 1, 100, 100), Item(4, 1, 20, 20)}

LineSeqs == SeqOf(Lines, 2)

Base(lines, subtotal, tax, freight, discount, off) ==
    LET sum == SumOf([n \in DOMAIN lines |-> lines[n].amount])
        declared == IF subtotal = {} THEN sum ELSE CHOOSE a \in subtotal : TRUE
    IN  [vendor |-> "v1", currency |-> "USD", lines |-> lines, subtotal |-> subtotal,
         tax |-> tax, freight |-> freight, discount |-> discount,
         total |-> declared + tax + freight - discount + off]

\* The subtotal is missing, right, or off by what rounding forgives or not.
Subtotals(lines) ==
    LET sum == SumOf([n \in DOMAIN lines |-> lines[n].amount])
    IN  {{}, {sum}, {sum + 4}, {sum + 12}}

\* Invoices with these lines, each of these charges, and a total that is off.
Charged(lineSeqs, subtotal(_), charges, offs) ==
    {i \in UNION {{Base(lines, declared, c.tax, c.freight, c.discount, off) :
                     declared \in subtotal(lines), c \in charges, off \in offs} :
                    lines \in lineSeqs} :
        i.total > 0}

NoSubtotal(lines) == {{}}
NoCharge == [tax |-> 0, freight |-> 0, discount |-> 0]
LargeTax == [NoCharge EXCEPT !.tax = 25]
Charges == {NoCharge, LargeTax, [NoCharge EXCEPT !.tax = 60], [NoCharge EXCEPT !.discount = 30],
            [LargeTax EXCEPT !.freight = 10, !.discount = 30]}

\* Every charge on invoices of one line, a large tax on those of two.
Invoices ==
    Charged({lines \in LineSeqs : Len(lines) < 2}, Subtotals, Charges, {0, 4, 12})
    \cup Charged(LineSeqs, NoSubtotal, {NoCharge, LargeTax}, {0})

\* Invoices without charges, and those of another vendor or currency.
Plain == Charged(LineSeqs, NoSubtotal, {NoCharge}, {0})
OneLine == {i \in Plain : Len(i.lines) = 1}
Foreigners == {[i EXCEPT !.vendor = "v2"] : i \in OneLine}
              \cup {[i EXCEPT !.currency = "EUR"] : i \in OneLine}

Given(invoices, orders, duplicates) ==
    [invoice : invoices, po : orders, receipt : BOOLEAN, duplicate : duplicates]

AllInputs ==
    Given(Invoices, {{Order}}, {FALSE}) \cup Given(Foreigners, {{Order}}, {FALSE})
    \cup Given(OneLine, {{}, {Order}}, BOOLEAN)

\* Invoices that split a PO line between two lines of their own.
SplitInputs == Given(Plain, {{Order}}, {FALSE})
=============================================================================
