---------------------------- MODULE MatchRunProofs ----------------------------
(***************************************************************************)
(* What holds of every run of match(), whatever policies there are,        *)
(* whatever the agent answers and whatever the indexes rank: see README,   *)
(* section 5.                                                              *)
(***************************************************************************)
EXTENDS MatchRun, Sums, TLAPS

\* The match runs in the second stage only, which an agent reaches with
\* evidence (agent_runtime.py:262-296).
GovernedInv ==
    /\ stage \in Stages
    /\ pc = "match" => stage = "request_erp_match"
    /\ NeverUngoverned

\* Retrieve hands over evidence, or asks again, or fails: it never goes on
\* with nothing (context.py:118-135).
LEMMA RetrieveGoverns ==
    ASSUME NEW semantic, NEW lexical, Retrieve(semantic, lexical), GovernedInv
    PROVE  GovernedInv'
<1> DEFINE found == Retrieved(semantic, lexical)
<1>1. CASE found # <<>> /\ Supply(found, semantic)
  <2>1. /\ policies' = found /\ found # <<>>
        /\ stage' = "request_erp_match" /\ pc' = "chat" /\ cited' = {}
    BY <1>1 DEF Supply, NextStage
  <2> QED BY <2>1 DEF GovernedInv, NeverUngoverned, Stages
<1>2. CASE FallBack
  BY <1>2 DEF FallBack, GovernedInv, NeverUngoverned
<1>3. CASE Fail("AgentProtocolError")
  BY <1>3 DEF Fail, evidence, GovernedInv, NeverUngoverned
<1> QED BY <1>1, <1>2, <1>3 DEF Retrieve

\* A decision cites what was supplied, and moves on within its stage.
LEMMA DecideGoverns ==
    ASSUME NEW decision \in Decision, Decide(decision), GovernedInv
    PROVE  GovernedInv'
<1>1. CASE Acceptable(decision)
  <2>1. /\ cited' = decision.policyIds \cap Range(policies)
        /\ UNCHANGED <<stage, policies>>
        /\ pc' = CASE stage = "retrieve_policy" -> "retrieve"
                   [] stage = "request_erp_match" -> "match"
                   [] stage = "evaluate_match" -> "route"
    BY <1>1 DEF Decide, Cited
  <2>2. pc' = "match" => stage' = "request_erp_match"
    BY <2>1 DEF GovernedInv, Stages
  <2> QED BY <2>1, <2>2 DEF GovernedInv, NeverUngoverned
<1>2. CASE ~Acceptable(decision)
  BY <1>2 DEF Decide, Fail, evidence, GovernedInv, NeverUngoverned
<1> QED BY <1>1, <1>2

LEMMA NextGoverns ==
    ASSUME [Next]_vars, GovernedInv
    PROVE  GovernedInv'
<1> USE DEF GovernedInv, NeverUngoverned
<1>1. CASE \E error \in Errors : ChatFails(error)
  BY <1>1 DEF ChatFails, Fail, evidence
<1>2. CASE Malformed
  BY <1>2 DEF Malformed, Fail, evidence
<1>3. CASE \E decision \in Decision : Decide(decision)
  BY <1>3, DecideGoverns
<1>4. CASE \E semantic \in Rankings, lexical \in FullRankings : Retrieve(semantic, lexical)
  BY <1>4, RetrieveGoverns
<1>5. CASE RetrievalFails
  BY <1>5 DEF RetrievalFails, Fail, evidence
<1>6. CASE \E given \in Inputs : Match(given)
  <2>1. /\ pc = "match" /\ pc' = "chat"
        /\ stage' = "evaluate_match" /\ cited' = {} /\ UNCHANGED policies
    BY <1>6 DEF Match, NextStage, evidence
  <2> QED BY <2>1 DEF Stages
<1>7. CASE LookupFails
  BY <1>7 DEF LookupFails, Fail, evidence
<1>8. CASE \E settings \in Settings : Route(settings)
  BY <1>8 DEF Route, evidence
<1>9. CASE UNCHANGED vars
  BY <1>9 DEF vars, evidence
<1> QED
  BY <1>1, <1>2, <1>3, <1>4, <1>5, <1>6, <1>7, <1>8, <1>9 DEF Next, Terminated

\* No invoice is matched or routed, and no decision cites anything, without
\* policy evidence retrieved in this run, whatever the agent answers and
\* whatever is in the index (context.py:118-135, agent_runtime.py:262-296).
THEOREM RunsAreGoverned == Spec => []NeverUngoverned
<1>1. Init => GovernedInv
  BY DEF Init, GovernedInv, NeverUngoverned, Stages
<1>2. GovernedInv /\ [Next]_vars => GovernedInv'
  BY NextGoverns
<1>3. GovernedInv => NeverUngoverned
  BY DEF GovernedInv
<1> QED BY <1>1, <1>2, <1>3, PTL DEF Spec

---------------------------------------------------------------------------
(* The order of the lines.                                                 *)

LEMMA SumOfIsSumOver ==
    ASSUME NEW f
    PROVE  SumOf(f) = SumOver(f, DOMAIN f)
BY FoldIsSumOver DEF SumOf

Flipped(invoice) == [invoice EXCEPT !.lines = Reverse(@)]

\* The place a line has in the reversed invoice.
Flip(invoice) == [n \in DOMAIN invoice.lines |-> Len(invoice.lines) - n + 1]

LEMMA LinesAreFinite ==
    ASSUME NEW invoice \in Invoice
    PROVE  /\ invoice.lines \in Seq(InvoiceLine)
           /\ DOMAIN invoice.lines = 1 .. Len(invoice.lines)
           /\ Len(invoice.lines) \in Nat
           /\ IsFiniteSet(DOMAIN invoice.lines)
           /\ \A n \in DOMAIN invoice.lines : invoice.lines[n] \in InvoiceLine
<1>1. invoice.lines \in Seq(InvoiceLine)
  BY DEF Invoice
<1>2. /\ DOMAIN invoice.lines = 1 .. Len(invoice.lines)
      /\ Len(invoice.lines) \in Nat
      /\ \A n \in DOMAIN invoice.lines : invoice.lines[n] \in InvoiceLine
  BY <1>1
<1> QED BY <1>1, <1>2, FS_Interval

LEMMA FlipPermutes ==
    ASSUME NEW invoice \in Invoice
    PROVE  /\ Flip(invoice) \in [DOMAIN invoice.lines -> DOMAIN invoice.lines]
           /\ \A m, n \in DOMAIN invoice.lines : Flip(invoice)[m] = Flip(invoice)[n] => m = n
           /\ {Flip(invoice)[n] : n \in DOMAIN invoice.lines} = DOMAIN invoice.lines
<1> DEFINE k == Len(invoice.lines)
<1>1. k \in Nat /\ DOMAIN invoice.lines = 1 .. k
  BY LinesAreFinite
<1>2. Flip(invoice) = [n \in 1 .. k |-> k - n + 1]
  BY <1>1 DEF Flip
<1> HIDE DEF k
<1>3. \A n \in 1 .. k : k - n + 1 \in 1 .. k /\ n = k - (k - n + 1) + 1
  BY <1>1
<1>4. \A n \in 1 .. k : Flip(invoice)[n] \in 1 .. k /\ Flip(invoice)[Flip(invoice)[n]] = n
  BY <1>2, <1>3
<1>5. Flip(invoice) \in [1 .. k -> 1 .. k]
  BY <1>2, <1>3
<1> QED BY <1>1, <1>4, <1>5

LEMMA FlipMovesLines ==
    ASSUME NEW invoice \in Invoice
    PROVE  /\ Flipped(invoice) \in Invoice
           /\ DOMAIN Flipped(invoice).lines = DOMAIN invoice.lines
           /\ \A n \in DOMAIN invoice.lines :
                 Flipped(invoice).lines[n] = invoice.lines[Flip(invoice)[n]]
           /\ Flipped(invoice).lines = <<>> <=> invoice.lines = <<>>
<1> DEFINE k == Len(invoice.lines)
           flipped == Flipped(invoice).lines
<1>1. invoice.lines \in Seq(InvoiceLine) /\ k \in Nat /\ DOMAIN invoice.lines = 1 .. k
  BY LinesAreFinite
<1>2. flipped = [n \in 1 .. k |-> invoice.lines[k - n + 1]]
  BY DEF Flipped, Invoice, Reverse
<1>3. \A n \in 1 .. k : k - n + 1 \in 1 .. k
  BY <1>1
<1>4. flipped \in Seq(InvoiceLine) /\ DOMAIN flipped = 1 .. k
  BY <1>1, <1>2, <1>3
<1>5. \A n \in 1 .. k : flipped[n] = invoice.lines[Flip(invoice)[n]]
  BY <1>1, <1>2 DEF Flip
<1>6. flipped = <<>> <=> invoice.lines = <<>>
  BY <1>1, <1>4
<1>7. Flipped(invoice) \in Invoice
  BY <1>4 DEF Flipped, Invoice
<1> HIDE DEF k, flipped
<1>8. /\ DOMAIN flipped = DOMAIN invoice.lines
      /\ \A n \in DOMAIN invoice.lines : flipped[n] = invoice.lines[Flip(invoice)[n]]
  BY <1>1, <1>4, <1>5
<1> QED BY <1>6, <1>7, <1>8 DEF flipped

\* Everything but the lines stays.
LEMMA FlipKeeps ==
    ASSUME NEW invoice \in Invoice,
           NEW field \in {"vendor", "currency", "subtotal", "tax", "freight", "discount", "total"}
    PROVE  Flipped(invoice)[field] = invoice[field]
BY DEF Flipped, Invoice

\* A sum over the lines does not depend on their order.
LEMMA SumOfFlipped ==
    ASSUME NEW invoice \in Invoice, NEW f, NEW g,
           DOMAIN f = DOMAIN invoice.lines, DOMAIN g = DOMAIN invoice.lines,
           \A n \in DOMAIN invoice.lines : g[n] \in Int /\ f[n] = g[Flip(invoice)[n]]
    PROVE  SumOf(f) = SumOf(g)
<1> DEFINE D == DOMAIN invoice.lines
           r == Flip(invoice)
<1>1. /\ r \in [D -> D] /\ \A m, n \in D : r[m] = r[n] => m = n
      /\ {r[n] : n \in D} = D
  BY FlipPermutes
<1>2. IsFiniteSet(D)
  BY LinesAreFinite
<1>3. /\ DOMAIN f = D /\ DOMAIN g = D
      /\ \A n \in D : g[n] \in Int /\ f[n] = g[r[n]]
  OBVIOUS
<1> HIDE DEF D, r
<1>4. \A n \in D : f[n] \in Int
  BY <1>1, <1>3
<1>5. SumOver(f, D) = SumOver(g, {r[n] : n \in D})
  BY <1>1, <1>2, <1>3, <1>4, SumOverReindexed
<1> QED BY <1>1, <1>3, <1>5, SumOfIsSumOver

LEMMA FlippedTotals ==
    ASSUME NEW invoice \in Invoice
    PROVE  /\ LineTotal(Flipped(invoice)) = LineTotal(invoice)
           /\ DeclaredSubtotal(Flipped(invoice)) = DeclaredSubtotal(invoice)
<1> DEFINE f == [n \in DOMAIN Flipped(invoice).lines |-> Flipped(invoice).lines[n].amount]
           g == [n \in DOMAIN invoice.lines |-> invoice.lines[n].amount]
<1>1. \A n \in DOMAIN invoice.lines : g[n] \in Int
  BY LinesAreFinite DEF InvoiceLine
<1>2. DOMAIN f = DOMAIN invoice.lines /\ DOMAIN g = DOMAIN invoice.lines
  BY FlipMovesLines
<1>3. \A n \in DOMAIN invoice.lines : f[n] = g[Flip(invoice)[n]]
  BY FlipMovesLines, FlipPermutes
<1> HIDE DEF f, g
<1>4. SumOf(f) = SumOf(g)
  BY <1>1, <1>2, <1>3, SumOfFlipped
<1>5. LineTotal(Flipped(invoice)) = LineTotal(invoice)
  BY <1>4 DEF LineTotal, f, g
<1>6. Flipped(invoice).subtotal = invoice.subtotal
  BY FlipKeeps
<1>7. \A i : DeclaredSubtotal(i)
                = IF i.subtotal = {} THEN LineTotal(i) ELSE Picked(i.subtotal)
  BY DEF DeclaredSubtotal, Picked
<1> QED BY <1>5, <1>6, <1>7

LEMMA FlippedArithmetic ==
    ASSUME NEW invoice \in Invoice
    PROVE  ArithmeticVariances(Flipped(invoice)) = ArithmeticVariances(invoice)
<1> DEFINE flipped == Flipped(invoice)
<1>1. LinesDoNotAddUp(flipped) <=> LinesDoNotAddUp(invoice)
  <2> DEFINE Wrong(line) == Money(line.amount) # Money(line.quantity * line.unitPrice)
  <2>1. /\ LinesDoNotAddUp(flipped) <=> \E n \in DOMAIN flipped.lines : Wrong(flipped.lines[n])
        /\ LinesDoNotAddUp(invoice) <=> \E n \in DOMAIN invoice.lines : Wrong(invoice.lines[n])
    BY DEF LinesDoNotAddUp
  <2> HIDE DEF Wrong
  <2> QED BY <2>1, FlipMovesLines, FlipPermutes
<1>2. /\ LineTotal(flipped) = LineTotal(invoice)
      /\ DeclaredSubtotal(flipped) = DeclaredSubtotal(invoice)
      /\ flipped.lines = <<>> <=> invoice.lines = <<>>
      /\ flipped.subtotal = invoice.subtotal
      /\ flipped.tax = invoice.tax
      /\ flipped.freight = invoice.freight
      /\ flipped.discount = invoice.discount
      /\ flipped.total = invoice.total
  BY FlippedTotals, FlipMovesLines, FlipKeeps
<1> HIDE DEF flipped
<1>3. ArithmeticVariances(flipped) = ArithmeticVariances(invoice)
  BY <1>1, <1>2, Zenon DEF ArithmeticVariances
<1> QED BY <1>3 DEF flipped

\* Every line of the invoice names its PO line.
Named(invoice) == \A n \in DOMAIN invoice.lines : invoice.lines[n].poLine # 0

LEMMA FlippedPOLines ==
    ASSUME NEW invoice \in Invoice, Named(invoice), NEW po,
           NEW n \in DOMAIN invoice.lines
    PROVE  POLineOf(Flipped(invoice), po, n) = POLineOf(invoice, po, Flip(invoice)[n])
<1>1. /\ Flip(invoice)[n] \in DOMAIN invoice.lines
      /\ Flipped(invoice).lines[n] = invoice.lines[Flip(invoice)[n]]
  BY FlipPermutes, FlipMovesLines
<1>2. LineNumber(Flipped(invoice), n) = LineNumber(invoice, Flip(invoice)[n])
  BY <1>1 DEF LineNumber, Named
<1> QED BY <1>2 DEF POLineOf

\* What an invoice line is expected to cost, in whole or in part.
GoodsOf(invoice, po, n) ==
    [line \in POLineOf(invoice, po, n) |-> invoice.lines[n].quantity * line.unitPrice]

LEMMA GoodsAreNat ==
    ASSUME NEW invoice \in Invoice, NEW po \in PurchaseOrder, IsFiniteSet(po.lines),
           NEW n \in DOMAIN invoice.lines
    PROVE  /\ IsFiniteSet(POLineOf(invoice, po, n))
           /\ POLineOf(invoice, po, n) \in SUBSET POLine
           /\ \A line \in POLineOf(invoice, po, n) : GoodsOf(invoice, po, n)[line] \in Nat
           /\ SumOf(GoodsOf(invoice, po, n)) \in Nat
<1>1. POLineOf(invoice, po, n) \in SUBSET po.lines /\ po.lines \in SUBSET POLine
  BY DEF POLineOf, PurchaseOrder
<1>2. IsFiniteSet(POLineOf(invoice, po, n))
  BY <1>1, FS_Subset
<1> DEFINE f == GoodsOf(invoice, po, n)
<1>3. DOMAIN f = POLineOf(invoice, po, n)
  BY DEF GoodsOf
<1>4. ASSUME NEW line \in POLineOf(invoice, po, n) PROVE f[line] \in Nat
  <2>1. invoice.lines[n].quantity \in Nat /\ line.unitPrice \in Nat
    BY <1>1, LinesAreFinite DEF InvoiceLine, POLine
  <2>2. f[line] = invoice.lines[n].quantity * line.unitPrice
    BY DEF GoodsOf
  <2> QED BY <2>1, <2>2
<1> HIDE DEF f
<1>5. SumOf(f) \in Nat
  BY <1>2, <1>3, <1>4, SumOverNat, SumOfIsSumOver
<1> QED BY <1>1, <1>2, <1>4, <1>5 DEF f

LEMMA FlippedGoods ==
    ASSUME NEW invoice \in Invoice, Named(invoice),
           NEW po \in PurchaseOrder, IsFiniteSet(po.lines)
    PROVE  ExpectedGoods(Flipped(invoice), po) = ExpectedGoods(invoice, po)
<1> DEFINE f == [n \in DOMAIN Flipped(invoice).lines |-> SumOf(GoodsOf(Flipped(invoice), po, n))]
           g == [n \in DOMAIN invoice.lines |-> SumOf(GoodsOf(invoice, po, n))]
<1>1. \A n \in DOMAIN invoice.lines : g[n] \in Int
  BY GoodsAreNat
<1>2. DOMAIN f = DOMAIN invoice.lines /\ DOMAIN g = DOMAIN invoice.lines
  BY FlipMovesLines
<1>3. ASSUME NEW n \in DOMAIN invoice.lines PROVE f[n] = g[Flip(invoice)[n]]
  <2>1. /\ Flip(invoice)[n] \in DOMAIN invoice.lines
        /\ Flipped(invoice).lines[n] = invoice.lines[Flip(invoice)[n]]
    BY FlipPermutes, FlipMovesLines
  <2>2. GoodsOf(Flipped(invoice), po, n) = GoodsOf(invoice, po, Flip(invoice)[n])
    BY <2>1, FlippedPOLines DEF GoodsOf
  <2> QED BY <1>2, <2>1, <2>2
<1>4. SumOf(f) = ExpectedGoods(Flipped(invoice), po) /\ SumOf(g) = ExpectedGoods(invoice, po)
  BY DEF ExpectedGoods, GoodsOf
<1> HIDE DEF f, g
<1>5. SumOf(f) = SumOf(g)
  BY <1>1, <1>2, <1>3, SumOfFlipped
<1> QED BY <1>4, <1>5

LEMMA FlippedOrder ==
    ASSUME NEW invoice \in Invoice, Named(invoice), NEW receipt,
           NEW po \in PurchaseOrder, IsFiniteSet(po.lines)
    PROVE  OrderVariances(Flipped(invoice), po, receipt) = OrderVariances(invoice, po, receipt)
<1> DEFINE flipped == Flipped(invoice)
           D == DOMAIN invoice.lines
           r == Flip(invoice)
           Of(i, n) == UNION {LineVariances(i.lines[n], line, receipt) :
                                line \in POLineOf(i, po, n)}
<1>1. /\ r \in [D -> D] /\ {r[n] : n \in D} = D /\ DOMAIN flipped.lines = D
      /\ \A n \in D : /\ flipped.lines[n] = invoice.lines[r[n]]
                       /\ POLineOf(flipped, po, n) = POLineOf(invoice, po, r[n])
  BY FlipPermutes, FlipMovesLines, FlippedPOLines
<1>2. \A n \in D : Of(flipped, n) = Of(invoice, r[n])
  BY <1>1
<1>3. (\E n \in D : POLineOf(flipped, po, n) = {})
         <=> (\E n \in D : POLineOf(invoice, po, n) = {})
  BY <1>1
<1>4. UNION {Of(flipped, n) : n \in D} = UNION {Of(invoice, n) : n \in D}
  <2> HIDE DEF Of, r, flipped, D
  <2>1. \A n \in D : \E m \in D : n = r[m]
    BY <1>1
  <2>2. {Of(flipped, n) : n \in D} = {Of(invoice, n) : n \in D}
    BY <1>1, <1>2, <2>1
  <2> QED BY <2>2
<1>5. /\ flipped.vendor = invoice.vendor /\ flipped.currency = invoice.currency
      /\ flipped.lines = <<>> <=> invoice.lines = <<>>
      /\ DeclaredSubtotal(flipped) = DeclaredSubtotal(invoice)
      /\ ExpectedGoods(flipped, po) = ExpectedGoods(invoice, po)
  BY FlipKeeps, FlipMovesLines, FlippedTotals, FlippedGoods
<1> DEFINE Codes(i) ==
      {code \in {"VENDOR_MISMATCH", "CURRENCY_MISMATCH", "MISSING_PO_LINE", "TOTAL_VARIANCE"} :
        \/ code = "VENDOR_MISMATCH" /\ i.vendor # po.vendor
        \/ code = "CURRENCY_MISMATCH" /\ i.currency # po.currency
        \/ /\ code = "MISSING_PO_LINE"
           /\ \E n \in DOMAIN i.lines : POLineOf(i, po, n) = {}
        \/ /\ code = "TOTAL_VARIANCE"
           /\ i.lines # <<>>
           /\ Differs(DeclaredSubtotal(i), ExpectedGoods(i, po), Policy.total)}
<1>6. \A i : OrderVariances(i, po, receipt) = Codes(i) \cup UNION {Of(i, n) : n \in DOMAIN i.lines}
  BY DEF OrderVariances
<1>7. Codes(flipped) = Codes(invoice)
  <2> HIDE DEF flipped
  <2> QED BY <1>1, <1>3, <1>5, Zenon
<1> HIDE DEF Codes, Of, flipped
<1>8. OrderVariances(flipped, po, receipt) = OrderVariances(invoice, po, receipt)
  BY <1>1, <1>4, <1>6, <1>7
<1> QED BY <1>8 DEF flipped

LEMMA FlippedVariances ==
    ASSUME NEW invoice \in Invoice, Named(invoice), NEW receipt, NEW duplicate, NEW pos,
           \A po \in pos : po \in PurchaseOrder /\ IsFiniteSet(po.lines)
    PROVE  Variances(Flipped(invoice), pos, receipt, duplicate)
             = Variances(invoice, pos, receipt, duplicate)
<1>1. ArithmeticVariances(Flipped(invoice)) = ArithmeticVariances(invoice)
  BY FlippedArithmetic
<1>2. \A po \in pos :
        OrderVariances(Flipped(invoice), po, receipt) = OrderVariances(invoice, po, receipt)
  BY FlippedOrder
<1>3. {OrderVariances(Flipped(invoice), po, receipt) : po \in pos}
        = {OrderVariances(invoice, po, receipt) : po \in pos}
  BY <1>2
<1> QED BY <1>1, <1>3 DEF Variances

---------------------------------------------------------------------------
(* What a match bounds.                                                    *)

\* The limits are below 100 percent: from 100 on, _pct and _ratio_pct accept
\* any amount against nothing at all.
LimitsBelowAll ==
    \A limit \in {"quantity", "total", "tax", "freight"} : Policy[limit] < 100

LEMMA MoneyIsClose ==
    ASSUME NEW a \in Int, NEW b \in Int, Money(a) = Money(b)
    PROVE  a <= b + 10
<1>1. ASSUME NEW n \in Int
      PROVE  /\ Money(n) \in Int
             /\ 10 * Money(n) - 5 <= n /\ n <= 10 * Money(n) + 5
  <2>1. /\ n % 10 \in 0 .. 9 /\ n \div 10 \in Int
        /\ n - 10 * (n \div 10) = n % 10
    <3>1. n % 10 \in 0 .. 9
      OBVIOUS
    <3>2. n \div 10 \in Int
      OBVIOUS
    <3>3. n - 10 * (n \div 10) = n % 10
      OBVIOUS
    <3> QED BY <3>1, <3>2, <3>3
  <2> DEFINE cents == n \div 10
             rest == n % 10
  <2>2. Money(n) = IF rest > 5 \/ (rest = 5 /\ cents % 2 = 1) THEN cents + 1 ELSE cents
    BY DEF Money
  <2> HIDE DEF cents, rest
  <2>3. n = 10 * cents + rest /\ rest \in 0 .. 9 /\ cents \in Int
    BY <2>1 DEF cents, rest
  <2>4. CASE rest > 5 \/ (rest = 5 /\ cents % 2 = 1)
    BY <2>2, <2>3, <2>4
  <2>5. CASE ~ (rest > 5 \/ (rest = 5 /\ cents % 2 = 1))
    <3>1. rest <= 5
      BY <2>3, <2>5
    <3> QED BY <2>2, <2>3, <2>5, <3>1
  <2> QED BY <2>4, <2>5
<1> QED BY <1>1

LEMMA SubtotalIsNat ==
    ASSUME NEW invoice \in Invoice
    PROVE  DeclaredSubtotal(invoice) \in Nat
<1>1. CASE invoice.subtotal = {}
  <2> DEFINE f == [n \in DOMAIN invoice.lines |-> invoice.lines[n].amount]
  <2>1. IsFiniteSet(DOMAIN f) /\ \A n \in DOMAIN f : f[n] \in Nat
    BY LinesAreFinite DEF InvoiceLine
  <2>2. LineTotal(invoice) = SumOf(f)
    BY DEF LineTotal
  <2> HIDE DEF f
  <2>3. SumOf(f) \in Nat
    BY <2>1, SumOverNat, SumOfIsSumOver
  <2> QED BY <1>1, <2>2, <2>3 DEF DeclaredSubtotal
<1>2. CASE invoice.subtotal # {}
  BY <1>2 DEF DeclaredSubtotal, Invoice
<1> QED BY <1>1, <1>2

\* The total is the subtotal and its charges, up to the rounding of both, and
\* each charge is its share of the subtotal at most.
LEMMA TotalFollowsSubtotal ==
    ASSUME NEW invoice \in Invoice, ArithmeticVariances(invoice) = {}, LimitsBelowAll
    PROVE  /\ invoice.lines # <<>>
           /\ invoice.total <= DeclaredSubtotal(invoice) + invoice.tax + invoice.freight + 10
           /\ 100 * invoice.tax <= Policy.tax * DeclaredSubtotal(invoice)
           /\ 100 * invoice.freight <= Policy.freight * DeclaredSubtotal(invoice)
<1> DEFINE s == DeclaredSubtotal(invoice)
<1>1. /\ invoice.lines # <<>>
      /\ Money(invoice.total) = Money(s + invoice.tax + invoice.freight - invoice.discount)
      /\ ~ OverShare(invoice.tax, s, Policy.tax)
      /\ ~ OverShare(invoice.freight, s, Policy.freight)
  <2>1. /\ "LINE_DETAIL_MISSING" \notin ArithmeticVariances(invoice)
        /\ "INVOICE_TOTAL_MISMATCH" \notin ArithmeticVariances(invoice)
        /\ "TAX_VARIANCE" \notin ArithmeticVariances(invoice)
        /\ "FREIGHT_VARIANCE" \notin ArithmeticVariances(invoice)
    OBVIOUS
  <2>2. invoice.lines # <<>>
    BY <2>1 DEF ArithmeticVariances
  <2>3. Money(invoice.total) = Money(s + invoice.tax + invoice.freight - invoice.discount)
    BY <2>1, <2>2 DEF ArithmeticVariances
  <2>4. ~ OverShare(invoice.tax, s, Policy.tax)
    BY <2>1 DEF ArithmeticVariances
  <2>5. ~ OverShare(invoice.freight, s, Policy.freight)
    BY <2>1 DEF ArithmeticVariances
  <2> QED BY <2>2, <2>3, <2>4, <2>5
<1>2. /\ s \in Nat /\ invoice.total \in Nat /\ invoice.tax \in Nat
      /\ invoice.freight \in Nat /\ invoice.discount \in Nat
      /\ Policy.tax \in Nat /\ Policy.freight \in Nat
      /\ Policy.tax < 100 /\ Policy.freight < 100
  BY SubtotalIsNat, PolicyIsNat DEF Invoice, LimitsBelowAll
<1> HIDE DEF s
<1>3. ASSUME NEW amount \in Nat, NEW limit \in Nat, limit < 100, ~ OverShare(amount, s, limit)
      PROVE  100 * amount <= limit * s
  <2>1. CASE amount = 0
    BY <1>2, <2>1
  <2>2. CASE amount > 0
    <3>1. s # 0 /\ ~ (100 * amount > limit * Abs(s))
      BY <1>3, <2>2 DEF OverShare
    <3>2. Abs(s) = s
      BY <1>2 DEF Abs
    <3> QED BY <1>2, <3>1, <3>2
  <2> QED BY <2>1, <2>2
<1>4. invoice.total <= (s + invoice.tax + invoice.freight - invoice.discount) + 10
  <2>1. s + invoice.tax + invoice.freight - invoice.discount \in Int
    BY <1>2
  <2> QED BY <1>1, <1>2, <2>1, MoneyIsClose
<1>5. invoice.total <= s + invoice.tax + invoice.freight + 10
  BY <1>2, <1>4
<1> QED BY <1>1, <1>2, <1>3, <1>5 DEF s

\* The subtotal is within tolerance of what the lines should cost.
LEMMA SubtotalFollowsGoods ==
    ASSUME NEW invoice \in Invoice, NEW po \in PurchaseOrder, IsFiniteSet(po.lines),
           NEW receipt, OrderVariances(invoice, po, receipt) = {},
           invoice.lines # <<>>, LimitsBelowAll
    PROVE  /\ ExpectedGoods(invoice, po) \in Nat
           /\ 100 * DeclaredSubtotal(invoice) <= (100 + Policy.total) * ExpectedGoods(invoice, po)
<1> DEFINE s == DeclaredSubtotal(invoice)
           goods == ExpectedGoods(invoice, po)
           f == [n \in DOMAIN invoice.lines |-> SumOf(GoodsOf(invoice, po, n))]
<1>1. ~ Differs(s, goods, Policy.total)
  <2>1. "TOTAL_VARIANCE" \notin OrderVariances(invoice, po, receipt)
    OBVIOUS
  <2> QED BY <2>1 DEF OrderVariances
<1>2. goods \in Nat
  <2>1. IsFiniteSet(DOMAIN f) /\ \A n \in DOMAIN f : f[n] \in Nat
    BY LinesAreFinite, GoodsAreNat
  <2>2. goods = SumOf(f)
    BY DEF ExpectedGoods, GoodsOf
  <2> HIDE DEF f, goods
  <2> QED BY <2>1, <2>2, SumOverNat, SumOfIsSumOver
<1>3. s \in Nat /\ Policy.total \in Nat /\ Policy.total < 100
  BY SubtotalIsNat, PolicyIsNat DEF LimitsBelowAll
<1> HIDE DEF s, goods
<1>4. 100 * s <= (100 + Policy.total) * goods
  <2>1. CASE goods = 0
    <3>1. s = 0
      BY <1>1, <1>3, <2>1 DEF Differs
    <3> QED BY <1>3, <2>1, <3>1
  <2>2. CASE goods # 0
    <3>1. ~ (100 * Abs(s - goods) > Policy.total * Abs(goods))
      BY <1>1, <2>2 DEF Differs
    <3>2. Abs(goods) = goods /\ s - goods <= Abs(s - goods)
      BY <1>2, <1>3 DEF Abs
    <3>3. Abs(s - goods) \in Int /\ Policy.total * goods \in Int
      BY <1>2, <1>3 DEF Abs
    <3>4. 100 * s - 100 * goods <= Policy.total * goods
      BY <1>2, <1>3, <3>1, <3>2, <3>3
    <3>5. (100 + Policy.total) * goods = 100 * goods + Policy.total * goods
      BY <1>2, <1>3
    <3> QED BY <1>2, <1>3, <3>3, <3>4, <3>5
  <2> QED BY <2>1, <2>2
<1> QED BY <1>2, <1>4 DEF s, goods

\* An invoice line asks for the quantity ordered and its tolerance at most, and
\* in a three-way match for the quantity received at most.
LEMMA LineWithinOrder ==
    ASSUME NEW invoice \in Invoice, NEW po \in PurchaseOrder, NEW receipt,
           OrderVariances(invoice, po, receipt) = {}, LimitsBelowAll,
           NEW n \in DOMAIN invoice.lines, NEW line \in POLineOf(invoice, po, n)
    PROVE  /\ line \in POLine /\ invoice.lines[n].quantity \in Nat
           /\ 100 * invoice.lines[n].quantity <= (100 + Policy.quantity) * line.quantity
           /\ receipt => invoice.lines[n].quantity <= line.received
<1> DEFINE q == invoice.lines[n].quantity
<1>1. line \in POLine /\ q \in Nat
  BY LinesAreFinite DEF POLineOf, PurchaseOrder, InvoiceLine
<1>2. LineVariances(invoice.lines[n], line, receipt) = {}
  <2> DEFINE Of(m) == UNION {LineVariances(invoice.lines[m], l, receipt) :
                               l \in POLineOf(invoice, po, m)}
  <2>1. UNION {Of(m) : m \in DOMAIN invoice.lines} = {}
    BY DEF OrderVariances
  <2>2. Of(n) = {}
    BY <2>1
  <2> QED BY <2>2
<1>3. ~ (q > line.quantity /\ Differs(q, line.quantity, Policy.quantity))
  <2>1. "QUANTITY_VARIANCE" \notin LineVariances(invoice.lines[n], line, receipt)
    BY <1>2
  <2> QED BY <2>1 DEF LineVariances
<1>4. ~ (receipt /\ q > line.received)
  <2>1. "RECEIPT_SHORTFALL" \notin LineVariances(invoice.lines[n], line, receipt)
    BY <1>2
  <2> QED BY <2>1 DEF LineVariances
<1>5. line.quantity \in Nat /\ line.received \in Nat /\ Policy.quantity \in Nat
      /\ Policy.quantity < 100
  BY <1>1, PolicyIsNat DEF POLine, LimitsBelowAll
<1> HIDE DEF q
<1> DEFINE ordered == line.quantity
           limit == Policy.quantity
<1>6. 100 * q <= (100 + limit) * ordered
  <2>1. (100 + limit) * ordered = 100 * ordered + limit * ordered /\ limit * ordered \in Nat
    BY <1>5
  <2>2. CASE q <= ordered
    BY <1>1, <1>5, <2>1, <2>2
  <2>3. CASE q > ordered
    <3>1. ordered # 0
      BY <1>1, <1>3, <1>5, <2>3 DEF Differs
    <3>3. 100 * Abs(q - ordered) <= limit * Abs(ordered)
      <4>1. ~ (100 * Abs(q - ordered) > limit * Abs(ordered))
        BY <1>3, <2>3, <3>1 DEF Differs
      <4>2. 100 * Abs(q - ordered) \in Int /\ limit * Abs(ordered) \in Int
        BY <1>1, <1>5 DEF Abs
      <4> QED BY <4>1, <4>2
    <3>2. Abs(q - ordered) = q - ordered /\ Abs(ordered) = ordered
      BY <1>1, <1>5, <2>3 DEF Abs
    <3> QED BY <1>1, <1>5, <2>1, <3>2, <3>3
  <2> QED BY <1>1, <1>5, <2>2, <2>3
<1>7. receipt => q <= line.received
  BY <1>1, <1>4, <1>5
<1> QED BY <1>1, <1>6, <1>7 DEF q

LEMMA QuantityWithinReceived ==
    ASSUME NEW invoice \in Invoice, NEW po \in PurchaseOrder,
           OrderVariances(invoice, po, TRUE) = {}, LimitsBelowAll,
           NamesEachLineOnce(invoice)
    PROVE  WithinReceipt(invoice, po)
<1> SUFFICES ASSUME NEW line \in po.lines
             PROVE  Quantity(invoice, line) <= line.received
  BY DEF WithinReceipt
<1> DEFINE D == {m \in DOMAIN invoice.lines : LineNumber(invoice, m) = line.number}
           f == [n \in D |-> invoice.lines[n].quantity]
<1>1. /\ IsFiniteSet(DOMAIN f) /\ DOMAIN f = D
      /\ \A n \in D : f[n] = invoice.lines[n].quantity /\ f[n] \in Int
  BY LinesAreFinite, FS_Subset DEF InvoiceLine
<1>2. Quantity(invoice, line) = SumOf(f)
  BY DEF Quantity
<1>3. \A n \in D : line \in POLineOf(invoice, po, n) /\ n \in DOMAIN invoice.lines
  BY DEF POLineOf
<1>4. \A m, n \in D : m = n
  BY DEF NamesEachLineOnce
<1>5. line.received \in Nat
  BY DEF PurchaseOrder, POLine
<1>6. SumOf(f) = SumOver(f, D)
  BY <1>1, SumOfIsSumOver
<1> HIDE DEF f, D
<1>7. CASE D = {}
  BY <1>1, <1>2, <1>5, <1>6, <1>7, SumOverEquation
<1>8. CASE D # {}
  <2>1. PICK n \in D : TRUE
    BY <1>8
  <2>2. D \ {n} = {}
    BY <1>4
  <2>3. SumOver(f, D) = f[n] + SumOver(f, D \ {n}) /\ SumOver(f, {}) = 0
    BY <1>1, SumOverRemove, SumOverEquation
  <2>4. invoice.lines[n].quantity <= line.received
    BY <1>3, LineWithinOrder
  <2>5. f[n] \in Int /\ f[n] <= line.received
    BY <1>1, <2>4
  <2>6. SumOf(f) = f[n]
    BY <1>6, <2>2, <2>3, <2>5
  <2> QED BY <1>2, <2>5, <2>6
<1> QED BY <1>7, <1>8

\* The ordered lines an invoice names, and their value with the tolerance.
NamedLines(invoice, po) ==
    {l \in po.lines : \E n \in DOMAIN invoice.lines : LineNumber(invoice, n) = l.number}

ValueOf(invoice, po) ==
    [line \in NamedLines(invoice, po) |->
       line.quantity * line.unitPrice * (100 + Policy.quantity)]

LEMMA LineGoodsWithinOrder ==
    ASSUME NEW invoice \in Invoice, NEW po \in PurchaseOrder, IsFiniteSet(po.lines),
           NEW receipt, OrderVariances(invoice, po, receipt) = {}, LimitsBelowAll,
           NEW n \in DOMAIN invoice.lines
    PROVE  /\ IsFiniteSet(NamedLines(invoice, po))
           /\ POLineOf(invoice, po, n) \in SUBSET NamedLines(invoice, po)
           /\ \A line \in NamedLines(invoice, po) : ValueOf(invoice, po)[line] \in Nat
           /\ 100 * SumOf(GoodsOf(invoice, po, n))
                 <= SumOver(ValueOf(invoice, po), POLineOf(invoice, po, n))
<1> DEFINE P == POLineOf(invoice, po, n)
           f == GoodsOf(invoice, po, n)
           g == ValueOf(invoice, po)
           N == NamedLines(invoice, po)
           q == invoice.lines[n].quantity
<1>1. P \in SUBSET N /\ N \in SUBSET po.lines /\ N \in SUBSET POLine
  BY DEF POLineOf, NamedLines, PurchaseOrder
<1>2. IsFiniteSet(N)
  BY <1>1, FS_Subset
<1>3. /\ DOMAIN g = N
      /\ \A line \in N : g[line] = line.quantity * line.unitPrice * (100 + Policy.quantity)
  BY DEF ValueOf
<1>4. /\ DOMAIN f = P
      /\ \A line \in P : f[line] = q * line.unitPrice
  BY DEF GoodsOf
<1>5. \A line \in N : line.quantity \in Nat /\ line.unitPrice \in Nat
  BY <1>1 DEF POLine
<1>6. \A line \in N : g[line] \in Nat
  <2>1. Policy.quantity \in Nat
    BY PolicyIsNat
  <2> QED BY <1>3, <1>5, <2>1
<1>7. /\ IsFiniteSet(P)
      /\ \A line \in P : f[line] \in Nat
  BY GoodsAreNat
<1>8. ASSUME NEW line \in P PROVE 100 * f[line] <= g[line]
  <2> DEFINE ordered == line.quantity
             price == line.unitPrice
             share == 100 + Policy.quantity
  <2>1. q \in Nat /\ 100 * q <= share * ordered
    BY LineWithinOrder
  <2>2. ordered \in Nat /\ price \in Nat /\ share \in Nat
    BY <1>1, <1>5, PolicyIsNat
  <2>3. f[line] = q * price /\ g[line] = ordered * price * share
    BY <1>1, <1>3, <1>4
  <2> HIDE DEF f, g, q, ordered, price, share
  <2>4. (100 * q) * price <= (share * ordered) * price
    BY <2>1, <2>2
  <2>5. 100 * (q * price) = (100 * q) * price /\ ordered * price * share = (share * ordered) * price
    BY <2>1, <2>2
  <2> QED BY <2>3, <2>4, <2>5
<1> HIDE DEF P, f, g, N
<1>9. 100 * SumOver(f, P) <= SumOver(g, P)
  BY <1>1, <1>2, <1>3, <1>4, <1>6, <1>7, <1>8, SumOverBounded
<1>10. SumOf(f) = SumOver(f, P)
  BY <1>4, SumOfIsSumOver
<1> QED BY <1>1, <1>2, <1>6, <1>9, <1>10 DEF P, f, g, N

\* What the lines should cost is within the value of the ordered lines they
\* name: no ordered line counts twice.
LEMMA GoodsWithinOrder ==
    ASSUME NEW invoice \in Invoice, NEW po \in PurchaseOrder, IsFiniteSet(po.lines),
           NEW receipt, OrderVariances(invoice, po, receipt) = {}, LimitsBelowAll,
           NamesEachLineOnce(invoice)
    PROVE  100 * ExpectedGoods(invoice, po) <= OrderedValue(invoice, po)
<1> DEFINE D == DOMAIN invoice.lines
           P(n) == POLineOf(invoice, po, n)
           N == NamedLines(invoice, po)
           f == [n \in D |-> SumOf(GoodsOf(invoice, po, n))]
           g == ValueOf(invoice, po)
           All(t) == UNION {P(n) : n \in t}
           T == {t \in SUBSET D : 100 * SumOver(f, t) <= SumOver(g, All(t))}
<1>1. IsFiniteSet(D) /\ DOMAIN f = D /\ \A n \in D : f[n] \in Int
  BY LinesAreFinite, GoodsAreNat
<1>2. CASE D = {}
  <2>1. invoice.lines = <<>> /\ N = {}
    BY <1>2, LinesAreFinite DEF NamedLines
  <2>2. SumOf(f) = 0
    <3> HIDE DEF f
    <3> QED BY <1>1, <1>2, SumOfIsSumOver, SumOverEquation
  <2>3. DOMAIN g = {} /\ SumOf(g) = 0
    <3>1. DOMAIN g = {}
      BY <2>1 DEF ValueOf
    <3>2. IsFiniteSet(DOMAIN g)
      BY <3>1, FS_EmptySet
    <3> HIDE DEF g
    <3> QED BY <3>1, <3>2, SumOfIsSumOver, SumOverEquation
  <2>4. ExpectedGoods(invoice, po) = SumOf(f) /\ OrderedValue(invoice, po) = SumOf(g)
    BY DEF ExpectedGoods, GoodsOf, OrderedValue, ValueOf, NamedLines
  <2> QED BY <2>2, <2>3, <2>4
<1>3. CASE D # {}
  <2>1. /\ IsFiniteSet(N) /\ DOMAIN g = N /\ \A line \in N : g[line] \in Int
        /\ \A n \in D : /\ P(n) \in SUBSET N
                         /\ 100 * f[n] <= SumOver(g, P(n))
    <3>1. DOMAIN g = N
      BY DEF ValueOf
    <3>2. ASSUME NEW n \in D
          PROVE  /\ IsFiniteSet(N) /\ P(n) \in SUBSET N
                 /\ \A line \in N : g[line] \in Nat
                 /\ 100 * f[n] <= SumOver(g, P(n))
      BY LineGoodsWithinOrder
    <3> HIDE DEF D, P, N, f, g
    <3> QED BY <1>3, <3>1, <3>2
  <2>2. \A m, n \in D : m # n => P(m) \cap P(n) = {}
    BY DEF POLineOf, NamesEachLineOnce
  <2>3. All(D) = N
    BY DEF POLineOf, NamedLines
  <2>4. ExpectedGoods(invoice, po) = SumOf(f) /\ OrderedValue(invoice, po) = SumOf(g)
    BY DEF ExpectedGoods, GoodsOf, OrderedValue, ValueOf, NamedLines
  <2> HIDE DEF P, N, f, g, D
  <2>5. ASSUME NEW t \in SUBSET D, \A n \in t : t \ {n} \in T
        PROVE  t \in T
    <3>1. CASE t = {}
      <4>1. SumOver(f, {}) = 0 /\ SumOver(g, {}) = 0
        BY <1>1, <2>1, SumOverEquation
      <4>2. All(t) = {}
        BY <3>1
      <4> QED BY <3>1, <4>1, <4>2
    <3>2. CASE t # {}
      <4>1. PICK n \in t : TRUE
        BY <3>2
      <4>2. SumOver(f, t) = f[n] + SumOver(f, t \ {n})
        BY <1>1, SumOverRemove
      <4>3. All(t) = P(n) \cup All(t \ {n})
        OBVIOUS
      <4>4. /\ P(n) \cap All(t \ {n}) = {}
            /\ P(n) \in SUBSET N /\ All(t \ {n}) \in SUBSET N
        BY <2>1, <2>2
      <4>5. 100 * SumOver(f, t \ {n}) <= SumOver(g, All(t \ {n}))
        BY <2>5
      <4> HIDE DEF All, T
      <4>6. SumOver(g, All(t)) = SumOver(g, P(n)) + SumOver(g, All(t \ {n}))
        <5>1. SumOver(g, P(n) \cup All(t \ {n})) = SumOver(g, P(n)) + SumOver(g, All(t \ {n}))
          BY <2>1, <4>4, SumOverDisjoint
        <5> QED BY <4>3, <5>1
      <4>7. /\ SumOver(g, P(n)) \in Int /\ SumOver(g, All(t \ {n})) \in Int
            /\ SumOver(f, t \ {n}) \in Int /\ f[n] \in Int
        BY <1>1, <2>1, <4>4, SumOverInt
      <4>8. 100 * f[n] <= SumOver(g, P(n))
        BY <2>1
      <4>9. 100 * SumOver(f, t) <= SumOver(g, All(t))
        BY <4>2, <4>5, <4>6, <4>7, <4>8
      <4> QED BY <4>9 DEF T
    <3> QED BY <3>1, <3>2
  <2>6. T \in SUBSET SUBSET D
    OBVIOUS
  <2> HIDE DEF T
  <2>7. T = SUBSET D
    BY <1>1, <2>5, <2>6, FiniteSetInduction
  <2>8. 100 * SumOver(f, D) <= SumOver(g, N)
    BY <2>3, <2>7 DEF T
  <2> QED BY <1>1, <2>1, <2>4, <2>8, SumOfIsSumOver
<1> QED BY <1>2, <1>3

LEMMA OrderedValueIsNat ==
    ASSUME NEW invoice \in Invoice, NEW po \in PurchaseOrder, IsFiniteSet(po.lines)
    PROVE  OrderedValue(invoice, po) \in Nat
<1> DEFINE g == ValueOf(invoice, po)
           N == NamedLines(invoice, po)
<1>1. N \in SUBSET po.lines /\ N \in SUBSET POLine
  BY DEF NamedLines, PurchaseOrder
<1>2. IsFiniteSet(N) /\ DOMAIN g = N
  BY <1>1, FS_Subset DEF ValueOf
<1>3. ASSUME NEW line \in N PROVE g[line] \in Nat
  <2>1. line.quantity \in Nat /\ line.unitPrice \in Nat /\ Policy.quantity \in Nat
    BY <1>1, PolicyIsNat DEF POLine
  <2>2. g[line] = line.quantity * line.unitPrice * (100 + Policy.quantity)
    BY DEF ValueOf
  <2> QED BY <2>1, <2>2
<1>4. OrderedValue(invoice, po) = SumOf(g)
  BY DEF OrderedValue, ValueOf, NamedLines
<1> HIDE DEF g, N
<1> QED BY <1>2, <1>3, <1>4, SumOverNat, SumOfIsSumOver

LEMMA VariancesOf ==
    ASSUME NEW invoice, NEW pos, NEW receipt, NEW duplicate,
           Variances(invoice, pos, receipt, duplicate) = {}
    PROVE  /\ ArithmeticVariances(invoice) = {}
           /\ \A po \in pos : OrderVariances(invoice, po, receipt) = {}
           /\ pos # {} /\ ~ duplicate
<1>1. ArithmeticVariances(invoice) = {} /\ ~ duplicate /\ pos # {}
  BY DEF Variances
<1>2. UNION {OrderVariances(invoice, po, receipt) : po \in pos} = {}
  BY <1>1 DEF Variances
<1> QED BY <1>1, <1>2

\* A chain of three bounds, each in percent.
LEMMA MatchedPaysWithinGoods ==
    ASSUME NEW invoice \in Invoice, NEW po \in PurchaseOrder, IsFiniteSet(po.lines),
           NEW receipt, ArithmeticVariances(invoice) = {},
           OrderVariances(invoice, po, receipt) = {}, LimitsBelowAll,
           NEW value \in Nat, 100 * ExpectedGoods(invoice, po) <= value
    PROVE  1000000 * (invoice.total - 10)
             <= value * (100 + Policy.total) * (100 + Policy.tax + Policy.freight)
<1> DEFINE s == DeclaredSubtotal(invoice)
           goods == ExpectedGoods(invoice, po)
           total == invoice.total
           tax == invoice.tax
           freight == invoice.freight
           a == Policy.tax
           b == Policy.freight
           c == 100 + Policy.total
<1>1. /\ total <= s + tax + freight + 10
      /\ 100 * tax <= a * s /\ 100 * freight <= b * s
  BY TotalFollowsSubtotal
<1>2. goods \in Nat /\ 100 * s <= c * goods
  BY TotalFollowsSubtotal, SubtotalFollowsGoods
<1>3. 100 * goods <= value /\ value \in Nat
  OBVIOUS
<1>4. /\ s \in Nat /\ total \in Nat /\ tax \in Nat /\ freight \in Nat
      /\ a \in Nat /\ b \in Nat /\ c \in Nat
  BY SubtotalIsNat, PolicyIsNat DEF Invoice
<1>5. 1000000 * (total - 10) <= value * c * (100 + a + b)
  <2> HIDE DEF s, goods, total, tax, freight, a, b, c
  <2> DEFINE k == 100 + a + b
  <2>1. k \in Nat /\ s * k = 100 * s + a * s + b * s
    BY <1>4
  <2>2. a * s \in Nat /\ b * s \in Nat
    BY <1>4
  <2>3. 100 * (total - 10) <= s * k
    BY <1>1, <1>4, <2>1, <2>2
  <2> HIDE DEF k
  <2>4. c * (100 * goods) <= c * value
    BY <1>2, <1>3, <1>4
  <2>5. c * (100 * goods) = 100 * (c * goods) /\ c * goods \in Nat /\ c * value \in Nat
    BY <1>2, <1>3, <1>4
  <2>6. 10000 * s <= c * value
    BY <1>2, <1>4, <2>4, <2>5
  <2>7. (10000 * s) * k <= (c * value) * k
    BY <1>4, <2>1, <2>5, <2>6
  <2>8. (10000 * s) * k = 10000 * (s * k) /\ s * k \in Nat
    BY <1>4, <2>1
  <2>9. (c * value) * k = value * c * k
    BY <1>3, <1>4, <2>1
  <2>10. 1000000 * (total - 10) = 10000 * (100 * (total - 10))
    BY <1>4
  <2>11. 100 * (total - 10) \in Int /\ (c * value) * k \in Nat
    BY <1>4, <2>1, <2>5
  <2>12. 1000000 * (total - 10) <= value * c * k
    BY <2>3, <2>7, <2>8, <2>9, <2>10, <2>11
  <2> QED BY <2>12 DEF k
<1> QED BY <1>5

LEMMA MatchedPaysWithinOrder ==
    ASSUME NEW invoice \in Invoice, NEW po \in PurchaseOrder, IsFiniteSet(po.lines),
           NEW receipt, ArithmeticVariances(invoice) = {},
           OrderVariances(invoice, po, receipt) = {}, LimitsBelowAll,
           NamesEachLineOnce(invoice)
    PROVE  1000000 * (invoice.total - 10)
             <= OrderedValue(invoice, po)
                  * (100 + Policy.total) * (100 + Policy.tax + Policy.freight)
<1>1. OrderedValue(invoice, po) \in Nat
  BY OrderedValueIsNat
<1>2. 100 * ExpectedGoods(invoice, po) <= OrderedValue(invoice, po)
  BY GoodsWithinOrder
<1> QED BY <1>1, <1>2, MatchedPaysWithinGoods

\* The value of the ordered line that an invoice line names, with the tolerance.
NamedValue(invoice, po) ==
    [n \in DOMAIN invoice.lines |-> SumOver(ValueOf(invoice, po), POLineOf(invoice, po, n))]

LEMMA GoodsWithinNamedValue ==
    ASSUME NEW invoice \in Invoice, NEW po \in PurchaseOrder, IsFiniteSet(po.lines),
           NEW receipt, OrderVariances(invoice, po, receipt) = {}, LimitsBelowAll
    PROVE  /\ SumOf(NamedValue(invoice, po)) \in Nat
           /\ 100 * ExpectedGoods(invoice, po) <= SumOf(NamedValue(invoice, po))
<1> DEFINE D == DOMAIN invoice.lines
           f == [n \in D |-> SumOf(GoodsOf(invoice, po, n))]
           g == NamedValue(invoice, po)
<1>1. IsFiniteSet(D) /\ DOMAIN f = D /\ \A n \in D : f[n] \in Int
  BY LinesAreFinite, GoodsAreNat
<1>2. DOMAIN g = D
  BY DEF NamedValue
<1>3. ASSUME NEW n \in D
      PROVE  g[n] \in Nat /\ 100 * f[n] <= g[n]
  <2> DEFINE v == ValueOf(invoice, po)
             P == POLineOf(invoice, po, n)
  <2>1. /\ IsFiniteSet(NamedLines(invoice, po)) /\ DOMAIN v = NamedLines(invoice, po)
        /\ P \in SUBSET NamedLines(invoice, po)
        /\ \A line \in NamedLines(invoice, po) : v[line] \in Nat
        /\ 100 * SumOf(GoodsOf(invoice, po, n)) <= SumOver(v, P)
    BY LineGoodsWithinOrder DEF ValueOf
  <2>2. g[n] = SumOver(v, P)
    BY DEF NamedValue
  <2>3. SumOver(v, P) \in Nat
    <3> HIDE DEF v, P
    <3> QED BY <2>1, SumOverNat
  <2> QED BY <2>1, <2>2, <2>3
<1>4. ExpectedGoods(invoice, po) = SumOf(f)
  BY DEF ExpectedGoods, GoodsOf
<1> HIDE DEF D, f, g
<1>5. SumOver(g, D) \in Nat
  BY <1>1, <1>2, <1>3, SumOverNat
<1>6. 100 * SumOver(f, D) <= SumOver(g, D)
  BY <1>1, <1>2, <1>3, SumOverBounded
<1>7. SumOf(f) = SumOver(f, D) /\ SumOf(g) = SumOver(g, D)
  BY <1>1, <1>2, SumOfIsSumOver
<1> QED BY <1>4, <1>5, <1>6, <1>7 DEF g

---------------------------------------------------------------------------
(* Rank fusion.                                                            *)

Ids == Range(Policies)

LEMMA PoliciesAreFinite ==
    /\ DOMAIN Policies = 1 .. Len(Policies) /\ Len(Policies) \in Nat /\ Len(Policies) > 0
    /\ IsFiniteSet(Ids) /\ Cardinality(Ids) = Len(Policies)
    /\ \A p \in Ids : /\ Place(Policies, p) \in 1 .. Len(Policies)
                      /\ Policies[Place(Policies, p)] = p
<1> DEFINE N == Len(Policies)
<1>1. DOMAIN Policies = 1 .. N /\ N \in Nat /\ N > 0
  BY RunConstants
<1>2. \A a, b \in DOMAIN Policies : Policies[a] = Policies[b] => a = b
  BY RunConstants DEF IsInjective
<1>3. IsFiniteSet(1 .. N) /\ Cardinality(1 .. N) = N
  BY <1>1, FS_Interval
<1>4. Policies \in Surjection(1 .. N, Ids)
  BY <1>1, RunConstants DEF Surjection, Ids, Range
<1>5. Policies \in Injection(1 .. N, Ids)
  BY <1>1, <1>2, RunConstants DEF Injection, IsInjective, Ids, Range
<1>6. IsFiniteSet(Ids) /\ Cardinality(Ids) = N
  BY <1>3, <1>4, <1>5, FS_Surjection
<1>7. ASSUME NEW p \in Ids
      PROVE  Place(Policies, p) \in DOMAIN Policies /\ Policies[Place(Policies, p)] = p
  BY DEF Place, Ids, Range
<1> QED BY <1>1, <1>6, <1>7

LEMMA RankingFacts ==
    ASSUME NEW ranking \in Rankings
    PROVE  /\ ranking \in Seq(Ids) /\ Len(ranking) <= Len(Policies)
           /\ Range(ranking) \in SUBSET Ids
           /\ \A a, b \in DOMAIN ranking : ranking[a] = ranking[b] => a = b
           /\ \A p \in Range(ranking) : /\ Place(ranking, p) \in 1 .. Len(ranking)
                                        /\ ranking[Place(ranking, p)] = p
<1>1. PICK m \in 0 .. Len(Policies) : ranking \in [1 .. m -> Ids]
  BY DEF Rankings, SeqOf, Ids
<1>2. ranking \in Seq(Ids) /\ Len(ranking) = m /\ DOMAIN ranking = 1 .. m
  BY <1>1, PoliciesAreFinite
<1>3. Len(ranking) <= Len(Policies)
  BY <1>1, <1>2, PoliciesAreFinite
<1>4. \A a, b \in DOMAIN ranking : ranking[a] = ranking[b] => a = b
  BY DEF Rankings, IsInjective
<1>5. Range(ranking) \in SUBSET Ids
  BY <1>1, <1>2 DEF Range
<1>6. ASSUME NEW p \in Range(ranking)
      PROVE  Place(ranking, p) \in DOMAIN ranking /\ ranking[Place(ranking, p)] = p
  BY DEF Place, Range
<1> QED BY <1>2, <1>3, <1>4, <1>5, <1>6

\* A full ranking has every policy.
LEMMA FullRankingFacts ==
    ASSUME NEW ranking \in FullRankings
    PROVE  ranking \in Rankings /\ Range(ranking) = Ids
<1> DEFINE N == Len(Policies)
<1>1. ranking \in Rankings /\ Len(ranking) = N
  BY DEF FullRankings
<1>2. ranking \in [1 .. N -> Ids] /\ ranking \in Injection(1 .. N, Ids)
  BY <1>1, RankingFacts DEF Injection, IsInjective
<1>3. IsFiniteSet(Ids) /\ Cardinality(1 .. N) = Cardinality(Ids)
  BY PoliciesAreFinite, FS_Interval
<1>4. ranking \in Surjection(1 .. N, Ids)
  BY <1>2, <1>3, FS_Injection
<1>5. Range(ranking) = Ids
  BY <1>2, <1>4 DEF Surjection, Range
<1> QED BY <1>1, <1>5

\* What retrieve_with_ids fuses: one ranking, or two.
Fusible == {rankings \in Seq(Rankings) : Len(rankings) \in {1, 2}}

LEMMA ScoreIsFraction ==
    ASSUME NEW rankings \in Fusible, NEW p
    PROVE  /\ Score(rankings, p)[1] \in Nat
           /\ Score(rankings, p)[2] \in Nat \ {0}
<1> DEFINE In == {n \in DOMAIN rankings : p \in Range(rankings[n])}
           At(n) == RankConstant + Place(rankings[n], p)
<1>1. DOMAIN rankings \in {{1}, {1, 2}} /\ \A n \in DOMAIN rankings : rankings[n] \in Rankings
  BY DEF Fusible
<1>2. \A n \in In : At(n) \in Nat \ {0}
  <2> SUFFICES ASSUME NEW n \in In PROVE At(n) \in Nat \ {0}
    OBVIOUS
  <2>1. rankings[n] \in Rankings /\ p \in Range(rankings[n])
    BY <1>1
  <2>2. Place(rankings[n], p) \in Nat
    BY <2>1, RankingFacts
  <2> QED BY <2>2 DEF RankConstant
<1>3. In \in {{}, {1}, {2}, {1, 2}}
  BY <1>1
<1>4. Score(rankings, p) = CASE In = {} -> <<0, 1>>
          [] In = {1} -> <<1, At(1)>>
          [] In = {2} -> <<1, At(2)>>
          [] In = {1, 2} -> <<At(1) + At(2), At(1) * At(2)>>
  BY DEF Score
<1> HIDE DEF In, At
<1>5. CASE In = {}
  BY <1>4, <1>5
<1>6. CASE In = {1}
  BY <1>2, <1>4, <1>6
<1>7. CASE In = {2}
  BY <1>2, <1>4, <1>7
<1>8. CASE In = {1, 2}
  <2>1. Score(rankings, p) = <<At(1) + At(2), At(1) * At(2)>>
    BY <1>4, <1>8
  <2>2. At(1) \in Nat \ {0} /\ At(2) \in Nat \ {0}
    BY <1>2, <1>8
  <2>3. At(1) + At(2) \in Nat /\ At(1) * At(2) \in Nat \ {0}
    BY <2>2
  <2> QED BY <2>1, <2>3
<1> QED BY <1>3, <1>5, <1>6, <1>7, <1>8

\* Comparing fractions by cross-multiplication is transitive.
LEMMA FractionsAreOrdered ==
    ASSUME NEW a \in Nat, NEW b \in Nat \ {0}, NEW c \in Nat, NEW d \in Nat \ {0},
           NEW e \in Nat, NEW f \in Nat \ {0},
           a * d >= c * b, c * f >= e * d
    PROVE  /\ a * f >= e * b
           /\ a * d > c * b \/ c * f > e * d => a * f > e * b
<1>1. ASSUME NEW x \in Int, NEW y \in Int, NEW k \in Nat \ {0}
      PROVE  (x * k >= y * k <=> x >= y) /\ (x * k > y * k <=> x > y)
  <2>1. x >= y => x * k >= y * k
    OBVIOUS
  <2>2. x > y => x * k > y * k
    OBVIOUS
  <2>3. x * k \in Int /\ y * k \in Int
    OBVIOUS
  <2> QED BY <2>1, <2>2, <2>3
<1>2. /\ a * d \in Nat /\ c * b \in Nat /\ c * f \in Nat /\ e * d \in Nat
      /\ a * f \in Nat /\ e * b \in Nat
  OBVIOUS
<1>3. (a * d) * f >= (c * b) * f /\ (c * f) * b >= (e * d) * b
  BY <1>1, <1>2
<1>4. a * d > c * b => (a * d) * f > (c * b) * f
  BY <1>1, <1>2
<1>5. c * f > e * d => (c * f) * b > (e * d) * b
  BY <1>1, <1>2
<1>6. /\ (a * d) * f = (a * f) * d /\ (c * b) * f = (c * f) * b /\ (e * d) * b = (e * b) * d
      /\ (a * f) * d \in Nat /\ (c * f) * b \in Nat /\ (e * b) * d \in Nat
  BY <1>2
<1>7. (a * f) * d >= (e * b) * d
  BY <1>3, <1>6
<1>8. a * d > c * b \/ c * f > e * d => (a * f) * d > (e * b) * d
  BY <1>3, <1>4, <1>5, <1>6
<1> QED BY <1>1, <1>2, <1>7, <1>8

\* Precedes orders the policies strictly and totally.
LEMMA PrecedesIsOrder ==
    ASSUME NEW rankings \in Fusible, NEW p \in Ids, NEW q \in Ids, NEW t \in Ids
    PROVE  /\ ~ Precedes(rankings, p, p)
           /\ p # q => Precedes(rankings, p, q) \/ Precedes(rankings, q, p)
           /\ Precedes(rankings, p, q) /\ Precedes(rankings, q, t) => Precedes(rankings, p, t)
<1> DEFINE a == Score(rankings, p)
           b == Score(rankings, q)
           c == Score(rankings, t)
           i == Place(Policies, p)
           j == Place(Policies, q)
           k == Place(Policies, t)
<1>1. /\ a[1] \in Nat /\ a[2] \in Nat \ {0}
      /\ b[1] \in Nat /\ b[2] \in Nat \ {0}
      /\ c[1] \in Nat /\ c[2] \in Nat \ {0}
  BY ScoreIsFraction
<1>2. /\ i \in Nat /\ j \in Nat /\ k \in Nat
      /\ p # q => i # j
  BY PoliciesAreFinite
<1>3. /\ Precedes(rankings, p, p) <=> \/ a[1] * a[2] > a[1] * a[2]
                                      \/ (a[1] * a[2] = a[1] * a[2] /\ i < i)
      /\ Precedes(rankings, p, q) <=> \/ a[1] * b[2] > b[1] * a[2]
                                      \/ (a[1] * b[2] = b[1] * a[2] /\ i < j)
      /\ Precedes(rankings, q, p) <=> \/ b[1] * a[2] > a[1] * b[2]
                                      \/ (b[1] * a[2] = a[1] * b[2] /\ j < i)
      /\ Precedes(rankings, q, t) <=> \/ b[1] * c[2] > c[1] * b[2]
                                      \/ (b[1] * c[2] = c[1] * b[2] /\ j < k)
      /\ Precedes(rankings, p, t) <=> \/ a[1] * c[2] > c[1] * a[2]
                                      \/ (a[1] * c[2] = c[1] * a[2] /\ i < k)
  BY DEF Precedes
<1> HIDE DEF a, b, c, i, j, k
<1>4. /\ a[1] * b[2] \in Nat /\ b[1] * a[2] \in Nat /\ a[1] * a[2] \in Nat
      /\ b[1] * c[2] \in Nat /\ c[1] * b[2] \in Nat
      /\ a[1] * c[2] \in Nat /\ c[1] * a[2] \in Nat
  BY <1>1
<1>5. ~ Precedes(rankings, p, p)
  BY <1>2, <1>3, <1>4
<1>6. p # q => Precedes(rankings, p, q) \/ Precedes(rankings, q, p)
  BY <1>2, <1>3, <1>4
<1>7. ASSUME Precedes(rankings, p, q), Precedes(rankings, q, t)
      PROVE  Precedes(rankings, p, t)
  <2>1. a[1] * b[2] >= b[1] * a[2] /\ b[1] * c[2] >= c[1] * b[2]
    BY <1>3, <1>4, <1>7
  <2>2. /\ a[1] * c[2] >= c[1] * a[2]
        /\ a[1] * b[2] > b[1] * a[2] \/ b[1] * c[2] > c[1] * b[2]
              => a[1] * c[2] > c[1] * a[2]
    BY <1>1, <2>1, FractionsAreOrdered
  <2>3. CASE a[1] * b[2] > b[1] * a[2] \/ b[1] * c[2] > c[1] * b[2]
    BY <1>3, <2>2, <2>3
  <2>4. CASE ~ (a[1] * b[2] > b[1] * a[2]) /\ ~ (b[1] * c[2] > c[1] * b[2])
    <3>1. i < j /\ j < k
      BY <1>3, <1>7, <2>4
    <3>2. i < k
      BY <1>2, <3>1
    <3>3. a[1] * c[2] > c[1] * a[2] \/ a[1] * c[2] = c[1] * a[2]
      BY <1>4, <2>2
    <3> QED BY <1>3, <3>2, <3>3
  <2> QED BY <2>3, <2>4
<1> QED BY <1>5, <1>6, <1>7

\* Those that come before a policy.
Before(rankings, p) == {q \in Ids : Precedes(rankings, q, p)}

\* A policy's rank says how far down it is: whoever comes first has the lower one.
LEMMA RankOrders ==
    ASSUME NEW rankings \in Fusible, NEW p \in Ids
    PROVE  /\ Rank(rankings, p) \in 0 .. Len(Policies) - 1
           /\ \A q \in Ids : Precedes(rankings, q, p) => Rank(rankings, q) < Rank(rankings, p)
           /\ \A q \in Ids : Rank(rankings, q) = Rank(rankings, p) => q = p
<1>1. \A q \in Ids : Rank(rankings, q) = Cardinality(Before(rankings, q))
  BY DEF Rank, Before, Ids
<1>2. \A q \in Ids : /\ IsFiniteSet(Before(rankings, q))
                     /\ Before(rankings, q) \in SUBSET Ids
                     /\ Cardinality(Before(rankings, q)) \in Nat
  <2> SUFFICES ASSUME NEW q \in Ids
               PROVE  /\ IsFiniteSet(Before(rankings, q))
                      /\ Before(rankings, q) \in SUBSET Ids
                      /\ Cardinality(Before(rankings, q)) \in Nat
    OBVIOUS
  <2>1. Before(rankings, q) \in SUBSET Ids
    BY DEF Before
  <2> QED BY <2>1, PoliciesAreFinite, FS_Subset, FS_CardinalityType
<1>3. ASSUME NEW q \in Ids, NEW t \in Ids, Precedes(rankings, q, t)
      PROVE  Rank(rankings, q) < Rank(rankings, t)
  <2>1. Before(rankings, q) \in SUBSET Before(rankings, t)
    BY <1>3, PrecedesIsOrder DEF Before
  <2>2. q \in Before(rankings, t) /\ q \notin Before(rankings, q)
    BY <1>3, PrecedesIsOrder DEF Before
  <2>3. /\ Cardinality(Before(rankings, q)) <= Cardinality(Before(rankings, t))
        /\ Cardinality(Before(rankings, q)) # Cardinality(Before(rankings, t))
    BY <1>2, <2>1, <2>2, FS_Subset
  <2> QED BY <1>1, <1>2, <2>3
<1>4. Rank(rankings, p) \in 0 .. Len(Policies) - 1
  <2>1. p \notin Before(rankings, p)
    BY PrecedesIsOrder DEF Before
  <2>2. /\ Cardinality(Before(rankings, p)) <= Cardinality(Ids)
        /\ Cardinality(Before(rankings, p)) # Cardinality(Ids)
    BY <1>2, <2>1, PoliciesAreFinite, FS_Subset
  <2> QED BY <1>1, <1>2, <2>2, PoliciesAreFinite
<1>5. ASSUME NEW q \in Ids, Rank(rankings, q) = Rank(rankings, p)
      PROVE  q = p
  <2>1. Rank(rankings, p) \in Nat
    BY <1>4, PoliciesAreFinite
  <2>2. ~ Precedes(rankings, q, p) /\ ~ Precedes(rankings, p, q)
    BY <1>3, <1>5, <2>1
  <2> QED BY <2>2, PrecedesIsOrder
<1> QED BY <1>3, <1>4, <1>5

\* Fuse has at each of its places the one policy of that rank.
LEMMA FuseSorts ==
    ASSUME NEW rankings \in Fusible
    PROVE  /\ DOMAIN Fuse(rankings) = (1 .. TopK) \cap DOMAIN Policies
           /\ \A n \in DOMAIN Fuse(rankings) :
                 /\ Fuse(rankings)[n] \in Ids
                 /\ Rank(rankings, Fuse(rankings)[n]) = n - 1
                 /\ \A p \in Ids : Rank(rankings, p) = n - 1 => p = Fuse(rankings)[n]
<1> DEFINE N == Len(Policies)
           rank == [p \in Ids |-> Rank(rankings, p)]
<1>1. rank \in Injection(Ids, 0 .. N - 1)
  BY RankOrders DEF Injection, IsInjective
<1>2. /\ IsFiniteSet(Ids) /\ IsFiniteSet(0 .. N - 1)
      /\ Cardinality(Ids) = Cardinality(0 .. N - 1)
  <2>1. N \in Nat /\ N > 0 /\ IsFiniteSet(Ids) /\ Cardinality(Ids) = N
    BY PoliciesAreFinite
  <2>2. IsFiniteSet(0 .. N - 1) /\ Cardinality(0 .. N - 1) = N
    <3> HIDE DEF N
    <3>1. N - 1 \in Int /\ ~ (0 > N - 1) /\ (N - 1) - 0 + 1 = N
      BY <2>1
    <3> QED BY <3>1, FS_Interval
  <2> QED BY <2>1, <2>2
<1>3. rank \in Surjection(Ids, 0 .. N - 1)
  <2> HIDE DEF rank
  <2> QED BY <1>1, <1>2, FS_Injection
<1>4. \A k \in 0 .. N - 1 : \E p \in Ids : Rank(rankings, p) = k
  BY <1>3 DEF Surjection
<1>5. DOMAIN Fuse(rankings) = (1 .. TopK) \cap DOMAIN Policies
  BY DEF Fuse
<1>6. ASSUME NEW n \in DOMAIN Fuse(rankings)
      PROVE  /\ Fuse(rankings)[n] \in Ids
             /\ Rank(rankings, Fuse(rankings)[n]) = n - 1
  <2>1. n - 1 \in 0 .. N - 1
    BY <1>5, PoliciesAreFinite
  <2>2. Fuse(rankings)[n] = CHOOSE policy \in Ids : Rank(rankings, policy) = n - 1
    BY <1>5 DEF Fuse, Ids
  <2> QED BY <1>4, <2>1, <2>2
<1> QED BY <1>5, <1>6, RankOrders

\* What rank fusion returns is what a sort by score, stable in the order of
\* POLICIES, would put first: its places are in that order, and no policy that is
\* left out comes before one that is not (context.py:107-113).
THEOREM FusionSorts ==
    ASSUME NEW rankings \in Fusible
    PROVE  LET best == Fuse(rankings) IN
           /\ \A m, n \in DOMAIN best : m < n => Precedes(rankings, best[m], best[n])
           /\ \A n \in DOMAIN best, p \in Ids \ Range(best) : Precedes(rankings, best[n], p)
<1> DEFINE F == Fuse(rankings)
<1>1. DOMAIN F = (1 .. TopK) \cap (1 .. Len(Policies)) /\ Len(Policies) \in Nat
  BY FuseSorts, PoliciesAreFinite
<1>2. \A n \in DOMAIN F : /\ F[n] \in Ids /\ Rank(rankings, F[n]) = n - 1
                         /\ \A p \in Ids : Rank(rankings, p) = n - 1 => p = F[n]
  BY FuseSorts
<1>3. ASSUME NEW p \in Ids, NEW q \in Ids
      PROVE  /\ Rank(rankings, p) \in Nat /\ Rank(rankings, p) < Len(Policies)
             /\ Precedes(rankings, p, q) => Rank(rankings, p) < Rank(rankings, q)
             /\ p # q => Precedes(rankings, p, q) \/ Precedes(rankings, q, p)
  <2>1. Rank(rankings, p) \in 0 .. Len(Policies) - 1
    BY RankOrders
  <2> QED BY <1>1, <2>1, RankOrders, PrecedesIsOrder
<1> HIDE DEF F
<1>4. ASSUME NEW m \in DOMAIN F, NEW n \in DOMAIN F, m < n
      PROVE  Precedes(rankings, F[m], F[n])
  <2>1. /\ F[m] \in Ids /\ F[n] \in Ids /\ m \in Nat /\ n \in Nat
        /\ Rank(rankings, F[m]) = m - 1 /\ Rank(rankings, F[n]) = n - 1
    BY <1>1, <1>2
  <2>2. m - 1 < n - 1 /\ ~ (n - 1 < m - 1) /\ m - 1 # n - 1
    BY <1>4, <2>1
  <2> QED BY <1>3, <2>1, <2>2
<1>5. ASSUME NEW n \in DOMAIN F, NEW p \in Ids \ Range(F)
      PROVE  Precedes(rankings, F[n], p)
  <2>1. F[n] \in Ids /\ F[n] # p /\ Rank(rankings, F[n]) = n - 1 /\ n \in 1 .. TopK
    BY <1>1, <1>2 DEF Range
  <2>2. SUFFICES ASSUME Precedes(rankings, p, F[n]) PROVE FALSE
    BY <1>3, <2>1
  <2> DEFINE k == Rank(rankings, p) + 1
  <2>3. k \in Nat /\ k < n /\ 1 <= k /\ k <= Len(Policies) /\ Rank(rankings, p) = k - 1
    BY <1>1, <1>3, <2>1, <2>2
  <2>4. k \in DOMAIN F
    BY <1>1, <2>1, <2>3 DEF TopK
  <2>5. p = F[k]
    BY <1>2, <2>3, <2>4
  <2> QED BY <2>4, <2>5 DEF Range
<1> QED BY <1>4, <1>5 DEF F

LEMMA FuseIsEvidence ==
    ASSUME NEW rankings \in Fusible
    PROVE  Fuse(rankings) \in SeqOf(Ids, TopK) /\ Fuse(rankings) # <<>>
<1> DEFINE F == Fuse(rankings)
           m == IF Len(Policies) < TopK THEN Len(Policies) ELSE TopK
<1>1. /\ DOMAIN Policies = 1 .. Len(Policies) /\ Len(Policies) \in Nat /\ Len(Policies) > 0
  BY PoliciesAreFinite
<1>2. m \in 1 .. TopK /\ (1 .. TopK) \cap DOMAIN Policies = 1 .. m
  BY <1>1 DEF TopK
<1>3. F \in [1 .. m -> Ids]
  <2>1. F = [n \in 1 .. m |-> F[n]]
    BY <1>2 DEF Fuse
  <2>2. \A n \in 1 .. m : F[n] \in Ids
    BY <1>2, FuseSorts
  <2> HIDE DEF F, m
  <2> QED BY <2>1, <2>2
<1> HIDE DEF F, m
<1>4. m \in 0 .. TopK
  BY <1>2 DEF TopK
<1>5. F \in SeqOf(Ids, TopK)
  BY <1>3, <1>4 DEF SeqOf
<1>6. F # <<>>
  BY <1>2, <1>3 DEF TopK
<1> QED BY <1>5, <1>6 DEF F

\* So many policies that a policy in both rankings still beats one that is
\* first in the lexical ranking only: 1/(59 + n) + 1/(60 + n) > 1/61 up to here.
MostPolicies == 62

LEMMA QualifiedPrecede ==
    ASSUME Len(Policies) <= MostPolicies,
           NEW semantic \in Rankings, NEW lexical \in FullRankings,
           NEW p \in Range(semantic), NEW q \in Ids \ Range(semantic)
    PROVE  /\ <<semantic, lexical>> \in Fusible
           /\ Precedes(<<semantic, lexical>>, p, q)
<1> DEFINE rankings == <<semantic, lexical>>
           u == RankConstant + Place(semantic, p)
           v == RankConstant + Place(lexical, p)
           w == RankConstant + Place(lexical, q)
<1>1. lexical \in Rankings /\ Range(lexical) = Ids /\ p \in Ids
  BY FullRankingFacts, RankingFacts
<1>2. rankings \in Fusible
  BY <1>1 DEF Fusible
<1>3. Len(semantic) \in Nat /\ Len(semantic) < Len(Policies)
  <2>1. Len(semantic) # Len(Policies)
    <3> SUFFICES ASSUME Len(semantic) = Len(Policies) PROVE FALSE
      OBVIOUS
    <3>1. semantic \in FullRankings
      BY DEF FullRankings
    <3> QED BY <3>1, FullRankingFacts
  <2> QED BY <2>1, RankingFacts, PoliciesAreFinite
<1>4. /\ u \in Int /\ 61 <= u /\ u <= 121
      /\ v \in Int /\ 61 <= v /\ v <= 122
      /\ w \in Int /\ 61 <= w
  <2>1. Place(semantic, p) \in 1 .. Len(semantic)
    BY RankingFacts
  <2>2. Place(lexical, p) \in 1 .. Len(lexical) /\ Place(lexical, q) \in 1 .. Len(lexical)
    BY <1>1, RankingFacts
  <2>3. Len(lexical) = Len(Policies) /\ Len(Policies) \in Nat /\ Len(Policies) <= 62
    BY PoliciesAreFinite DEF FullRankings, MostPolicies
  <2> QED BY <1>3, <2>1, <2>2, <2>3 DEF RankConstant
<1>5. Score(rankings, p) = <<u + v, u * v>>
  <2>1. {n \in DOMAIN rankings : p \in Range(rankings[n])} = {1, 2}
    BY <1>1
  <2> QED BY <2>1 DEF Score
<1>6. Score(rankings, q) = <<1, w>>
  <2>1. {n \in DOMAIN rankings : q \in Range(rankings[n])} = {2}
    BY <1>1
  <2> QED BY <2>1 DEF Score
<1>7. (u + v) * w > 1 * (u * v)
  <2> HIDE DEF u, v, w
  <2>1. (u + v) * w >= (u + v) * 61
    BY <1>4
  <2>2. (u - 61) * (v - 61) <= 60 * 61
    <3>1. (u - 61) * (v - 61) <= 60 * (v - 61)
      BY <1>4
    <3> QED BY <1>4, <3>1
  <2>3. (u - 61) * (v - 61) = u * v - (u + v) * 61 + 3721 /\ u * v \in Int /\ (u + v) * w \in Int
    BY <1>4
  <2> QED BY <1>4, <2>1, <2>2, <2>3
<1>8. Precedes(rankings, p, q)
  <2> HIDE DEF rankings, u, v, w
  <2> QED BY <1>5, <1>6, <1>7 DEF Precedes
<1> QED BY <1>2, <1>8

---------------------------------------------------------------------------
(* The invariants of a run.                                                *)

\* What is retrieved is evidence, and is ordered.
LEMMA RetrievedIsEvidence ==
    ASSUME NEW semantic \in Rankings, NEW lexical \in FullRankings
    PROVE  Retrieved(semantic, lexical) \in SeqOf(Ids, TopK)
<1>1. <<lexical>> \in Fusible /\ <<semantic, lexical>> \in Fusible
  BY FullRankingFacts DEF Fusible
<1>2. Fuse(<<lexical>>) \in SeqOf(Ids, TopK) /\ Fuse(<<semantic, lexical>>) \in SeqOf(Ids, TopK)
  BY <1>1, FuseIsEvidence
<1>3. <<>> \in SeqOf(Ids, TopK)
  <2>1. <<>> \in [1 .. 0 -> Ids] /\ 0 \in 0 .. TopK
    BY DEF TopK
  <2> QED BY <2>1 DEF SeqOf
<1> QED BY <1>2, <1>3 DEF Retrieved

LEMMA EvidenceRange ==
    ASSUME NEW found \in SeqOf(Ids, TopK)
    PROVE  Range(found) \in SUBSET Ids
<1>1. PICK m \in 0 .. TopK : found \in [1 .. m -> Ids]
  BY DEF SeqOf
<1> QED BY <1>1 DEF Range

LEMMA RetrieveTyped ==
    ASSUME NEW semantic \in Rankings, NEW lexical \in FullRankings,
           Retrieve(semantic, lexical), TypeOK
    PROVE  TypeOK'
<1> DEFINE found == Retrieved(semantic, lexical)
<1>1. found \in SeqOf(Range(Policies), TopK)
  BY RetrievedIsEvidence DEF Ids
<1>2. Range(found) \in SUBSET Range(Policies) /\ Range(semantic) \in SUBSET Range(Policies)
  BY <1>1, EvidenceRange, RankingFacts DEF Ids
<1> HIDE DEF found
<1>3. CASE Supply(found, semantic)
  <2>1. qualified' \in SUBSET Range(Policies)
    BY <1>2, <1>3 DEF Supply
  <2> QED BY <1>1, <1>3, <2>1 DEF Supply, NextStage, TypeOK, Stages, Queries
<1>4. CASE FallBack
  BY <1>4 DEF FallBack, TypeOK, Queries
<1>5. CASE Fail("AgentProtocolError") /\ UNCHANGED chats
  BY <1>5 DEF Fail, evidence, TypeOK, Outcomes, Errors
<1> QED BY <1>3, <1>4, <1>5 DEF Retrieve, found

LEMMA DecideTyped ==
    ASSUME NEW decision \in Decision, Decide(decision), TypeOK
    PROVE  TypeOK'
<1>1. CASE Acceptable(decision)
  <2>1. cited' \in SUBSET Range(Policies)
    <3>1. cited' \in SUBSET Range(policies)
      BY <1>1 DEF Decide, Cited
    <3>2. Range(policies) \in SUBSET Range(Policies)
      BY EvidenceRange DEF TypeOK, Ids
    <3> QED BY <3>1, <3>2
  <2>2. decision.query \in Queries /\ decision.action \in AgentActions /\ "none" \in Queries
    BY DEF Decision, Queries
  <2>3. pc' \in {"retrieve", "match", "route"}
    BY <1>1 DEF Decide, TypeOK, Stages
  <2>4. /\ query' \in Queries /\ requested' \in AgentActions /\ chats' = 0
        /\ qualified' = {} /\ input' = {}
        /\ UNCHANGED <<stage, index, policies, matched, outcome>>
    BY <1>1, <2>2 DEF Decide
  <2> QED BY <2>1, <2>3, <2>4 DEF TypeOK
<1>2. CASE ~ Acceptable(decision)
  BY <1>2 DEF Decide, Fail, evidence, TypeOK, Outcomes, Errors
<1> QED BY <1>1, <1>2

LEMMA NextTyped ==
    ASSUME [Next]_vars, TypeOK
    PROVE  TypeOK'
<1>1. CASE \E error \in Errors : ChatFails(error)
  BY <1>1 DEF ChatFails, Fail, evidence, TypeOK, Outcomes, Errors
<1>2. CASE Malformed
  BY <1>2 DEF Malformed, Fail, evidence, TypeOK, Outcomes, Errors
<1>3. CASE \E decision \in Decision : Decide(decision)
  BY <1>3, DecideTyped
<1>4. CASE \E semantic \in Rankings, lexical \in FullRankings : Retrieve(semantic, lexical)
  BY <1>4, RetrieveTyped
<1>5. CASE RetrievalFails
  BY <1>5 DEF RetrievalFails, Fail, evidence, TypeOK, Outcomes, Errors
<1>6. CASE \E given \in Inputs : Match(given)
  BY <1>6 DEF Match, NextStage, evidence, TypeOK, Stages
<1>7. CASE LookupFails
  BY <1>7 DEF LookupFails, Fail, evidence, TypeOK, Outcomes, Errors
<1>8. CASE \E settings \in Settings : Route(settings)
  BY <1>8 DEF Route, evidence, TypeOK, Outcomes
<1>9. CASE UNCHANGED vars
  BY <1>9 DEF vars, evidence, TypeOK
<1> QED
  BY <1>1, <1>2, <1>3, <1>4, <1>5, <1>6, <1>7, <1>8, <1>9 DEF Next, Terminated

LEMMA InitTyped == Init => TypeOK
<1>1. <<>> \in SeqOf(Range(Policies), TopK)
  <2>1. <<>> \in [1 .. 0 -> Range(Policies)] /\ 0 \in 0 .. TopK
    BY DEF TopK
  <2> QED BY <2>1 DEF SeqOf
<1> SUFFICES ASSUME Init PROVE TypeOK
  OBVIOUS
<1>2. index \in BOOLEAN /\ matched \in BOOLEAN
  BY DEF Init
<1>3. policies \in SeqOf(Range(Policies), TopK)
  BY <1>1 DEF Init
<1> QED BY <1>2, <1>3 DEF Init, TypeOK, Stages, Queries, AgentActions, Outcomes

\* Every state of a run is of its types: in particular what rank fusion
\* returns is a sequence of at most two policies, and an agent cites policies
\* of the corpus only (context.py:107-113, agent_runtime.py:294-297).
THEOREM RunIsTyped == Spec => []TypeOK
<1>1. TypeOK /\ [Next]_vars => TypeOK'
  BY NextTyped
<1> QED BY InitTyped, <1>1, PTL DEF Spec

LEMMA RetrieveKeepsQualifiedFirst ==
    ASSUME Len(Policies) <= MostPolicies,
           NEW semantic \in Rankings, NEW lexical \in FullRankings,
           Retrieve(semantic, lexical), TypeOK, QualifiedFirst
    PROVE  QualifiedFirst'
<1> DEFINE found == Retrieved(semantic, lexical)
<1>1. CASE found # <<>> /\ Supply(found, semantic)
  <2>1. policies' = found /\ qualified' = IF index THEN Range(semantic) ELSE Range(found)
    BY <1>1 DEF Supply
  <2>2. CASE ~ index
    <3>1. \A n \in DOMAIN found : found[n] \in qualified'
      BY <2>1, <2>2 DEF Range
    <3> QED BY <2>1, <3>1 DEF QualifiedFirst
  <2>3. CASE index
    <3> DEFINE rankings == <<semantic, lexical>>
    <3>1. found = Fuse(rankings) /\ qualified' = Range(semantic)
      BY <1>1, <2>1, <2>3 DEF Retrieved
    <3>2. rankings \in Fusible
      BY FullRankingFacts DEF Fusible
    <3> HIDE DEF found, rankings
    <3>3. ASSUME NEW n \in DOMAIN found, found[n] \notin qualified', NEW p \in qualified'
          PROVE  \E k \in 1 .. n - 1 : p = found[k]
      <4>1. /\ n \in (1 .. TopK) \cap DOMAIN Policies
            /\ found[n] \in Ids /\ Rank(rankings, found[n]) = n - 1
        BY <3>1, <3>2, <3>3, FuseSorts
      <4>2. p \in Ids /\ Precedes(rankings, p, found[n])
        BY <3>1, <3>3, <4>1, QualifiedPrecede, RankingFacts DEF rankings
      <4>3. Rank(rankings, p) \in Nat /\ Rank(rankings, p) < n - 1
        BY <3>2, <4>1, <4>2, RankOrders, PoliciesAreFinite
      <4> DEFINE k == Rank(rankings, p) + 1
      <4>4. k \in 1 .. n - 1 /\ Rank(rankings, p) = k - 1
        BY <4>1, <4>3
      <4>5. k \in DOMAIN found
        <5>1. k \in (1 .. TopK) \cap DOMAIN Policies
          BY <4>1, <4>4, PoliciesAreFinite DEF TopK
        <5> QED BY <3>1, <3>2, <5>1, FuseSorts
      <4>6. p = found[k]
        BY <3>1, <3>2, <4>2, <4>4, <4>5, FuseSorts
      <4> QED BY <4>4, <4>6
    <3>4. \A n \in DOMAIN found :
            \/ found[n] \in qualified'
            \/ qualified' \subseteq {found[k] : k \in 1 .. n - 1}
      BY <3>3
    <3> QED BY <2>1, <3>4 DEF QualifiedFirst, found
  <2> QED BY <2>2, <2>3
<1>2. CASE FallBack
  BY <1>2 DEF FallBack, QualifiedFirst
<1>3. CASE Fail("AgentProtocolError")
  BY <1>3 DEF Fail, evidence, QualifiedFirst
<1> QED BY <1>1, <1>2, <1>3 DEF Retrieve

LEMMA NextKeepsQualifiedFirst ==
    ASSUME Len(Policies) <= MostPolicies, [Next]_vars, TypeOK, QualifiedFirst
    PROVE  QualifiedFirst'
<1>1. CASE \E error \in Errors : ChatFails(error)
  BY <1>1 DEF ChatFails, Fail, evidence, QualifiedFirst
<1>2. CASE Malformed
  BY <1>2 DEF Malformed, Fail, evidence, QualifiedFirst
<1>3. CASE \E decision \in Decision : Decide(decision)
  <2>1. qualified' = {} \/ UNCHANGED <<policies, qualified>>
    BY <1>3 DEF Decide, Fail, evidence
  <2> QED BY <2>1 DEF QualifiedFirst
<1>4. CASE \E semantic \in Rankings, lexical \in FullRankings : Retrieve(semantic, lexical)
  BY <1>4, RetrieveKeepsQualifiedFirst
<1>5. CASE RetrievalFails
  BY <1>5 DEF RetrievalFails, Fail, evidence, QualifiedFirst
<1>6. CASE \E given \in Inputs : Match(given)
  BY <1>6 DEF Match, evidence, QualifiedFirst
<1>7. CASE LookupFails
  BY <1>7 DEF LookupFails, Fail, evidence, QualifiedFirst
<1>8. CASE \E settings \in Settings : Route(settings)
  BY <1>8 DEF Route, evidence, QualifiedFirst
<1>9. CASE UNCHANGED vars
  BY <1>9 DEF vars, evidence, QualifiedFirst
<1> QED
  BY <1>1, <1>2, <1>3, <1>4, <1>5, <1>6, <1>7, <1>8, <1>9 DEF Next, Terminated

\* Rank fusion never lets a policy below the similarity threshold displace one
\* that meets it, in a corpus of at most 62 policies: beyond, the last of both
\* rankings loses to the first of the lexical one (context.py:83-113).
THEOREM FusionPutsQualifiedFirst ==
    ASSUME Len(Policies) <= MostPolicies
    PROVE  Spec => []QualifiedFirst
<1>1. Init => QualifiedFirst
  BY DEF Init, QualifiedFirst
<1>2. QualifiedFirst /\ TypeOK /\ [Next]_vars => QualifiedFirst'
  BY NextKeepsQualifiedFirst
<1> QED BY RunIsTyped, <1>1, <1>2, PTL DEF Spec

\* The result of the match belongs to what was matched.
ResultInv ==
    \A given \in input :
        matched = (Variances(given.invoice, given.po, given.receipt, given.duplicate) = {})

LEMMA NextKeepsResult ==
    ASSUME [Next]_vars, ResultInv
    PROVE  ResultInv'
<1>1. CASE \E error \in Errors : ChatFails(error)
  BY <1>1 DEF ChatFails, Fail, ResultInv
<1>2. CASE Malformed
  BY <1>2 DEF Malformed, Fail, ResultInv
<1>3. CASE \E decision \in Decision : Decide(decision)
  <2>1. input' = {} \/ UNCHANGED <<input, matched>>
    BY <1>3 DEF Decide, Fail
  <2> QED BY <2>1 DEF ResultInv
<1>4. CASE \E semantic \in Rankings, lexical \in FullRankings : Retrieve(semantic, lexical)
  <2>1. UNCHANGED <<input, matched>>
    BY <1>4 DEF Retrieve, Supply, FallBack, Fail
  <2> QED BY <2>1 DEF ResultInv
<1>5. CASE RetrievalFails
  BY <1>5 DEF RetrievalFails, Fail, ResultInv
<1>6. CASE \E given \in Inputs : Match(given)
  BY <1>6 DEF Match, ResultInv
<1>7. CASE LookupFails
  BY <1>7 DEF LookupFails, Fail, ResultInv
<1>8. CASE \E settings \in Settings : Route(settings)
  BY <1>8 DEF Route, ResultInv
<1>9. CASE UNCHANGED vars
  BY <1>9 DEF vars, ResultInv
<1> QED
  BY <1>1, <1>2, <1>3, <1>4, <1>5, <1>6, <1>7, <1>8, <1>9 DEF Next, Terminated

LEMMA ResultBelongs == Spec => [](ResultInv /\ TypeOK)
<1>1. Init => ResultInv
  BY DEF Init, ResultInv
<1>2. ResultInv /\ [Next]_vars => ResultInv'
  BY NextKeepsResult
<1> QED BY RunIsTyped, <1>1, <1>2, PTL DEF Spec

\* The result of a match does not depend on the order of the lines, when each
\* names its PO line, whatever the invoice and the order are
\* (matching.py:144-195).
THEOREM LineOrderNeverMatters == Spec => []LineOrderIrrelevant
<1>1. ResultInv /\ TypeOK => LineOrderIrrelevant
  <2> SUFFICES ASSUME ResultInv, TypeOK, NEW given \in input,
                      \A n \in DOMAIN given.invoice.lines : given.invoice.lines[n].poLine # 0
               PROVE  matched = (Variances([given.invoice EXCEPT !.lines = Reverse(@)],
                                           given.po, given.receipt, given.duplicate) = {})
    BY DEF LineOrderIrrelevant
  <2>1. /\ given.invoice \in Invoice
        /\ \A po \in given.po : po \in PurchaseOrder /\ IsFiniteSet(po.lines)
    BY RunConstants DEF TypeOK
  <2>2. Variances(Flipped(given.invoice), given.po, given.receipt, given.duplicate)
          = Variances(given.invoice, given.po, given.receipt, given.duplicate)
    BY <2>1, FlippedVariances DEF Named
  <2>3. matched = (Variances(given.invoice, given.po, given.receipt, given.duplicate) = {})
    BY DEF ResultInv
  <2> QED BY <2>2, <2>3 DEF Flipped
<1> QED BY ResultBelongs, <1>1, PTL

\* What a matched invoice charges is bounded by the order alone, and a
\* three-way match stays within what was received, whatever the invoice and the
\* order are, under any tolerances and limits below 100 percent
\* (matching.py:89-195).
THEOREM MatchedInvoicePaysWithinOrder ==
    ASSUME LimitsBelowAll
    PROVE  Spec => []PaysWithinOrder
<1>1. ResultInv /\ TypeOK => PaysWithinOrder
  <2> SUFFICES ASSUME ResultInv, TypeOK, NEW given \in input, matched,
                      NamesEachLineOnce(given.invoice), NEW po \in given.po
               PROVE  /\ given.receipt => WithinReceipt(given.invoice, po)
                      /\ 1000000 * (given.invoice.total - 10) <=
                           OrderedValue(given.invoice, po)
                             * (100 + Policy.total) * (100 + Policy.tax + Policy.freight)
    BY DEF PaysWithinOrder
  <2>1. given.invoice \in Invoice /\ po \in PurchaseOrder /\ IsFiniteSet(po.lines)
    BY RunConstants DEF TypeOK
  <2>2. Variances(given.invoice, given.po, given.receipt, given.duplicate) = {}
    BY DEF ResultInv
  <2>3. /\ ArithmeticVariances(given.invoice) = {}
        /\ OrderVariances(given.invoice, po, given.receipt) = {}
    BY <2>2, VariancesOf
  <2>4. ASSUME given.receipt PROVE WithinReceipt(given.invoice, po)
    <3>1. given.receipt = TRUE
      BY <2>4, RunConstants DEF TypeOK
    <3> QED BY <2>1, <2>3, <3>1, QuantityWithinReceived
  <2> QED BY <2>1, <2>3, <2>4, MatchedPaysWithinOrder
<1> QED BY ResultBelongs, <1>1, PTL

\* However a matched invoice splits the ordered lines, each of its lines is
\* worth no more than the ordered line it names, so what it charges grows at
\* most with the number of its lines: the extent of what the line by line
\* comparison lets through (matching.py:173-189).
THEOREM SplitInvoicePaysPerLine ==
    ASSUME LimitsBelowAll
    PROVE  Spec => [](\A given \in input : matched =>
                         \A po \in given.po :
                            1000000 * (given.invoice.total - 10) <=
                              SumOf(NamedValue(given.invoice, po))
                                * (100 + Policy.total) * (100 + Policy.tax + Policy.freight))
<1> DEFINE PaysPerLine ==
             \A given \in input : matched =>
                \A po \in given.po :
                   1000000 * (given.invoice.total - 10) <=
                     SumOf(NamedValue(given.invoice, po))
                       * (100 + Policy.total) * (100 + Policy.tax + Policy.freight)
<1>1. ResultInv /\ TypeOK => PaysPerLine
  <2> SUFFICES ASSUME ResultInv, TypeOK, NEW given \in input, matched, NEW po \in given.po
               PROVE  1000000 * (given.invoice.total - 10) <=
                        SumOf(NamedValue(given.invoice, po))
                          * (100 + Policy.total) * (100 + Policy.tax + Policy.freight)
    OBVIOUS
  <2>1. given.invoice \in Invoice /\ po \in PurchaseOrder /\ IsFiniteSet(po.lines)
    BY RunConstants DEF TypeOK
  <2>2. Variances(given.invoice, given.po, given.receipt, given.duplicate) = {}
    BY DEF ResultInv
  <2>3. /\ ArithmeticVariances(given.invoice) = {}
        /\ OrderVariances(given.invoice, po, given.receipt) = {}
    BY <2>2, VariancesOf
  <2> QED BY <2>1, <2>3, GoodsWithinNamedValue, MatchedPaysWithinGoods
<1> HIDE DEF PaysPerLine
<1>2. Spec => []PaysPerLine
  BY ResultBelongs, <1>1, PTL
<1> QED BY <1>2 DEF PaysPerLine
=============================================================================
