---------------------------- MODULE MatchingRules ----------------------------
(***************************************************************************)
(* The rules by which MatchingService compares an invoice with a cached    *)
(* purchase order: pairing of lines, gaps, score.  Pure operators, without *)
(* state.  Texts are compared after normalisation, so a text is a value    *)
(* that equals its other spellings, and "" is a blank one.  Amounts are    *)
(* integers in the smallest unit, or NoAmount.                             *)
(***************************************************************************)
EXTENDS Integers, Sequences, FiniteSetsExt, Functions

CONSTANTS
  NoAmount,      \* a NULL column, or a value that cannot be read
  NoOrder,       \* no purchase order found
  Ratio(_, _)    \* difflib's likeness of two texts, in percent

NameMatchThreshold == 90

Weight == [supplier |-> 10, purchase_order |-> 20, product |-> 25,
           quantity |-> 15, price |-> 15, amount |-> 15]

UnmatchableStates == {"cancel"}

MatchingCategories_NoQuantity ==
  {"AMOUNT", "TAX", "PRODUCT_MISSING", "DUPLICATE", "SUPPLIER", "PURCHASE_ORDER"}
MatchingCategories ==
  {"AMOUNT", "TAX", "QUANTITY", "PRODUCT_MISSING", "DUPLICATE", "SUPPLIER", "PURCHASE_ORDER"}

Abs(x) == IF x < 0 THEN -x ELSE x

Similar(a, b) == Ratio(a, b) >= NameMatchThreshold

(* A gap relative to the larger operand stays within tol per thousand.  A  *)
(* missing operand is not compared, two zeros do not differ.               *)
WithinTolerance(left, right, tol) ==
  \/ NoAmount \in {left, right}
  \/ 1000 * Abs(left - right) <= tol * Max({Abs(left), Abs(right)})

(***************************************************************************)
(* Currencies.  The factor that brings amounts of the invoice into the     *)
(* currency of the order is a fraction.  Without both rates amounts are    *)
(* compared as they are.                                                   *)
(***************************************************************************)
Rate(rates, code, base) ==
  IF code = base THEN 1 ELSE IF code \in DOMAIN rates THEN rates[code] ELSE NoAmount

FxFactor_Inverted(invoice, order, rates, base) ==
  LET from == Rate(rates, invoice.currency, base)
      to   == Rate(rates, order.currency, base)
  IN IF invoice.currency = order.currency \/ NoAmount \in {from, to}
     THEN [num |-> 1, den |-> 1]
     ELSE [num |-> to, den |-> from]
FxFactor(invoice, order, rates, base) ==
  LET from == Rate(rates, invoice.currency, base)
      to   == Rate(rates, order.currency, base)
  IN IF invoice.currency = order.currency \/ NoAmount \in {from, to}
     THEN [num |-> 1, den |-> 1]
     ELSE [num |-> from, den |-> to]

(* Comparison of a converted amount of the invoice with one of the order.  *)
Conforms(value, fx, expected, tol) ==
  \/ NoAmount \in {value, expected}
  \/ WithinTolerance(value * fx.num, expected * fx.den, tol)

(***************************************************************************)
(* Supplier, purchase order, duplicates.                                   *)
(***************************************************************************)
SupplierConforms(invoice) ==
  \/ invoice.readSupplier \in {"", invoice.supplierName}
  \/ Similar(invoice.readSupplier, invoice.supplierName)

(* The order of the reference that was read, else the one already linked.  *)
FindOrder(invoice, orders) ==
  LET named  == {o \in orders : invoice.reference # "" /\ o.reference = invoice.reference}
      linked == {o \in orders : o.id = invoice.order}
  IN IF named # {} THEN CHOOSE o \in named : TRUE
     ELSE IF linked # {} THEN CHOOSE o \in linked : TRUE
     ELSE NoOrder

OrderConforms(invoice, order) ==
  /\ order # NoOrder
  /\ order.supplier = invoice.supplier
  /\ order.state \notin UnmatchableStates

(* Another invoice of the supplier bears the number of this one, or the    *)
(* number that was read on the document.                                   *)
IsDuplicate(invoice, others) ==
  \E o \in others : /\ o.supplier = invoice.supplier
                    /\ o.number \in {invoice.number, invoice.readNumber} \ {""}

(***************************************************************************)
(* Lines.  A pairing gives each invoice line the position of its order     *)
(* line, or 0.                                                             *)
(***************************************************************************)
MatchOne(line, orderLines, used) ==
  LET free == DOMAIN orderLines \ used
      byRef  == {k \in free : line.ref # "" /\ orderLines[k].ref = line.ref}
      byName == {k \in free : line.name # "" /\ orderLines[k].name = line.name}
      near   == {k \in free : /\ "" \notin {line.name, orderLines[k].name}
                              /\ Similar(line.name, orderLines[k].name)}
      best   == {k \in near : \A j \in near :
                   Ratio(line.name, orderLines[k].name) >= Ratio(line.name, orderLines[j].name)}
  IN IF byRef # {} THEN Min(byRef)
     ELSE IF byName # {} THEN Min(byName)
     ELSE IF near # {} THEN Min(best)
     ELSE 0

MatchLines(lines, orderLines) ==
  LET pairs[n \in 0..Len(lines)] ==
        IF n = 0 THEN <<>>
        ELSE Append(pairs[n - 1], MatchOne(lines[n], orderLines, Range(pairs[n - 1])))
  IN pairs[Len(lines)]

QuantityConforms(line, orderLine, tol) ==
  WithinTolerance(line.quantity, orderLine.quantity, tol.quantity)

PriceConforms(line, orderLine, fx, tol) ==
  Conforms(line.price, fx, orderLine.price, tol.price)

(* A gap is a category, a subject and the position of a line (or 0).       *)
Gap(conforms, category, subject, n) ==
  IF conforms THEN {} ELSE {<<category, subject, n>>}

LineGaps(lines, orderLines, pairs, fx, tol) ==
  UNION {IF pairs[n] = 0
         THEN Gap(FALSE, "PRODUCT_MISSING", "line", n)
         ELSE Gap(QuantityConforms(lines[n], orderLines[pairs[n]], tol), "QUANTITY", "line", n)
              \cup Gap(PriceConforms(lines[n], orderLines[pairs[n]], fx, tol), "AMOUNT", "line", n)
         : n \in DOMAIN pairs}

(***************************************************************************)
(* Totals.  Order lines without an amount are left out of the sums.        *)
(***************************************************************************)
SumAmounts(orderLines, S) ==
  MapThenSumSet(LAMBDA k : orderLines[k].amount,
                {k \in S : orderLines[k].amount # NoAmount})

(* Excluding tax: only when every line of the invoice found its own, and   *)
(* their amounts do not sum to zero.                                       *)
ExclTaxConforms(invoice, orderLines, pairs, fx, tol) ==
  LET expected == SumAmounts(orderLines, Range(pairs))
  IN \/ pairs = <<>>
     \/ 0 \in Range(pairs)
     \/ expected = 0
     \/ Conforms(invoice.ht, fx, expected, tol.amount)

InclTaxConforms(invoice, order, fx, tol) ==
  Conforms(invoice.ttc, fx, order.total, tol.amount)

(* The tax of the order is deduced from all its lines.                     *)
OrderTaxConforms(invoice, order, orderLines, fx, tol) ==
  \/ order.total = NoAmount
  \/ Conforms(invoice.tax, fx, order.total - SumAmounts(orderLines, DOMAIN orderLines), tol.tax)

InternalTaxConforms(invoice, tol) ==
  \/ NoAmount \in {invoice.ht, invoice.ttc}
  \/ WithinTolerance(invoice.tax, invoice.ttc - invoice.ht, tol.tax)

AmountGaps(invoice, order, orderLines, pairs, fx, tol) ==
  UNION {Gap(ExclTaxConforms(invoice, orderLines, pairs, fx, tol), "AMOUNT", "HT", 0),
         Gap(InclTaxConforms(invoice, order, fx, tol), "AMOUNT", "TTC", 0),
         Gap(OrderTaxConforms(invoice, order, orderLines, fx, tol), "TAX", "order", 0),
         Gap(InternalTaxConforms(invoice, tol), "TAX", "invoice", 0)}

(***************************************************************************)
(* The score, in ten-thousandths, rounded.  The share of lines that found  *)
(* their own is taken over the lines, the shares of right quantities and   *)
(* prices over those that did.  An order of another supplier, or one that  *)
(* is cancelled, still counts as found.                                    *)
(***************************************************************************)
Scores == 0..10000

Share(n, d, none) == IF d = 0 THEN [num |-> none, den |-> 1] ELSE [num |-> n, den |-> d]

Score_OfPairedLines(supplierOk, orderOk, orderFound, pairs, quantityOk, priceOk, amountOk) ==
  LET matched  == Cardinality({n \in DOMAIN pairs : pairs[n] # 0})
      product  == Share(matched, matched, 1)
      quantity == Share(Cardinality(quantityOk), matched, 0)
      price    == Share(Cardinality(priceOk), matched, 0)
      den      == product.den * quantity.den
      whole    == (IF supplierOk THEN Weight.supplier ELSE 0)
                  + (IF orderOk THEN Weight.purchase_order ELSE 0)
                  + (IF orderFound /\ amountOk THEN Weight.amount ELSE 0)
      parts    == Weight.product * product.num * quantity.den
                  + (Weight.quantity * quantity.num + Weight.price * price.num) * product.den
      num      == 100 * (whole * den + (IF orderFound THEN parts ELSE 0))
  IN (2 * num + den) \div (2 * den)
Score(supplierOk, orderOk, orderFound, pairs, quantityOk, priceOk, amountOk) ==
  LET matched  == Cardinality({n \in DOMAIN pairs : pairs[n] # 0})
      product  == Share(matched, Len(pairs), 1)
      quantity == Share(Cardinality(quantityOk), matched, 0)
      price    == Share(Cardinality(priceOk), matched, 0)
      den      == product.den * quantity.den
      whole    == (IF supplierOk THEN Weight.supplier ELSE 0)
                  + (IF orderOk THEN Weight.purchase_order ELSE 0)
                  + (IF orderFound /\ amountOk THEN Weight.amount ELSE 0)
      parts    == Weight.product * product.num * quantity.den
                  + (Weight.quantity * quantity.num + Weight.price * price.num) * product.den
      num      == 100 * (whole * den + (IF orderFound THEN parts ELSE 0))
  IN (2 * num + den) \div (2 * den)

(***************************************************************************)
(* The whole comparison.  An order that does not conform pairs no line;    *)
(* without an order there are no pairs at all.                             *)
(***************************************************************************)
Match(invoice, lines, order, orderLines, others, rates, base, tol) ==
  LET found   == order # NoOrder
      conform == OrderConforms(invoice, order)
      fx      == IF found THEN FxFactor(invoice, order, rates, base) ELSE [num |-> 1, den |-> 1]
      pairs   == IF conform THEN MatchLines(lines, orderLines)
                 ELSE IF found THEN [n \in DOMAIN lines |-> 0]
                 ELSE <<>>
      paired  == {n \in DOMAIN pairs : pairs[n] # 0}
      amounts == IF conform THEN AmountGaps(invoice, order, orderLines, pairs, fx, tol) ELSE {}
      gaps    == UNION {Gap(~IsDuplicate(invoice, others), "DUPLICATE", "invoice", 0),
                        Gap(SupplierConforms(invoice), "SUPPLIER", "invoice", 0),
                        Gap(conform, "PURCHASE_ORDER", "invoice", 0),
                        IF conform THEN LineGaps(lines, orderLines, pairs, fx, tol) ELSE {},
                        amounts}
  IN [gaps      |-> gaps,
      pairs     |-> pairs,
      order     |-> IF conform THEN order.id ELSE invoice.order,
      duplicate |-> IsDuplicate(invoice, others),
      score     |-> Score(SupplierConforms(invoice), conform, found, pairs,
                          {n \in paired : QuantityConforms(lines[n], orderLines[pairs[n]], tol)},
                          {n \in paired : PriceConforms(lines[n], orderLines[pairs[n]], fx, tol)},
                          conform /\ amounts = {})]
=============================================================================
