----------------------------- MODULE MCAlgorithms -----------------------------
(***************************************************************************)
(* The algorithms without state, each input an initial state: comparisons  *)
(* of invoices with orders, printed amounts, printed invoices.  Beside     *)
(* them, and apart from each other, the rate limiter and the page of one   *)
(* invoice, whose steps are the only ones.                                 *)
(***************************************************************************)
EXTENDS RateLimiter, InvoicePage, MatchingRules, SequencesExt, TLC

CONSTANT MaxAmount

VARIABLE input

Ocr == INSTANCE OcrFields

MCRatio(a, b) == IF a = b THEN 100 ELSE IF {a, b} = {"compressor", "compressors"} THEN 95 ELSE 20
Blank == ""
Tol == [quantity |-> 50, price |-> 50, amount |-> 50, tax |-> 50]
Rates == [c \in {"EUR", "USD"} |-> IF c = "EUR" THEN 2 ELSE 1]

(***************************************************************************)
(* Comparisons.                                                            *)
(***************************************************************************)
Item(id, ref, name, quantity, price, amount) ==
  [id |-> id, ref |-> ref, name |-> name, quantity |-> quantity, price |-> price, amount |-> amount]
Catalogue == << Item(1, "R1", "compressor", 2, 10, 20),
                Item(2, "R2", "valve", 3, 20, 60),
                Item(3, Blank, "pipe", 0, 5, NoAmount) >>

Invoice(currency, supplier, ht, tax, ttc, number) ==
  [currency |-> currency, readSupplier |-> supplier, supplierName |-> "acme", supplier |-> 1,
   reference |-> "PO7", order |-> NoOrder, number |-> number, readNumber |-> Blank, ht |-> ht, tax |-> tax,
   ttc |-> ttc]
Order(currency, supplier, state, total) ==
  [id |-> 7, reference |-> "PO7", supplier |-> supplier, state |-> state, currency |-> currency,
   total |-> total]
Others == {[supplier |-> 1, number |-> "F9"]}

Compared(i) == Match(i.invoice, i.lines, i.order, i.orderLines, Others, Rates, "USD", Tol)

Line(k, ref, name, quantity, price) ==
  [ref |-> ref, name |-> name, quantity |-> quantity, price |-> price]
AnyLine == {Line(1, r, n, q, 10) : r \in {Blank, "R1"}, n \in {"compressors", "valve"},
                                   q \in {NoAmount, 0, 2}}

AnyInvoice == {Invoice("EUR", s, ht, 16, 96, n) : s \in {Blank, "acne"}, ht \in {0, 80, NoAmount},
                                                  n \in {"F1", "F9"}}
AnyOrder == {Order("EUR", s, st, t) : s \in {1, 2}, st \in {"purchase", "cancel"}, t \in {96, 0}}

AnyComparisons ==
  [kind       : {"compare"},
   invoice    : AnyInvoice,
   lines      : {<<>>} \cup {<<l>> : l \in AnyLine} \cup {<<l, m>> : l, m \in AnyLine},
   order      : {NoOrder} \cup AnyOrder,
   orderLines : {SubSeq(Catalogue, 1, 2)}]

(* The lines of an order repeated by the invoice in any order, each by its *)
(* reference, by its name or by a name nearly the same, all amounts        *)
(* converted from the order's currency into the invoice's.                 *)
Spelling(line, how) ==
  CASE how = "ref"  -> [line EXCEPT !.name = "other"]
    [] how = "name" -> [line EXCEPT !.ref = Blank]
    [] how = "near" -> [line EXCEPT !.ref = Blank, !.name = IF @ = "compressor" THEN "compressors" ELSE @]

Spellings == {"ref", "name", "near"}

Factor(c) == IF c = "USD" THEN 2 ELSE 1
LinesOf(perm, how, c) ==
  [k \in DOMAIN perm |->
     LET l == Spelling(Catalogue[perm[k]], IF perm[k] = 3 THEN "name" ELSE how[k])
     IN Line(k, l.ref, l.name, l.quantity, l.price * Factor(c))]
Repeated(perm, how, c) ==
  [kind    |-> "repeat",
   invoice |-> Invoice(c, "acme", 80 * Factor(c), 16 * Factor(c), 96 * Factor(c), "F1"),
   lines   |-> LinesOf(perm, how, c),
   order   |-> Order("EUR", 1, "purchase", 96),
   orderLines |-> Catalogue, perm |-> perm]
Repetitions ==
  {Repeated(p, h, c) : p \in {p \in [1..3 -> 1..3] : ToSet(p) = 1..3},
                       h \in [1..3 -> Spellings], c \in {"EUR", "USD", "GBP"}}

(***************************************************************************)
(* Printed amounts: thousands and decimals with the separators of a style. *)
(***************************************************************************)
Styles == {[thousands |-> t, decimal |-> d] : t \in {"nbsp", ".", ",", Blank}, d \in {",", "."}}
            \ {[thousands |-> s, decimal |-> s] : s \in {",", "."}}

Part(len, val) == [len |-> len, val |-> val]

(* The digits of n in a base, the first ones first.                        *)
DigitsOf(n, base) ==
  LET digits[k \in 0..n] ==
        IF k < base THEN <<k>> ELSE Append(digits[k \div base], k % base)
  IN digits[n]

Length(n) == Len(DigitsOf(n, 10))

Thousands(n) ==
  LET groups == DigitsOf(n, 1000)
  IN [k \in DOMAIN groups |-> Part(IF k = 1 THEN Length(groups[1]) ELSE 3, groups[k])]

Printed(cents, style) ==
  LET units  == Abs(cents) \div 100
      rest   == Abs(cents) % 100
      whole  == IF style.thousands = Blank THEN <<Part(Length(units), units)>> ELSE Thousands(units)
      inner  == [k \in 1 .. Len(whole) - 1 |-> style.thousands]
  IN IF rest = 0 THEN Ocr!Num(whole, inner, cents < 0)
     ELSE Ocr!Num(Append(whole, IF rest % 10 = 0 THEN Part(1, rest \div 10) ELSE Part(2, rest)),
                  Append(inner, style.decimal), cents < 0)

Amounts == {0, 5, 50, 99, 100, 1050, 99900, 99999, 100000, 123456, 123450, 1234567, -2500, -123456,
            99999999, 100000001}

PrintedAmounts == {[kind |-> "amount", cents |-> c, style |-> s] : c \in Amounts, s \in Styles}

(***************************************************************************)
(* Printed invoices.                                                       *)
(***************************************************************************)
Text(words) == [k \in DOMAIN words |-> Ocr!Word(words[k])]
Fragment(text, row, left, low, score) ==
  [text |-> text, score |-> score, left |-> left, top |-> 10 * row + low, bottom |-> 10 * row + low + 8]

(* A row of two fragments, which the engine may return in either order and *)
(* a little askew; a row without values is one fragment.                   *)
Row(n, words, values, i) ==
  LET left  == Fragment(words, n, 10, 0, i.score)
      right == Fragment(values, n, 50, i.askew, i.score)
  IN IF values = <<>> THEN <<left>> ELSE IF i.swapped THEN <<right, left>> ELSE <<left, right>>

Amount(c, i) == Printed(c, i.style)

Goods == << [ref |-> "AB-12", name |-> <<"pump">>, quantity |-> 200, unit |-> "u", price |-> 123456,
             amount |-> 246912],
            [ref |-> Blank, name |-> <<"valve", "steel">>, quantity |-> NoAmount, unit |-> Blank,
             price |-> 1050, amount |-> 1050] >>

GoodsRow(g, i) ==
  [words  |-> (IF g.ref = Blank THEN <<>> ELSE <<Ocr!Id(g.ref)>>) \o Text(g.name),
   values |-> (IF g.quantity = NoAmount THEN <<>> ELSE <<Amount(g.quantity, i)>>)
              \o (IF g.unit = Blank THEN <<>> ELSE <<Ocr!Word(g.unit)>>)
              \o <<Amount(g.price, i), Amount(g.amount, i)>>]

(* The totals printed, with their labels; a value may stand on a row of    *)
(* its own below a label without digits, provided it has no cents.         *)
TotalRows(i) ==
  <<[words |-> Text(i.ht), cents |-> i.totals.ht]>>
  \o (IF i.totals.discount = NoAmount THEN <<>>
      ELSE <<[words |-> Text(<<"remise">>), cents |-> i.totals.discount]>>)
  \o (IF i.totals.shipping = NoAmount THEN <<>>
      ELSE <<[words |-> Text(<<"livraison">>), cents |-> i.totals.shipping]>>)
  \o <<[words |-> Text(<<"tva">>) \o (IF i.below THEN <<>> ELSE <<Ocr!Percent(20)>>), cents |-> i.totals.tax],
       [words |-> Text(i.ttc), cents |-> i.totals.ttc]>>

Address == Text(<<"rue", "haute">>) \o <<Ocr!Num(<<Part(5, 31000)>>, <<>>, FALSE)>>

Issued == Ocr!Day("15/01", Part(4, 2026), "/")

Document(i) ==
  LET head == <<[words |-> Text(<<"vendeur", "acme">>), values |-> <<>>],
                [words |-> Address, values |-> <<>>],
                [words |-> Text(<<"facture", "n">>), values |-> <<Ocr!Id("F-12")>>],
                [words |-> Text(<<"emise", "le">>), values |-> <<Issued>>],
                [words |-> Text(<<"bon", "de", "commande">>), values |-> <<Ocr!Id("PO-7")>>],
                [words |-> Text(<<"designation", "qte", "prix", "total">>), values |-> <<>>]>>
      goods == [k \in DOMAIN i.goods |-> GoodsRow(i.goods[k], i)]
      total(r) == IF i.below THEN <<[words |-> r.words, values |-> <<>>],
                                    [words |-> <<Amount(r.cents, i)>>, values |-> <<>>]>>
                  ELSE <<[words |-> r.words, values |-> <<Amount(r.cents, i)>>]>>
      rows == head \o goods \o FlattenSeq([k \in DOMAIN TotalRows(i) |-> total(TotalRows(i)[k])])
      main == FlattenSeq([n \in DOMAIN rows |-> Row(n, rows[n].words, rows[n].values, i)])
      annex == <<Fragment(Text(<<"annexe">>), 1, 10, 0, 10),
                 Fragment(Text(<<"total", "ht">>) \o <<Amount(77700, i)>>, 2, 10, 0, 10)>>
  IN IF i.annexed THEN <<annex, main>> ELSE <<main>>

(* An untidy document has its rows askew, their fragments exchanged.       *)
PrintedInvoices ==
  {[kind |-> "document", style |-> style, swapped |-> untidy, askew |-> IF untidy THEN 3 ELSE 0,
    annexed |-> annexed, below |-> below, score |-> score, goods |-> goods,
    ht |-> IF short THEN <<"sous", "total">> ELSE <<"total", "ht">>,
    ttc |-> IF short THEN <<"total">> ELSE <<"net", "a", "payer">>,
    totals |-> [ht |-> 248000, tax |-> 49600, ttc |-> 297600, discount |-> discount, shipping |-> shipping]] :
      style \in Styles, untidy, annexed, below, short \in BOOLEAN, score \in {60, 95},
      goods \in {<<>>, <<Goods[1]>>, Goods, <<Goods[2], Goods[1]>>},
      discount \in {NoAmount, 500}, shipping \in {NoAmount, 1000}}

(* What is taken of the constants: what is missing is none of the values,  *)
(* and difflib tells the names of these inputs apart, two of them barely.  *)
Names == {"compressor", "compressors", "valve", "pipe", "other"}

ASSUME AlgorithmsAssumption ==
  /\ NoAmount \notin Int
  /\ MaxAmount \in Nat
  /\ NoOrder \notin AnyOrder
  /\ \A a, b \in Names : /\ Ratio(a, b) \in 0..100
                         /\ Similar(a, b) <=> a = b \/ {a, b} = {"compressor", "compressors"}

(***************************************************************************)
(* Specification.                                                          *)
(***************************************************************************)
MCInit ==
  /\ RInit /\ PInit
  /\ \/ input = [kind |-> "limiter"] /\ status = "SUBMITTED"
     \/ input = [kind |-> "page"] /\ limit = 0
     \/ limit = 0 /\ status = "SUBMITTED"
        /\ input \in AnyComparisons \cup Repetitions \cup PrintedAmounts \cup PrintedInvoices

MCNext ==
  \/ input.kind = "limiter" /\ RNext /\ UNCHANGED <<pvars, input>>
  \/ input.kind = "page" /\ PNext /\ UNCHANGED <<rvars, input>>

MCSpec == MCInit /\ [][MCNext]_<<rvars, pvars, input>>

MCSymmetry == Permutations(Requests) \cup Permutations(Tasks)

(***************************************************************************)
(* Properties.                                                             *)
(***************************************************************************)
(* The score is full exactly when the comparison, over at least one line,  *)
(* finds no gap; a duplicate does not count.  About _compute_score, which  *)
(* adds up shares computed apart from the anomalies.                       *)
FullScoreIffNoGap ==
  input.kind = "compare" /\ input.lines # <<>> =>
    LET m == Compared(input)
    IN (m.score = 10000) <=> (\A g \in m.gaps : g[1] = "DUPLICATE")

(* An invoice that repeats the lines of its order, in any order and        *)
(* currency, each by its reference or its name, finds each line its own    *)
(* and no gap at all.  About _match_lines, whose lines are taken greedily, *)
(* _fx_factor and _check_amounts_and_tax.                                  *)
RepeatedOrderMatches ==
  input.kind = "repeat" =>
    LET m == Compared(input)
    IN m.gaps = {} /\ m.score = 10000 /\ m.pairs = input.perm

(* An amount printed in the French or the English way is read as it was    *)
(* meant, with one, two or no decimals, unless it is implausibly large.    *)
(* About find_amounts alone, on the text as it is printed: the search for  *)
(* candidates and normalize_amount.                                        *)
AmountsReadAsPrinted ==
  input.kind = "amount" =>
    LET read == Ocr!FindAmounts(<<Ocr!Word("prix"), Printed(input.cents, input.style)>>)
    IN read = IF Abs(input.cents) > MaxAmount THEN <<>> ELSE <<input.cents>>

(* A printed invoice is read whole from its fragments: supplier, number,   *)
(* date, order, totals and lines, whatever the separators of its numbers   *)
(* but the unbreakable space, the order of the fragments in a row, annexes,*)
(* and values printed beside or below their labels; and it is doubted      *)
(* exactly when badly recognised.  About group_rows, clean_text,           *)
(* FieldExtractor, InvoiceLineParser, confidence.                          *)
InvoiceReadAsPrinted ==
  input.kind = "document" /\ input.style.thousands # "nbsp" =>
    Ocr!Extract(Document(input), 80) =
      [supplier |-> [name |-> Text(<<"acme">>), address |-> Address],
       number   |-> Ocr!Id("F-12"),
       issued   |-> Issued,
       due      |-> Ocr!Nothing,
       order    |-> Ocr!Id("PO-7"),
       totals   |-> input.totals,
       lines    |-> input.goods,
       doubt    |-> IF input.score >= 80 THEN {} ELSE {"document"}]

(* The claim of the comment on _AMOUNT_CANDIDATE_RE, of normalize_amount   *)
(* and of the tests: the French thousands, printed with the unbreakable    *)
(* space, are recognised.  Here of the totals of an invoice, which the     *)
(* pipeline cleans before it searches them for amounts.                    *)
UnbreakableTotalsRead ==
  input.kind = "document" /\ input.style.thousands = "nbsp" =>
    Ocr!Extract(Document(input), 80).totals = input.totals
=============================================================================
