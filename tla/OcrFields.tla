------------------------------ MODULE OcrFields ------------------------------
(***************************************************************************)
(* FieldExtractor, InvoiceLineParser and the confidence policy over rows   *)
(* of text: which fields, totals and lines are read, and whether the       *)
(* quality of the reading is put in doubt.  Of each list of synonyms that  *)
(* the code recognises the model keeps those it treats differently.        *)
(***************************************************************************)
EXTENDS OcrText

Nothing == Token("none", "", <<>>, <<>>, FALSE)

Labels ==
  [invoice_number     |-> << <<"numero", "de", "facture">>, <<"n">> >>,
   issue_date         |-> << <<"emise", "le">> >>,
   due_date           |-> << <<"echeance">> >>,
   order_reference    |-> << <<"bon", "de", "commande">>, <<"commande", "n">> >>,
   supplier_reference |-> << <<"ref", "fournisseur">> >>,
   supplier_name      |-> << <<"fournisseur">>, <<"vendeur">> >>,
   ht                 |-> << <<"total", "ht">>, <<"sous", "total">> >>,
   tax                |-> << <<"tva">>, <<"taxe">> >>,
   ttc                |-> << <<"montant", "total">>, <<"net", "a", "payer">>, <<"total">> >>,
   discount           |-> << <<"remise">>, <<"rabais">> >>,
   shipping           |-> << <<"livraison">>, <<"transport">> >>]

Labelled(text, field) == MentionsAny(text, Range(Labels[field]))

(* Words that announce columns, for the totals; words that end an address; *)
(* those that make one.                                                    *)
ColumnWords  == {"designation", "qte", "prix", "price", "montant", "total", "unite"}
OtherLabels  == {"adresse", "siret", "tva", "tel", "date", "ref", "client"}
AddressWords == {"rue", "avenue", "place", "cedex"}

IsColumnHeader(text) == Cardinality({w \in ColumnWords : Mentions(text, <<w>>)}) >= 2

(***************************************************************************)
(* General fields.                                                         *)
(***************************************************************************)
(* Two digits in a row make an identifier, whatever they mean.             *)
IsIdentifier(t) == \/ t.kind \in {"id", "date", "percent"}
                   \/ t.kind = "number" /\ \E k \in DOMAIN t.parts : t.parts[k].len >= 2
IsDate(t) == t.kind = "date"

FirstToken(text, wanted) ==
  LET found == SelectSeq(text, LAMBDA t : IF wanted = "date" THEN IsDate(t) ELSE IsIdentifier(t))
  IN IF found = <<>> THEN Nothing ELSE Head(found)

FirstPlace(text, label) ==
  CHOOSE k \in DOMAIN text : At(text, label, k) /\ \A j \in 1 .. k - 1 : ~At(text, label, j)
After(text, label) ==
  SubSeq(text, FirstPlace(text, label) + Len(label), Len(text))

(* Row by row and label by label: what follows the label, else what the    *)
(* next row holds.                                                         *)
ValueAfterLabel(rows, labels, wanted) ==
  LET value(i, j, k) ==
        IF ~Mentions(rows[i].text, labels[j]) THEN Nothing
        ELSE IF k = 1 THEN FirstToken(After(rows[i].text, labels[j]), wanted)
        ELSE IF i < Len(rows) THEN FirstToken(rows[i + 1].text, wanted)
        ELSE Nothing
      places == {p \in (DOMAIN rows) \X (DOMAIN labels) \X {1, 2} :
                   value(p[1], p[2], p[3]) # Nothing}
      before(p, q) == \/ p[1] < q[1]
                      \/ p[1] = q[1] /\ p[2] < q[2]
                      \/ p[1] = q[1] /\ p[2] = q[2] /\ p[3] < q[3]
      first == CHOOSE p \in places : \A q \in places : p = q \/ before(p, q)
  IN IF places = {} THEN Nothing ELSE value(first[1], first[2], first[3])

(***************************************************************************)
(* The supplier's name, and the address below it.                          *)
(***************************************************************************)
LooksLikeLabel(text) ==
  \/ \E field \in DOMAIN Labels : Labelled(text, field)
  \/ \E w \in OtherLabels : Mentions(text, <<w>>)

LooksLikeAddress(text) ==
  HasDigit(text) \/ \E w \in AddressWords : Mentions(text, <<w>>)

CollectAddress(rows, start) ==
  LET step(acc, j) ==
        IF acc.stop \/ LooksLikeLabel(rows[j].text) THEN [acc EXCEPT !.stop = TRUE]
        ELSE IF LooksLikeAddress(rows[j].text) THEN [acc EXCEPT !.found = @ \o rows[j].text]
        ELSE [acc EXCEPT !.stop = acc.found # <<>>]
      near == SelectSeq([k \in 1..3 |-> start + k - 1], LAMBDA j : j <= Len(rows))
  IN FoldLeft(step, [found |-> <<>>, stop |-> FALSE], near).found

ExtractSupplier(rows) ==
  LET named == {i \in DOMAIN rows : /\ Labelled(rows[i].text, "supplier_name")
                                    /\ ~Labelled(rows[i].text, "supplier_reference")}
      i     == CHOOSE i \in named : \A j \in named : i <= j
      label == SelectSeq(Labels.supplier_name, LAMBDA l : Mentions(rows[i].text, l))[1]
      after == After(rows[i].text, label)
      below == after = <<>> \/ LooksLikeLabel(after)
  IN IF named = {} \/ (below /\ i = Len(rows)) THEN [name |-> <<>>, address |-> <<>>]
     ELSE IF below THEN [name |-> rows[i + 1].text, address |-> CollectAddress(rows, i + 2)]
     ELSE [name |-> after, address |-> CollectAddress(rows, i + 1)]

(***************************************************************************)
(* Totals.                                                                 *)
(***************************************************************************)
(* The last amount of the row; of a row without digits, the last amount of *)
(* the first of the three rows below that has one.                         *)
AmountOrNext(rows, i) ==
  LET below == {j \in i + 1 .. SmallerOf(Len(rows), i + 3) : rows[j].amounts # <<>>}
      next  == CHOOSE j \in below : \A k \in below : j <= k
  IN IF rows[i].amounts # <<>> THEN Last(rows[i].amounts)
     ELSE IF HasDigit(rows[i].text) \/ below = {} THEN NoAmount
     ELSE Last(rows[next].amounts)

(* A row gives its amount to the first field, in this order, that it names *)
(* and that has none yet; the total of a row that names the amount         *)
(* excluding tax is not the total.                                         *)
TotalFields == <<"ht", "discount", "shipping", "tax", "ttc">>

AnnouncesColumns(row) == row.amounts = <<>> /\ IsColumnHeader(row.text)

OpenFields(totals, text) ==
  {k \in DOMAIN TotalFields : totals[TotalFields[k]] = NoAmount /\ Labelled(text, TotalFields[k])}

TakeTotal_TotalFirst(rows, totals, i) ==
  LET open  == OpenFields(totals, rows[i].text)
      field == IF 5 \in open THEN "ttc" ELSE TotalFields[CHOOSE k \in open : \A j \in open : k <= j]
  IN IF AnnouncesColumns(rows[i]) \/ open = {} THEN totals
     ELSE [totals EXCEPT ![field] = AmountOrNext(rows, i)]
TakeTotal(rows, totals, i) ==
  LET open  == OpenFields(totals, rows[i].text)
      field == TotalFields[CHOOSE k \in open : \A j \in open : k <= j]
  IN IF \/ AnnouncesColumns(rows[i])
        \/ open = {}
        \/ field = "ttc" /\ Labelled(rows[i].text, "ht")
     THEN totals
     ELSE [totals EXCEPT ![field] = AmountOrNext(rows, i)]

ExtractFinancial(rows) ==
  LET totals[i \in 0..Len(rows)] ==
        IF i = 0 THEN [f \in Range(TotalFields) |-> NoAmount]
        ELSE TakeTotal(rows, totals[i - 1], i)
  IN totals[Len(rows)]

(***************************************************************************)
(* Lines.                                                                  *)
(***************************************************************************)
TotalWords  == {"total", "remise", "livraison", "transport", "tva", "taxe", "avoir"}
HeaderWords == {"designation", "ref", "qte", "prix", "montant", "unite", "code"}
Units       == {"u", "kg", "m", "h"}

(* Digits, spaces and dots, as long as a telephone number.                 *)
PhoneRow(text) ==
  /\ \A k \in DOMAIN text : text[k].kind = "number" /\ Range(text[k].seps) \subseteq {"."}
  /\ FoldLeft(LAMBDA n, t : n + 1 + Len(t.seps) + FoldLeft(LAMBDA m, p : m + p.len, 0, t.parts),
              -1, text) >= 9

IsItemRow(text, amounts) ==
  /\ ~MentionsAny(text, {<<w>> : w \in TotalWords \cup HeaderWords})
  /\ ~Mentions(text, <<"net", "a", "payer">>)
  /\ ~PhoneRow(text)
  /\ \/ Len(amounts) >= 2
     \/ /\ Len(amounts) = 1 /\ amounts[1] % 100 # 0
        /\ ~MentionsAny(text, {<<w>> : w \in AddressWords \cup {"siret", "tel", "adresse"}})

ParseRow(text, spans, amounts) ==
  LET n        == Len(amounts)
      first    == CHOOSE k \in DOMAIN text : /\ spans[k] # NoAmount
                                             /\ \A j \in 1 .. k - 1 : spans[j] = NoAmount
      unit     == IF n >= 3 /\ first < Len(text) /\ text[first + 1].word \in Units
                  THEN text[first + 1].word ELSE ""
      kept     == SelectSeq([k \in DOMAIN text |-> k],
                            LAMBDA k : \/ text[k].kind = "date"
                                       \/ spans[k] = NoAmount /\ text[k].kind # "percent")
      rest     == [j \in DOMAIN kept |-> text[kept[j]]]
      isUnit(k) == rest[k].word = unit /\ \A j \in 1 .. k - 1 : rest[j].word # unit
      named    == IF unit # "" /\ \E k \in DOMAIN rest : isUnit(k)
                  THEN RemoveAt(rest, CHOOSE k \in DOMAIN rest : isUnit(k)) ELSE rest
      hasRef   == named # <<>> /\ named[1].kind = "id"
  IN [quantity |-> IF n >= 3 THEN amounts[1] ELSE NoAmount,
      price    |-> IF n >= 2 THEN amounts[n - 1] ELSE NoAmount,
      amount   |-> amounts[n],
      unit     |-> unit,
      ref      |-> IF hasRef THEN named[1].word ELSE "",
      name     |-> IF hasRef /\ Len(named) > 1 THEN Words(Tail(named)) ELSE Words(named)]

ParseLines(rows) ==
  LET items == SelectSeq(rows, LAMBDA r : IsItemRow(r.text, r.amounts))
  IN [k \in DOMAIN items |-> ParseRow(items[k].text, items[k].spans, items[k].amounts)]

(***************************************************************************)
(* Confidence: of a field, that of the first row with one of its labels.   *)
(***************************************************************************)
CriticalFields == {"invoice_number", "ttc", "ht", "tax"}

FieldConfidence(rows, field) ==
  LET labelled == SelectSeq(rows, LAMBDA r : Labelled(r.text, field))
  IN IF labelled = <<>> THEN 0 ELSE labelled[1].score

Overall(rows) == Mean([k \in DOMAIN rows |-> rows[k].score])

(* One anomaly: on the document, else on the critical fields in doubt.     *)
FlagQuality(rows, threshold) ==
  IF Overall(rows) < threshold THEN {"document"}
  ELSE {f \in CriticalFields : FieldConfidence(rows, f) < threshold}

(***************************************************************************)
(* The whole extraction, from the pages' fragments.                        *)
(***************************************************************************)
Extract(pages, threshold) ==
  LET rows == MainRows(pages)
  IN [supplier |-> ExtractSupplier(rows),
      number   |-> ValueAfterLabel(rows, Labels.invoice_number, "identifier"),
      issued   |-> ValueAfterLabel(rows, Labels.issue_date, "date"),
      due      |-> ValueAfterLabel(rows, Labels.due_date, "date"),
      order    |-> ValueAfterLabel(rows, Labels.order_reference, "identifier"),
      totals   |-> ExtractFinancial(rows),
      lines    |-> ParseLines(rows),
      doubt    |-> FlagQuality(rows, threshold)]
=============================================================================
