------------------------------- MODULE OcrText -------------------------------
(***************************************************************************)
(* What an OCR engine returns, and how it becomes rows of text with        *)
(* amounts: fragments grouped into visual rows, numerals read as amounts.  *)
(* A text is a sequence of tokens; punctuation and currency marks are left *)
(* out.  Amounts are in cents.                                             *)
(***************************************************************************)
EXTENDS Integers, SequencesExt

CONSTANTS
  NoAmount,     \* what cannot be read as an amount
  MaxAmount     \* _MAX_AMOUNT, in cents

(***************************************************************************)
(* Tokens.  A numeral is printed as groups of digits (their number and     *)
(* value) and the separators between them: a comma, a dot or the           *)
(* unbreakable space.  A percentage is a numeral that counts for none.     *)
(* The digits of an identifier follow a letter, a dash or a dot.  Of a day *)
(* the word is the day and the month; the year stands behind a separator.  *)
(***************************************************************************)
Token(kind, word, parts, seps, minus) ==
  [kind |-> kind, word |-> word, parts |-> parts, seps |-> seps, minus |-> minus]

Word(w)              == Token("word", w, <<>>, <<>>, FALSE)
Id(w)                == Token("id", w, <<>>, <<>>, FALSE)
Day(w, year, sep)    == Token("date", w, <<year>>, <<sep>>, FALSE)
Num(parts, seps, minus) == Token("number", "", parts, seps, minus)
Percent(n)           == Token("percent", "", <<[len |-> 2, val |-> n]>>, <<>>, FALSE)

Words(text) == [k \in DOMAIN text |-> text[k].word]
HasDigit(text) == \E k \in DOMAIN text : text[k].kind # "word"

(* A label may stand anywhere in a text.                                   *)
At(text, label, k) ==
  /\ k + Len(label) - 1 <= Len(text)
  /\ \A i \in DOMAIN label : text[k + i - 1].word = label[i]
Mentions(text, label) == \E k \in DOMAIN text : At(text, label, k)
MentionsAny(text, labels) == \E l \in labels : Mentions(text, l)

(***************************************************************************)
(* Amounts.                                                                *)
(***************************************************************************)
(* Thousands in groups of three or one run of digits, then at most two     *)
(* decimals.                                                               *)
IsNumeral(n) ==
  LET last    == Len(n.parts)
      decimal == /\ last > 1
                 /\ n.seps[last - 1] \in {",", "."}
                 /\ n.parts[last].len \in 1..2
      groups  == IF decimal THEN last - 1 ELSE last
  IN /\ n.kind = "number"
     /\ \/ groups = 1 /\ (n.parts[1].len > 0 \/ decimal)
        \/ n.parts[1].len \in 1..3 /\ \A k \in 2..groups : n.parts[k].len = 3

(* What the search for amounts stops at.  It passes over the digits behind *)
(* a dash or a dot, but not over the year behind a slash.                  *)
IsSlashDate(t) == t.kind = "date" /\ t.seps = <<"/">>
IsCandidate(t) == IsNumeral(t) \/ IsSlashDate(t)

Shifted(v, part) == v * 10^part.len + part.val
Digits(parts) == FoldLeft(Shifted, 0, parts)

(* The unbreakable spaces are dropped: groups of digits, each with the     *)
(* separator before it, are joined.                                        *)
Pieces(n) == [k \in DOMAIN n.parts |->
                [part |-> n.parts[k], sep |-> IF k = 1 THEN "" ELSE n.seps[k - 1]]]

JoinPiece(acc, piece) ==
  IF piece.sep = "nbsp"
  THEN [acc EXCEPT !.parts[Len(acc.parts)] =
          [len |-> @.len + piece.part.len, val |-> Shifted(@.val, piece.part)]]
  ELSE [parts |-> Append(acc.parts, piece.part),
        seps  |-> IF piece.sep = "" THEN acc.seps ELSE Append(acc.seps, piece.sep)]

Unspaced(n) == FoldLeft(JoinPiece, [parts |-> <<>>, seps |-> <<>>], Pieces(n))

(* Cents of an integer part and one or two decimals.                       *)
Cents(parts, decimals) ==
  100 * Digits(parts) + (IF decimals.len = 1 THEN 10 * decimals.val ELSE decimals.val)

(* One kind of separator: decimal before one or two digits, else of        *)
(* thousands.                                                              *)
ParseWithSeparator(parts) ==
  IF Len(parts) = 2 /\ parts[2].len \in 1..2 THEN Cents(<<parts[1]>>, parts[2])
  ELSE IF parts[1].len <= 3 /\ \A k \in 2..Len(parts) : parts[k].len = 3
  THEN 100 * Digits(parts)
  ELSE NoAmount

(* Both: the last separator is the decimal one, those of its kind before   *)
(* it make the integer part unreadable.                                    *)
ParseWithBoth(parts, seps) ==
  LET last == Len(parts)
  IN IF parts[last].len \in 1..2 /\ \A k \in 1 .. last - 2 : seps[k] # seps[last - 1]
     THEN Cents(Front(parts), parts[last])
     ELSE NoAmount

NormalizeAmount_DecimalFirst(n) ==
  LET u     == Unspaced(n)
      kinds == ToSet(u.seps)
      value == IF kinds = {} THEN 100 * u.parts[1].val
               ELSE IF Len(u.parts) = 2 THEN Cents(<<u.parts[1]>>, u.parts[2])
               ELSE IF Cardinality(kinds) = 1 THEN ParseWithSeparator(u.parts)
               ELSE ParseWithBoth(u.parts, u.seps)
  IN IF value = NoAmount \/ value > MaxAmount THEN NoAmount
     ELSE IF n.minus THEN -value ELSE value
NormalizeAmount(n) ==
  LET u     == Unspaced(n)
      kinds == ToSet(u.seps)
      value == IF kinds = {} THEN 100 * u.parts[1].val
               ELSE IF Cardinality(kinds) = 1 THEN ParseWithSeparator(u.parts)
               ELSE ParseWithBoth(u.parts, u.seps)
  IN IF value = NoAmount \/ value > MaxAmount THEN NoAmount
     ELSE IF n.minus THEN -value ELSE value

(* What each token of a text is read as; the amounts, in order.            *)
AmountSpans(text) ==
  [k \in DOMAIN text |-> IF IsCandidate(text[k]) THEN NormalizeAmount(text[k]) ELSE NoAmount]
KeepRead(found, a) == IF a = NoAmount THEN found ELSE Append(found, a)
FindAmounts(text) == FoldLeft(KeepRead, <<>>, AmountSpans(text))

(***************************************************************************)
(* Rows.  Fragments come in the engine's order; one joins the row of its   *)
(* predecessor when they overlap by half of the lower of them.             *)
(***************************************************************************)
SmallerOf(a, b) == IF a < b THEN a ELSE b
LargerOf(a, b) == IF a > b THEN a ELSE b

SameRow(band, box) ==
  LET height  == SmallerOf(band.bottom - band.top, box.bottom - box.top)
      overlap == SmallerOf(band.bottom, box.bottom) - LargerOf(band.top, box.top)
  IN height > 0 /\ overlap > 0 /\ 2 * overlap >= height

Mean(scores) == FoldLeft(LAMBDA s, x : s + x, 0, scores) \div Len(scores)

Joined(row) ==
  LET before(i, j) == row[i].left < row[j].left \/ (row[i].left = row[j].left /\ i < j)
      sorted       == SetToSortSeq(DOMAIN row, before)
  IN [text |-> FlattenSeq([k \in DOMAIN sorted |-> row[sorted[k]].text]),
      score |-> Mean([k \in DOMAIN sorted |-> row[sorted[k]].score])]

JoinFragment(acc, f) ==
  IF acc.rows # <<>> /\ SameRow(acc.band, f)
  THEN [rows |-> [acc.rows EXCEPT ![Len(acc.rows)] = Append(@, f)],
        band |-> [top    |-> SmallerOf(acc.band.top, f.top),
                  bottom |-> LargerOf(acc.band.bottom, f.bottom)]]
  ELSE [rows |-> Append(acc.rows, <<f>>), band |-> [top |-> f.top, bottom |-> f.bottom]]

RowsOf(fragments) ==
  FoldLeft(JoinFragment, [rows |-> <<>>, band |-> [top |-> 0, bottom |-> 0]], fragments).rows

GroupRows(fragments) ==
  LET rows == RowsOf(fragments) IN [k \in DOMAIN rows |-> Joined(rows[k])]

(* Pages that carry a mark of an annex are left out.                       *)
AnnexMarks == {<<"annexe">>, <<"conditions", "generales">>, <<"bon", "de", "livraison">>}
IsAnnex(page) ==
  MentionsAny(FlattenSeq([k \in DOMAIN page |-> page[k].text]), AnnexMarks)

(* clean_text makes every white space one plain space, the unbreakable     *)
(* ones within a numeral included: it falls into as many numerals, of      *)
(* which the first keeps the sign.                                         *)
CutPiece(cut, piece) ==
  IF cut = <<>> \/ piece.sep = "nbsp" THEN Append(cut, Num(<<piece.part>>, <<>>, FALSE))
  ELSE [cut EXCEPT ![Len(cut)].parts = Append(@, piece.part),
                   ![Len(cut)].seps  = Append(@, piece.sep)]

Cut(t) ==
  IF t.kind # "number" THEN <<t>>
  ELSE [FoldLeft(CutPiece, <<>>, Pieces(t)) EXCEPT ![1].minus = t.minus]

CleanText(text) == FlattenSeq([k \in DOMAIN text |-> Cut(text[k])])

(* The rows of a document, pages one after the other, cleaned, blank ones  *)
(* dropped, each with the amounts read in it and their places.             *)
MainRows(pages) ==
  LET main == SelectSeq(pages, LAMBDA p : ~IsAnnex(p))
      rows == FlattenSeq([k \in DOMAIN main |-> GroupRows(main[k])])
      read(r) == LET text == CleanText(r.text)
                 IN [text |-> text, score |-> r.score,
                     spans |-> AmountSpans(text), amounts |-> FindAmounts(text)]
  IN SelectSeq([k \in DOMAIN rows |-> read(rows[k])], LAMBDA r : r.text # <<>>)
=============================================================================
