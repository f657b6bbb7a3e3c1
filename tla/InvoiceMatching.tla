--------------------------- MODULE InvoiceMatching ---------------------------
(***************************************************************************)
(* The writers of an invoice's lines, links, score and anomalies: the      *)
(* comparison with the cached order (match), the buyer's confirmation, the *)
(* resolution of one anomaly and the OCR analysis, each in a transaction   *)
(* of its own over PostgreSQL's row locks, beside the synchronisations of  *)
(* the cache.  One invoice.                                                *)
(*                                                                         *)
(* A session writes, of a row it has read, the columns whose value it      *)
(* changed, and no row of which it changed nothing.  An UPDATE of a row    *)
(* that is gone raises and rolls the call back; a DELETE of one does not.  *)
(***************************************************************************)
EXTENDS OdooCache

CONSTANTS
  Readings,    \* what an analysis may read: invoice fields, lines, doubt
  Payloads,    \* what a buyer may confirm: line number -> new values
  Others,      \* the other invoices
  Tol,         \* tolerances, per thousand
  Origin,      \* stands for the analysis before the start
  NoPass, NoLink

(* Columns of an invoice line that a buyer may confirm.                    *)
Confirmed == {"quantity", "price", "ref"}

(* Columns of an invoice, and of the data read, that a match compares.     *)
Compared == {"currency", "readSupplier", "supplierName", "supplier", "reference", "order",
             "number", "readNumber", "ht", "tax", "ttc"}

(* No call is the analysis before the start; a reading is complete, names  *)
(* have a likeness, a payload has nothing but what can be confirmed.       *)
ASSUME MatchingAssumption ==
  /\ Origin \notin Calls
  /\ \A p \in Payloads : \A n \in DOMAIN p : DOMAIN p[n] \subseteq Confirmed
  /\ \A r \in Readings :
       /\ Compared \subseteq DOMAIN r.invoice
       /\ r.lines \in Seq(Range(r.lines))
       /\ \A n \in DOMAIN r.lines, v \in Contents : \A l \in History[v].lines :
            Ratio(r.lines[n].name, l.name) \in 0..100

VARIABLES
  reading,     \* extracted_data and the amounts of the invoice
  lines,       \* invoice_lines: writer, number, values, link
  row,         \* matching_score, purchase_order_id, is_duplicate
  anomalies,   \* rows: writer, gap, resolved
  audit,       \* confirmations, in order: by, lines set, anomalies resolved
  analysable,  \* the status admits an analysis
  pc, mem, held,   \* calls: progress, what they have read, row locks
  met,         \* history: pairs of calls that overlapped
  last         \* history: the last commit, if it is a pass that met nobody

mvars == <<reading, lines, row, anomalies, audit, analysable, pc, mem, held, met, last>>
vars  == <<ovars, mvars>>

InvoiceRow == {<<"invoice">>}
LineRow(l) == <<"line", l.by, l.number>>
AnomalyRow(a) == <<"anomaly", a.by, a.gap>>
LineRows == {LineRow(lines[n]) : n \in DOMAIN lines}
AnomalyRows(S) == {AnomalyRow(a) : a \in S}
Open == {c \in Calls : pc[c] \notin {"idle", "done", "failed"}}

(* Rows that have been deleted meanwhile.                                  *)
Gone(rows) == rows \ (InvoiceRow \cup LineRows \cup AnomalyRows(anomalies))

(* The rows of which a pass changed something.                             *)
InvoiceDirty(m) == IF m.result.row = m.was THEN {} ELSE InvoiceRow
Relinked(m) == {n \in DOMAIN m.result.links : m.lines[n].link # m.result.links[n]}

Other(half) == IF half = "lines" THEN "anomalies" ELSE "lines"

(* The rows a call writes next.  The invoice comes before its lines; lines *)
(* and anomalies, written together, come in either order.                  *)
Needs(c) ==
  LET m == mem[c]
  IN CASE pc[c] = "reset"    -> m.delete
       [] pc[c] = "compared" -> InvoiceDirty(m)
       [] pc[c] = "flushed"  -> {LineRow(m.lines[n]) : n \in Relinked(m)}
       [] pc[c] = "lock"     -> InvoiceRow
       [] pc[c] = "half"     -> m.rows[m.first]
       [] pc[c] = "last"     -> m.rows[Other(m.first)]
       [] OTHER -> {}

(* Another open transaction wrote a row that c writes next.                *)
WaitsFor(c) == {d \in Open \ {c} : held[d] \cap (Needs(c) \ Gone(Needs(c))) # {}}

Init ==
  /\ OInit
  /\ \E r \in Readings :
       /\ reading = r
       /\ lines = [n \in DOMAIN r.lines |-> [by |-> Origin, number |-> n, link |-> NoLink,
                      ref |-> r.lines[n].ref, name |-> r.lines[n].name,
                      quantity |-> r.lines[n].quantity, price |-> r.lines[n].price]]
  /\ row = [score |-> NoAmount, order |-> NoOrder, duplicate |-> FALSE]
  /\ anomalies = {}
  /\ audit = <<>>
  /\ analysable \in BOOLEAN
  /\ pc = [c \in Calls |-> "idle"]
  /\ mem = [c \in Calls |-> NoPass]
  /\ held = [c \in Calls |-> {}]
  /\ met = {}
  /\ last = NoPass

(***************************************************************************)
(* Opening and ending a call.                                              *)
(***************************************************************************)
Begin(c, state, memory) ==
  /\ pc[c] = "idle" /\ sync[c].pc = "idle"
  /\ pc' = [pc EXCEPT ![c] = state]
  /\ mem' = [mem EXCEPT ![c] = memory]
  /\ met' = met \cup {{c, d} : d \in Open}
  /\ UNCHANGED <<reading, lines, row, anomalies, audit, analysable, held, last>>

End(c, outcome) ==
  /\ pc' = [pc EXCEPT ![c] = outcome]
  /\ mem' = [mem EXCEPT ![c] = NoPass]
  /\ held' = [held EXCEPT ![c] = {}]
  /\ UNCHANGED met

Rollback(c) ==
  /\ End(c, "failed")
  /\ UNCHANGED <<reading, lines, row, anomalies, audit, analysable, last>>

(* A flush that writes the rows c needs, those gone left out.              *)
Flush(c, next) ==
  /\ WaitsFor(c) = {}
  /\ held' = [held EXCEPT ![c] = @ \cup (Needs(c) \ Gone(Needs(c)))]
  /\ pc' = [pc EXCEPT ![c] = next]
  /\ UNCHANGED <<reading, lines, row, anomalies, audit, analysable, met, last>>

(***************************************************************************)
(* match: delete the anomalies of the previous passes, compare, insert the *)
(* new ones, then write the score and the links.                           *)
(***************************************************************************)
Reset_OnlyOpen == {a \in anomalies : ~a.resolved /\ a.gap[1] \in MatchingCategories}
Reset == {a \in anomalies : a.gap[1] \in MatchingCategories}

MatchOpen(c) ==
  Begin(c, "reset", [op |-> "match", reading |-> reading, row |-> row, delete |-> AnomalyRows(Reset)])

(* What is compared of a line: not its link.                               *)
Values(ls) ==
  [n \in DOMAIN ls |-> [ref |-> ls[n].ref, name |-> ls[n].name,
                        quantity |-> ls[n].quantity, price |-> ls[n].price]]

Compare_LinksByPosition(from, fx, read, linked, ls) ==
  LET invoice == [read.invoice EXCEPT
                    !.order = linked, !.supplierName = CachedSupplierName(from, read.invoice.supplier)]
      order   == FindOrder(invoice, CachedOrders(from))
      orderLines == IF order = NoOrder THEN <<>> ELSE CachedLines(from, order.id)
      result  == Match(invoice, Values(ls), order, orderLines, Others, fx, Base, Tol)
  IN [row   |-> [score |-> result.score, order |-> result.order, duplicate |-> result.duplicate],
      gaps  |-> result.gaps,
      links |-> [n \in DOMAIN result.pairs |->
                   IF result.pairs[n] = 0 THEN NoLink ELSE result.pairs[n]]]

(* The judgement on a reading and an invoice's lines, with the cache that  *)
(* was read, the rates and the order linked so far.                        *)
Compare(from, fx, read, linked, ls) ==
  LET invoice == [read.invoice EXCEPT
                    !.order = linked, !.supplierName = CachedSupplierName(from, read.invoice.supplier)]
      order   == FindOrder(invoice, CachedOrders(from))
      orderLines == IF order = NoOrder THEN <<>> ELSE CachedLines(from, order.id)
      result  == Match(invoice, Values(ls), order, orderLines, Others, fx, Base, Tol)
  IN [row   |-> [score |-> result.score, order |-> result.order, duplicate |-> result.duplicate],
      gaps  |-> result.gaps,
      links |-> [n \in DOMAIN result.pairs |->
                   IF result.pairs[n] = 0 THEN NoLink ELSE orderLines[result.pairs[n]].id]]

MatchReset(c) ==
  /\ pc[c] = "reset"
  /\ Flush(c, "compared")
  /\ mem' = [mem EXCEPT ![c] = [op |-> "match", was |-> mem[c].row, delete |-> mem[c].delete,
                                lines |-> lines, seen |-> <<cache, rates>>,
                                result |-> Compare(cache, rates, mem[c].reading, mem[c].row.order, lines)]]

MatchInvoice_AnyOrder(c) ==
  /\ pc[c] = "compared"
  /\ \/ Flush(c, "flushed")
     \/ LET rows == {LineRow(mem[c].lines[n]) : n \in Relinked(mem[c])}
        IN /\ \A d \in Open \ {c} : held[d] \cap rows = {}
           /\ held' = [held EXCEPT ![c] = @ \cup rows]
           /\ UNCHANGED <<reading, lines, row, anomalies, audit, analysable, pc, met, last>>
  /\ UNCHANGED mem
MatchInvoice(c) ==
  /\ pc[c] = "compared"
  /\ Flush(c, "flushed")
  /\ UNCHANGED mem

(* A line whose row is gone is an error; those that stay get their link.   *)
MatchCommit_WholeRow(c) ==
  LET m == mem[c]
      alone == Open = {c} /\ \A p \in met : c \notin p
  IN /\ pc[c] = "flushed"
     /\ WaitsFor(c) = {}
     /\ IF Gone(Needs(c)) # {} THEN Rollback(c)
        ELSE /\ row' = [f \in DOMAIN row |-> IF m.result.row[f] = m.was[f] THEN row[f] ELSE m.result.row[f]]
             /\ lines' = [n \in DOMAIN lines |->
                            IF LineRow(lines[n]) \in Needs(c)
                            THEN [m.lines[n] EXCEPT !.link = m.result.links[n]] ELSE lines[n]]
             /\ anomalies' = {a \in anomalies : AnomalyRow(a) \notin m.delete}
                             \cup {[by |-> c, gap |-> g, resolved |-> FALSE] : g \in m.result.gaps}
             /\ last' = IF alone THEN [result |-> m.result, seen |-> m.seen] ELSE NoPass
             /\ End(c, "done")
             /\ UNCHANGED <<reading, audit, analysable>>
MatchCommit(c) ==
  LET m == mem[c]
      alone == Open = {c} /\ \A p \in met : c \notin p
  IN /\ pc[c] = "flushed"
     /\ WaitsFor(c) = {}
     /\ IF Gone(Needs(c)) # {} THEN Rollback(c)
        ELSE /\ row' = [f \in DOMAIN row |-> IF m.result.row[f] = m.was[f] THEN row[f] ELSE m.result.row[f]]
             /\ lines' = [n \in DOMAIN lines |->
                            IF LineRow(lines[n]) \in Needs(c)
                            THEN [lines[n] EXCEPT !.link = m.result.links[n]] ELSE lines[n]]
             /\ anomalies' = {a \in anomalies : AnomalyRow(a) \notin m.delete}
                             \cup {[by |-> c, gap |-> g, resolved |-> FALSE] : g \in m.result.gaps}
             /\ last' = IF alone THEN [result |-> m.result, seen |-> m.seen] ELSE NoPass
             /\ End(c, "done")
             /\ UNCHANGED <<reading, audit, analysable>>

(***************************************************************************)
(* confirm: the buyer's values, the open anomalies they settle, the audit  *)
(* entry.  resolve: one anomaly.                                           *)
(***************************************************************************)
ConfirmableCategories == {"QUANTITY", "PRODUCT_MISSING", "AMOUNT"}

Confirmable == {a \in anomalies : ~a.resolved /\ a.gap[1] \in ConfirmableCategories}

(* The columns an item of the payload gives, and those it changes.         *)
Given(item) == {f \in DOMAIN item : item[f] # NoAmount}
Dirty(line, item) == {f \in Given(item) : item[f] # line[f]}

(* Items for line numbers the invoice has not are ignored.                 *)
ConfirmOpen(c, payload, first) ==
  LET known == DOMAIN payload \cap DOMAIN lines
      dirty == {n \in known : Dirty(lines[n], payload[n]) # {}}
  IN Begin(c, "half",
       [op |-> "confirm", first |-> first,
        sets  |-> {[line |-> LineRow(lines[n]), given |-> Given(payload[n]),
                    dirty |-> Dirty(lines[n], payload[n]), values |-> payload[n]] : n \in known},
        rows  |-> [lines     |-> {LineRow(lines[n]) : n \in dirty},
                   anomalies |-> AnomalyRows(Confirmable)]])

Half(c) ==
  /\ pc[c] = "half"
  /\ IF mem[c].op # "analyse" /\ Gone(Needs(c)) # {}
     THEN WaitsFor(c) = {} /\ Rollback(c)
     ELSE Flush(c, "last") /\ UNCHANGED mem

Resolve(rows) ==
  {IF AnomalyRow(a) \in rows THEN [a EXCEPT !.resolved = TRUE] ELSE a : a \in anomalies}

ConfirmCommit(c) ==
  LET m == mem[c]
      written(l, f) == {s \in m.sets : s.line = LineRow(l) /\ f \in s.dirty}
  IN /\ pc[c] = "last" /\ m.op # "analyse"
     /\ WaitsFor(c) = {}
     /\ IF Gone(Needs(c)) # {} THEN Rollback(c)
        ELSE /\ lines' = [n \in DOMAIN lines |-> [f \in DOMAIN lines[n] |->
                            IF written(lines[n], f) = {} THEN lines[n][f]
                            ELSE (CHOOSE s \in written(lines[n], f) : TRUE).values[f]]]
             /\ anomalies' = Resolve(m.rows.anomalies)
             /\ audit' = IF m.op = "resolve" THEN audit
                         ELSE Append(audit, [by |-> c, sets |-> m.sets, resolved |-> m.rows.anomalies])
             /\ last' = NoPass
             /\ End(c, "done")
             /\ UNCHANGED <<reading, row, analysable>>

ResolveOpen(c, a) ==
  Begin(c, "half", [op |-> "resolve", first |-> "anomalies", sets |-> {},
                    rows |-> [lines |-> {}, anomalies |-> {AnomalyRow(a)}]])

(***************************************************************************)
(* The OCR analysis: the invoice first, then its lines and anomalies are   *)
(* replaced.  Score, link to the order and duplicate flag stay.            *)
(***************************************************************************)
AnalyseOpen(c) ==
  /\ analysable
  /\ Begin(c, "lock", [op |-> "analyse"])

(* Of two analyses the first consumes the version both have read.          *)
AnalyseLock(c) ==
  /\ pc[c] = "lock"
  /\ IF analysable THEN Flush(c, "read") /\ UNCHANGED mem
     ELSE WaitsFor(c) = {} /\ Rollback(c)

AnalyseRead(c, r, first) ==
  /\ pc[c] = "read"
  /\ pc' = [pc EXCEPT ![c] = "half"]
  /\ mem' = [mem EXCEPT ![c] = [op |-> "analyse", reading |-> r, first |-> first,
                                rows |-> [lines |-> LineRows, anomalies |-> AnomalyRows(anomalies)]]]
  /\ UNCHANGED <<reading, lines, row, anomalies, audit, analysable, held, met, last>>

Extracted(c, r) ==
  [n \in DOMAIN r.lines |->
     [by |-> c, number |-> n, link |-> NoLink, ref |-> r.lines[n].ref, name |-> r.lines[n].name,
      quantity |-> r.lines[n].quantity, price |-> r.lines[n].price]]

AnalyseCommit(c) ==
  LET m == mem[c]
  IN /\ pc[c] = "last" /\ m.op = "analyse"
     /\ WaitsFor(c) = {}
     /\ reading' = m.reading
     /\ lines' = Extracted(c, m.reading)
     /\ anomalies' = {a \in anomalies : AnomalyRow(a) \notin m.rows.anomalies}
                     \cup {[by |-> c, gap |-> g, resolved |-> FALSE]
                           : g \in Gap(~m.reading.doubtful, "OTHER", "document", 0)}
     /\ analysable' = FALSE
     /\ last' = NoPass
     /\ End(c, "done")
     /\ UNCHANGED <<row, audit>>

(***************************************************************************)
(* Faults.  A call may fail anywhere before its commit; PostgreSQL rolls   *)
(* back one of the calls that wait for each other.                         *)
(***************************************************************************)
CallLost(c) ==
  /\ c \in Open
  /\ Rollback(c)

Deadlocked(S) == S # {} /\ \A c \in S : WaitsFor(c) \cap S # {}

DeadlockVictim(c) ==
  /\ \E S \in SUBSET Open : c \in S /\ Deadlocked(S)
  /\ Rollback(c)

MatchStep(c) == MatchOpen(c) \/ MatchReset(c) \/ MatchInvoice(c) \/ MatchCommit(c)

ConfirmStep(c) ==
  \/ \E p \in Payloads, first \in {"lines", "anomalies"} : ConfirmOpen(c, p, first)
  \/ \E a \in anomalies : ResolveOpen(c, a)
  \/ Half(c)
  \/ ConfirmCommit(c)

AnalyseStep(c) ==
  \/ AnalyseOpen(c)
  \/ AnalyseLock(c)
  \/ \E r \in Readings, first \in {"lines", "anomalies"} : AnalyseRead(c, r, first)
  \/ AnalyseCommit(c)

Next ==
  \/ OdooChanges /\ UNCHANGED mvars
  \/ \E c \in Calls :
       \/ pc[c] = "idle" /\ SyncStep(c) /\ UNCHANGED mvars
       \/ /\ MatchStep(c) \/ ConfirmStep(c) \/ AnalyseStep(c) \/ CallLost(c) \/ DeadlockVictim(c)
          /\ UNCHANGED ovars

Spec == Init /\ [][Next]_vars

(***************************************************************************)
(* Properties.                                                             *)
(***************************************************************************)
(* Types of the invoice's rows and of the calls, and of the cache.         *)
TypeOK ==
  /\ OTypeOK
  /\ reading \in Readings
  /\ row.order \in OrderIds \cup {NoOrder}
  /\ row.score \in Scores \cup {NoAmount}
  /\ \A n \in DOMAIN lines : lines[n].number = n /\ lines[n].link \in LineIds \cup {NoLink}
  /\ \A a \in anomalies : a.by \in Calls /\ a.resolved \in BOOLEAN
  /\ pc \in [Calls -> {"idle", "reset", "compared", "flushed", "lock", "read", "half", "last",
                       "done", "failed"}]

(* A pass that overlapped no other call leaves the invoice as it judged    *)
(* it, score, duplicate flag, links and open anomalies together, with      *)
(* nothing left of earlier passes; and a pass repeated at once, which      *)
(* finds the order by the link the first one left, would judge the same.   *)
(* About match, its reset and what it persists (docstring "idempotence").  *)
PassesApplyWhole ==
  last # NoPass =>
    LET found == {a \in anomalies : a.gap[1] \in MatchingCategories}
        links == last.result.links
    IN /\ row = last.result.row
       /\ {a.gap : a \in found} = last.result.gaps
       /\ \A a, b \in found : ~a.resolved /\ (a.gap = b.gap => a = b)
       /\ \A n \in DOMAIN links : lines[n].link = links[n]
       /\ last.seen = <<cache, rates>> => Compare(cache, rates, reading, row.order, lines) = last.result

(* An anomaly shows twice only when the two calls that wrote it overlapped.*)
(* About _reset_matching_anomalies, which deletes what it can see.         *)
DuplicatesExplained ==
  \A a, b \in anomalies : a.gap = b.gap => a.by = b.by \/ {a.by, b.by} \in met

(* What the buyer confirmed stays until confirmed again or analysed anew,  *)
(* and what it settled stays settled: no match that read a line before the *)
(* confirmation, and writes the line after it, takes the values back.  Two *)
(* confirmations that overlap are excepted.  About confirm, and the rows   *)
(* match flushes.                                                          *)
ConfirmationKept ==
  \A k \in DOMAIN audit :
    LET e == audit[k]
        later(l, f) == \E j \in k + 1 .. Len(audit) :
                         \E s \in audit[j].sets : s.line = l /\ f \in s.given
    IN \/ \E j \in DOMAIN audit : {e.by, audit[j].by} \in met
       \/ /\ \A s \in e.sets, n \in DOMAIN lines, f \in Confirmed :
               LineRow(lines[n]) = s.line /\ f \in s.given
                 => lines[n][f] = s.values[f] \/ later(s.line, f)
          /\ \A a \in anomalies : AnomalyRow(a) \in e.resolved => a.resolved

(* Matches, alone, never wait for each other in a circle: each circle of   *)
(* waiting calls contains one that confirms, resolves or analyses.  About  *)
(* the order anomalies, invoice, lines in which match flushes its rows.    *)
PassesNeverDeadlock ==
  \A S \in SUBSET Open : Deadlocked(S) => \E c \in S : mem[c].op # "match"
=============================================================================
