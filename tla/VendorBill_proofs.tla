-------------------------- MODULE VendorBill_proofs --------------------------
(***************************************************************************)
(* Theorems about VendorBill for any invoices, references, calls and any   *)
(* bound on the faults.                                                    *)
(***************************************************************************)
EXTENDS VendorBill, FiniteSetTheorems, TLAPS

HasMove(i) == \E m \in DOMAIN moves : moves[m] = i

(* What the sessions hold before their commit: a call about to succeed has *)
(* an identifier, and one about to declare the bill created has a move.    *)
Drafts ==
  /\ \A r \in Requests : pc[r] \in {"answered", "found", "flushed"} => dirty[r].link # 0
  /\ \A r \in Requests :
       pc[r] = "answered" \/ dirty[r].status = "VENDOR_BILL_CREATED" => HasMove(Target[r])
  /\ \A r \in Requests : reply[r] = "ok" => pc[r] \in {"flushed", "done"}

(* A row linked under an open call was linked by a call that overlaps it.  *)
Overlaps ==
  \A r \in Requests : Open(r) =>
    /\ link[Target[r]] # 0 => overlaps[Target[r]] > 0
    /\ \A q \in Requests \ {r} : Open(q) /\ Target[q] = Target[r] => overlaps[Target[r]] > 0

Created ==
  \A i \in Invoices : status[i] = "VENDOR_BILL_CREATED" => link[i] # 0 /\ HasMove(i)

BillInv == TypeOK /\ Drafts /\ Overlaps /\ Created /\ SuccessLinks

-----------------------------------------------------------------------------
LEMMA Targets == \A r \in Requests : Target[r] \in Invoices
BY VendorBillAssumption

LEMMA InitBillInv == Init => BillInv
<1> SUFFICES ASSUME Init PROVE BillInv
  OBVIOUS
<1>1. TypeOK
  BY VendorBillAssumption DEF Init, TypeOK, Clean
<1>2. Drafts /\ Overlaps /\ Created /\ SuccessLinks
  BY Targets DEF Init, Drafts, Overlaps, Created, SuccessLinks, Clean, Open
<1> QED
  BY <1>1, <1>2 DEF BillInv

(* A session that receives an identifier for its row.                      *)
Drafted == [status : {"VALIDATED", "VENDOR_BILL_CREATED"}, link : Nat, attempts : Nat]

LEMMA LinkDraft ==
  ASSUME dirty \in [Requests -> Drafted], NEW r \in Requests, NEW m \in Nat,
         dirty' = [dirty EXCEPT ![r].link = m, ![r].attempts = 0]
  PROVE  /\ dirty' \in [Requests -> Drafted]
         /\ dirty'[r].link = m /\ dirty'[r].status = dirty[r].status
         /\ \A q \in Requests \ {r} : dirty'[q] = dirty[q]
<1>1. ASSUME NEW d \in Drafted
      PROVE  /\ [d EXCEPT !.link = m, !.attempts = 0] \in Drafted
             /\ [d EXCEPT !.link = m, !.attempts = 0].link = m
             /\ [d EXCEPT !.link = m, !.attempts = 0].status = d.status
  BY DEF Drafted
<1>2. dirty' = [dirty EXCEPT ![r] = [dirty[r] EXCEPT !.link = m, !.attempts = 0]]
  OBVIOUS
<1>3. dirty[r] \in Drafted
  OBVIOUS
<1> QED
  BY <1>1, <1>2, <1>3

LEMMA SuffersTypes ==
  ASSUME TypeOK, NEW S \in SUBSET Invoices, Suffers(S)
  PROVE  /\ used' \in 0..MaxFaults /\ overlaps' = overlaps
         /\ faults' \in [Invoices -> Nat]
         /\ \A i \in Invoices : faults'[i] = IF i \in S THEN faults[i] + 1 ELSE faults[i]
         /\ \A i \in Invoices : faults'[i] = 0 => faults[i] = 0 /\ i \notin S
BY VendorBillAssumption DEF Suffers, TypeOK

LEMMA LoadBillInv ==
  ASSUME BillInv, NEW r \in Requests, Load(r) PROVE BillInv'
<1> USE DEF BillInv
<1> DEFINE i == Target[r]
<1>1. pc[r] = "idle" /\ UNCHANGED <<rowVars, moves, used, faults>> /\ i \in Invoices
  BY Targets DEF Load
<1>2. CASE link[i] = 0 /\ status[i] = "VALIDATED"
  <2>1. Ask(r)
    BY <1>2 DEF Load
  <2>2. PICK next \in {"calling", "searching"} : pc' = [pc EXCEPT ![r] = next]
    BY <2>1 DEF Ask, Goto
  <2>3. dirty' = [dirty EXCEPT ![r] = [status |-> "VALIDATED", link |-> 0, attempts |-> attempts[i]]]
    BY <1>2, <2>1 DEF Ask, Row
  <2>4. /\ sent' \subseteq Requests \X (1..2) /\ try' \in [Requests -> 0..2]
        /\ reply' = reply
    <3>1. reply' = reply /\ (sent' = sent \cup {<<r, 1>>} \/ sent' = sent)
      BY <2>1 DEF Ask
    <3>2. try' = [try EXCEPT ![r] = 1] \/ try' = try
      BY <2>1 DEF Ask
    <3>3. <<r, 1>> \in Requests \X (1..2)
      OBVIOUS
    <3>4. sent' \subseteq Requests \X (1..2)
      BY <3>1, <3>3 DEF TypeOK
    <3>5. try' \in [Requests -> 0..2]
      <4>1. try \in [Requests -> 0..2] /\ 1 \in 0..2
        BY DEF TypeOK
      <4> QED
        BY <3>2, <4>1
    <3> QED
      BY <3>1, <3>4, <3>5
  <2>5. /\ overlaps' \in [Invoices -> Nat]
        /\ \A j \in Invoices : overlaps[j] > 0 => overlaps'[j] > 0
        /\ (\E q \in Requests : Open(q) /\ Target[q] = i) => overlaps'[i] > 0
    <3>1. overlaps' = IF \E q \in Requests : Open(q) /\ Target[q] = i
                     THEN [overlaps EXCEPT ![i] = overlaps[i] + 1] ELSE overlaps
      BY <2>1 DEF Ask
    <3>2. overlaps \in [Invoices -> Nat]
      BY DEF TypeOK
    <3> QED
      BY <1>1, <3>1, <3>2
  <2>6. TypeOK'
    <3>1. dirty' \in [Requests -> [status : {"VALIDATED", "VENDOR_BILL_CREATED"}, link : Nat, attempts : Nat]]
      BY <1>1, <2>3 DEF TypeOK
    <3> QED
      BY <1>1, <2>2, <2>4, <2>5, <3>1 DEF TypeOK, rowVars
  <2>7. Drafts'
    BY <1>1, <2>2, <2>3, <2>4 DEF Drafts, HasMove, TypeOK
  <2>8. Overlaps'
    <3>1. \A q \in Requests \ {r} : Open(q)' <=> Open(q)
      BY <2>2 DEF Open, TypeOK
    <3>2. link' = link /\ link[i] = 0
      BY <1>1, <1>2 DEF rowVars
    <3>3. \A q \in Requests \ {r} : Open(q)' =>
            /\ link[Target[q]] # 0 => overlaps'[Target[q]] > 0
            /\ \A w \in Requests \ {q} : Open(w)' /\ Target[w] = Target[q] => overlaps'[Target[q]] > 0
      BY <2>5, <3>1, Targets DEF Overlaps
    <3>4. \A w \in Requests \ {r} : Open(w)' /\ Target[w] = Target[r] => overlaps'[Target[r]] > 0
      BY <2>5, <3>1
    <3> QED
      BY <3>2, <3>3, <3>4 DEF Overlaps
  <2>9. Created' /\ SuccessLinks'
    BY <1>1, <2>2, <2>4 DEF Created, HasMove, SuccessLinks, rowVars, TypeOK
  <2> QED
    BY <2>6, <2>7, <2>8, <2>9
<1>3. CASE ~(link[i] = 0 /\ status[i] = "VALIDATED")
  <2>1. /\ pc' = [pc EXCEPT ![r] = "done"]
        /\ reply' = [reply EXCEPT ![r] = IF link[i] # 0 THEN "ok" ELSE "conflict"]
        /\ UNCHANGED <<dirty, overlaps, sent, try>>
    BY <1>3 DEF Load, Goto
  <2>2. TypeOK'
    BY <1>1, <2>1 DEF TypeOK, rowVars
  <2>3. Drafts'
    BY <1>1, <2>1 DEF Drafts, HasMove, TypeOK
  <2>4. Overlaps'
    BY <1>1, <2>1 DEF Overlaps, Open, rowVars, TypeOK
  <2>5. Created' /\ SuccessLinks'
    BY <1>1, <2>1 DEF Created, HasMove, SuccessLinks, rowVars, TypeOK
  <2> QED
    BY <2>2, <2>3, <2>4, <2>5
<1> QED
  BY <1>2, <1>3

(* Odoo appends a move: the earlier ones keep their identifiers.           *)
LEMMA AppendMove ==
  ASSUME TypeOK, NEW j \in Invoices, moves' = Append(moves, j)
  PROVE  /\ moves' \in Seq(Invoices) /\ Len(moves') \in Nat \ {0}
         /\ \A i : HasMove(i) => HasMove(i)'
         /\ HasMove(j)'
<1>1. moves \in Seq(Invoices) /\ Len(moves) \in Nat
  BY DEF TypeOK
<1>2. moves' \in Seq(Invoices) /\ Len(moves') = Len(moves) + 1
  BY <1>1
<1>3. DOMAIN moves' = 1..(Len(moves) + 1) /\ DOMAIN moves = 1..Len(moves)
  BY <1>1, <1>2
<1>4. moves'[Len(moves) + 1] = j /\ \A m \in 1..Len(moves) : moves'[m] = moves[m]
  BY <1>1
<1> QED
  BY <1>1, <1>2, <1>3, <1>4 DEF HasMove

LEMMA CreatesBillInv ==
  ASSUME BillInv, NEW r \in Requests, NEW n \in 1..2, OdooCreates(r, n) PROVE BillInv'
<1> USE DEF BillInv
<1>1. /\ moves' = Append(moves, Target[r]) /\ sent' \subseteq sent
      /\ UNCHANGED <<rowVars, reply, try, history>>
  BY DEF OdooCreates
<1>2. /\ moves' \in Seq(Invoices) /\ Len(moves') \in Nat \ {0}
      /\ \A i : HasMove(i) => HasMove(i)'
      /\ HasMove(Target[r])'
  BY <1>1, AppendMove, Targets
<1>3. CASE UNCHANGED <<pc, dirty>>
  <2>1. TypeOK'
    BY <1>1, <1>2, <1>3 DEF TypeOK, rowVars, history
  <2>2. Drafts' /\ Overlaps'
    BY <1>1, <1>2, <1>3 DEF Drafts, Overlaps, Open, rowVars, history
  <2>3. Created' /\ SuccessLinks'
    BY <1>1, <1>2, <1>3 DEF Created, SuccessLinks, rowVars, history
  <2> QED
    BY <2>1, <2>2, <2>3
<1>4. CASE /\ pc[r] = "calling" /\ pc' = [pc EXCEPT ![r] = "answered"]
           /\ dirty' = [dirty EXCEPT ![r].link = Len(moves'), ![r].attempts = 0]
  <2>1. /\ dirty' \in [Requests -> Drafted]
        /\ dirty'[r].link = Len(moves') /\ dirty'[r].status = dirty[r].status
        /\ \A q \in Requests \ {r} : dirty'[q] = dirty[q]
    <3>1. dirty \in [Requests -> Drafted]
      BY DEF TypeOK, Drafted
    <3> QED
      BY <1>2, <1>4, <3>1, LinkDraft
  <2>2. pc'[r] = "answered" /\ \A q \in Requests \ {r} : pc'[q] = pc[q]
    BY <1>4 DEF TypeOK
  <2>6. TypeOK'
    BY <1>1, <1>2, <1>4, <2>1 DEF TypeOK, Drafted, rowVars, history
  <2>3. Drafts'
    BY <1>1, <1>2, <1>4, <2>1, <2>2 DEF Drafts
  <2>4. Overlaps'
    <3>1. \A q \in Requests : Open(q)' <=> Open(q)
      BY <1>4, <2>2 DEF Open
    <3> QED
      BY <1>1, <3>1 DEF Overlaps, rowVars, history
  <2>5. Created' /\ SuccessLinks'
    BY <1>1, <1>2, <1>4, <2>2 DEF Created, SuccessLinks, rowVars, history
  <2> QED
    BY <2>6, <2>3, <2>4, <2>5
<1> QED
  BY <1>3, <1>4 DEF OdooCreates, Goto

(* Steps of the transport and of the search that move a call between two   *)
(* open states and write no row.                                           *)
LEMMA CallBillInv ==
  ASSUME BillInv, NEW r \in Requests,
         \/ ConnectionReset(r) \/ GiveUp(r) \/ Search(r)
         \/ \E n \in 1..2 : OdooRefuses(r, n)
  PROVE  BillInv'
<1> USE DEF BillInv
<1>1. UNCHANGED <<rowVars, reply, moves, overlaps>>
  BY DEF ConnectionReset, GiveUp, Search, OdooRefuses, callVars, odooVars, history, Suffers
<1>2. /\ used' \in 0..MaxFaults /\ faults' \in [Invoices -> Nat]
      /\ \A i \in Invoices : faults'[i] = 0 => faults[i] = 0
  <2>1. UNCHANGED <<used, faults>> \/ Suffers({Target[r]})
    BY DEF ConnectionReset, GiveUp, Search, OdooRefuses, history
  <2>2. {Target[r]} \in SUBSET Invoices
    BY Targets
  <2> QED
    BY <2>1, <2>2, SuffersTypes DEF TypeOK
<1>3. sent' \subseteq Requests \X (1..2) /\ try' \in [Requests -> 0..2]
  <2>1. CASE ConnectionReset(r)
    <3>1. <<r, 2>> \in Requests \X (1..2)
      OBVIOUS
    <3> QED
      BY <2>1, <3>1 DEF ConnectionReset, TypeOK
  <2>2. CASE ~ConnectionReset(r)
    BY <2>2 DEF GiveUp, Search, OdooRefuses, odooVars, TypeOK
  <2> QED
    BY <2>1, <2>2
<1>4. \/ UNCHANGED <<pc, dirty>>
      \/ /\ pc[r] \in {"calling", "searching"} /\ pc' = [pc EXCEPT ![r] = "searching"]
         /\ dirty' = dirty
      \/ /\ pc[r] = "searching" /\ pc' = [pc EXCEPT ![r] = "raising"]
         /\ dirty' = dirty \/ dirty' = [dirty EXCEPT ![r].attempts = @ + 1]
      \/ /\ pc[r] = "searching" /\ pc' = [pc EXCEPT ![r] = "found"]
         /\ \E m \in DOMAIN moves : dirty' = [dirty EXCEPT ![r].link = m, ![r].attempts = 0]
  BY DEF ConnectionReset, GiveUp, Search, OdooRefuses, Goto, Found, callVars
<1>5. \A m \in DOMAIN moves : m \in Nat \ {0}
  <2>1. moves \in Seq(Invoices)
    BY DEF TypeOK
  <2> QED
    BY <2>1
<1>6. pc' \in [Requests -> {"idle", "calling", "answered", "searching", "found",
                            "raising", "flushed", "done"}]
  BY <1>4 DEF TypeOK
<1>7. /\ \A q \in Requests : Open(q)' <=> Open(q)
      /\ \A q \in Requests : pc'[q] \in {"flushed", "done"} <=> pc[q] \in {"flushed", "done"}
      /\ \A q \in Requests : pc'[q] = "done" <=> pc[q] = "done"
      /\ \A q \in Requests : pc'[q] = "answered" => pc[q] = "answered"
  BY <1>4 DEF Open, TypeOK
<1>8. /\ dirty' \in [Requests -> [status : {"VALIDATED", "VENDOR_BILL_CREATED"}, link : Nat, attempts : Nat]]
      /\ \A q \in Requests : dirty'[q].status = dirty[q].status
      /\ \A q \in Requests : pc'[q] \in {"answered", "found", "flushed"} => dirty'[q].link # 0
  <2>1. CASE dirty' = dirty /\ \A q \in Requests : pc'[q] \in {"answered", "found", "flushed"} => pc'[q] = pc[q]
    BY <2>1 DEF TypeOK, Drafts
  <2>2. CASE /\ pc[r] = "searching" /\ pc' = [pc EXCEPT ![r] = "raising"]
             /\ dirty' = [dirty EXCEPT ![r].attempts = @ + 1]
    <3>1. dirty \in [Requests -> [status : {"VALIDATED", "VENDOR_BILL_CREATED"}, link : Nat, attempts : Nat]]
      BY DEF TypeOK
    <3>2. dirty' \in [Requests -> [status : {"VALIDATED", "VENDOR_BILL_CREATED"}, link : Nat, attempts : Nat]]
      BY <2>2, <3>1
    <3>3. \A q \in Requests : dirty'[q].status = dirty[q].status /\ dirty'[q].link = dirty[q].link
      BY <2>2, <3>1
    <3>4. \A q \in Requests : pc'[q] \in {"answered", "found", "flushed"} => pc'[q] = pc[q]
      BY <2>2 DEF TypeOK
    <3> QED
      BY <3>2, <3>3, <3>4 DEF Drafts
  <2>3. CASE /\ pc[r] = "searching" /\ pc' = [pc EXCEPT ![r] = "found"]
             /\ \E m \in DOMAIN moves : dirty' = [dirty EXCEPT ![r].link = m, ![r].attempts = 0]
    <3>1. PICK m \in Nat \ {0} : dirty' = [dirty EXCEPT ![r].link = m, ![r].attempts = 0]
      BY <1>5, <2>3
    <3>2. dirty \in [Requests -> Drafted]
      BY DEF TypeOK, Drafted
    <3>3. /\ dirty' \in [Requests -> Drafted]
          /\ dirty'[r].link = m /\ dirty'[r].status = dirty[r].status
          /\ \A q \in Requests \ {r} : dirty'[q] = dirty[q]
      BY <3>1, <3>2, LinkDraft
    <3>4. \A q \in Requests \ {r} : pc'[q] = pc[q]
      BY <2>3 DEF TypeOK
    <3> QED
      BY <3>3, <3>4 DEF Drafts, Drafted
  <2> QED
    BY <1>4, <2>1, <2>2, <2>3 DEF TypeOK
<1>9. TypeOK'
  BY <1>1, <1>2, <1>3, <1>6, <1>8 DEF TypeOK, rowVars
<1>10. Drafts'
  BY <1>1, <1>7, <1>8 DEF Drafts, HasMove
<1>11. Overlaps'
  BY <1>1, <1>7 DEF Overlaps, rowVars
<1>12. Created' /\ SuccessLinks'
  BY <1>1, <1>2, <1>7, Targets DEF Created, HasMove, SuccessLinks, rowVars
<1> QED
  BY <1>9, <1>10, <1>11, <1>12

LEMMA RecordBillInv ==
  ASSUME BillInv, NEW r \in Requests, Record(r) PROVE BillInv'
<1> USE DEF BillInv
<1>1. /\ pc[r] \in {"answered", "found"} /\ pc' = [pc EXCEPT ![r] = "flushed"]
      /\ reply' = [reply EXCEPT ![r] = "ok"]
      /\ lock' = [lock EXCEPT ![Target[r]] = r]
      /\ UNCHANGED <<status, link, attempts, odooVars, history>>
  BY DEF Record, Goto
<1>2. \/ pc[r] = "answered" /\ dirty' = [dirty EXCEPT ![r].status = "VENDOR_BILL_CREATED"]
      \/ dirty' = dirty
  BY DEF Record
<1>3. /\ dirty' \in [Requests -> [status : {"VALIDATED", "VENDOR_BILL_CREATED"}, link : Nat, attempts : Nat]]
      /\ \A q \in Requests : dirty'[q].link = dirty[q].link
      /\ \A q \in Requests : dirty'[q].status = dirty[q].status \/ (q = r /\ pc[r] = "answered")
  <2>1. dirty \in [Requests -> [status : {"VALIDATED", "VENDOR_BILL_CREATED"}, link : Nat, attempts : Nat]]
    BY DEF TypeOK
  <2> QED
    BY <1>2, <2>1
<1>4. TypeOK'
  BY <1>1, <1>3 DEF TypeOK, odooVars, history
<1>5. Drafts'
  <2>1. \A q \in Requests : (pc'[q] = pc[q] /\ reply'[q] = reply[q]) \/ q = r
    BY <1>1 DEF TypeOK
  <2>2. pc'[r] = "flushed"
    BY <1>1 DEF TypeOK
  <2>3. \A i : HasMove(i)' <=> HasMove(i)
    BY <1>1 DEF HasMove, odooVars
  <2> QED
    BY <1>1, <1>3, <2>1, <2>2, <2>3 DEF Drafts
<1>6. Overlaps'
  <2>1. \A q \in Requests : Open(q)' <=> Open(q)
    BY <1>1 DEF Open, TypeOK
  <2> QED
    BY <1>1, <2>1 DEF Overlaps, history
<1>7. Created' /\ SuccessLinks'
  BY <1>1 DEF Created, HasMove, SuccessLinks, odooVars, history, TypeOK
<1> QED
  BY <1>4, <1>5, <1>6, <1>7

LEMMA UnlockTypes ==
  ASSUME TypeOK, NEW r \in Requests, Unlock(r) PROVE lock' \in [Invoices -> Requests \cup {NoOne}]
BY DEF Unlock, TypeOK

LEMMA CommitBillInv ==
  ASSUME BillInv, NEW r \in Requests, Commit(r) PROVE BillInv'
<1> USE DEF BillInv
<1> DEFINE i == Target[r]
<1>1. /\ pc[r] = "flushed" /\ pc' = [pc EXCEPT ![r] = "done"]
      /\ dirty' = [dirty EXCEPT ![r] = Clean]
      /\ link' = [link EXCEPT ![i] = dirty[r].link]
      /\ attempts' = [attempts EXCEPT ![i] = dirty[r].attempts]
      /\ UNCHANGED <<reply, odooVars, history>>
  BY DEF Commit, Close, Goto
<1>2. \/ dirty[r].status = "VENDOR_BILL_CREATED" /\ status' = [status EXCEPT ![i] = "VENDOR_BILL_CREATED"]
      \/ status' = status
  BY DEF Commit
<1>3. lock' \in [Invoices -> Requests \cup {NoOne}]
  BY UnlockTypes DEF Commit
<1>4. dirty[r].link \in Nat \ {0} /\ i \in Invoices /\ dirty[r].attempts \in Nat
  BY <1>1, Targets DEF Drafts, TypeOK
<1>5. link'[i] # 0 /\ \A j \in Invoices \ {i} : link'[j] = link[j]
  BY <1>1, <1>4 DEF TypeOK
<1>6. TypeOK'
  <2>1. status' \in [Invoices -> {"TO_REVIEW", "VALIDATED", "VENDOR_BILL_CREATED"}]
    BY <1>2 DEF TypeOK
  <2>2. dirty' \in [Requests -> [status : {"VALIDATED", "VENDOR_BILL_CREATED"}, link : Nat, attempts : Nat]]
    BY <1>1 DEF TypeOK, Clean
  <2> QED
    BY <1>1, <1>3, <1>4, <2>1, <2>2 DEF TypeOK, odooVars, history
<1>7. Drafts'
  BY <1>1 DEF Drafts, HasMove, odooVars, TypeOK, Clean
<1>8. Overlaps'
  <2>1. \A q \in Requests : Open(q)' => Open(q) /\ q # r
    BY <1>1 DEF Open, TypeOK
  <2>2. Open(r)
    BY <1>1 DEF Open
  <2>3. ASSUME NEW q \in Requests, Open(q)', link'[Target[q]] # 0 PROVE overlaps[Target[q]] > 0
    <3>1. CASE Target[q] = i
      BY <2>1, <2>2, <2>3, <3>1 DEF Overlaps
    <3>2. CASE Target[q] # i
      BY <1>5, <2>1, <2>3, <3>2, Targets DEF Overlaps
    <3> QED
      BY <3>1, <3>2
  <2> QED
    BY <1>1, <2>1, <2>3 DEF Overlaps, history
<1>9. Created'
  <2>1. \A j \in Invoices : HasMove(j)' <=> HasMove(j)
    BY <1>1 DEF HasMove, odooVars
  <2>2. dirty[r].status = "VENDOR_BILL_CREATED" => HasMove(i)
    BY DEF Drafts
  <2>3. \A j \in Invoices : status'[j] = "VENDOR_BILL_CREATED" => HasMove(j)
    BY <1>2, <2>2 DEF Created, TypeOK
  <2>4. \A j \in Invoices \ {i} : status'[j] = status[j]
    BY <1>2 DEF TypeOK
  <2> QED
    BY <1>5, <2>1, <2>3, <2>4 DEF Created
<1>10. SuccessLinks'
  BY <1>1, <1>5, Targets DEF SuccessLinks, history, TypeOK
<1> QED
  BY <1>6, <1>7, <1>8, <1>9, <1>10

(* A call that ends without a commit: had it answered success, a fault     *)
(* fell on its invoice.                                                    *)
LEMMA EndBillInv ==
  ASSUME BillInv, NEW r \in Requests, Close(r),
         UNCHANGED <<status, link, attempts, overlaps, odooVars>>,
         lock' \in [Invoices -> Requests \cup {NoOne}],
         used' \in 0..MaxFaults, faults' \in [Invoices -> Nat],
         \A j \in Invoices : faults'[j] = 0 => faults[j] = 0,
         \/ reply' = reply /\ faults'[Target[r]] # 0
         \/ reply' = [reply EXCEPT ![r] = "error"]
  PROVE  BillInv'
<1> USE DEF BillInv
<1>1. /\ pc' = [pc EXCEPT ![r] = "done"]
      /\ dirty' = [dirty EXCEPT ![r] = [status |-> "VALIDATED", link |-> 0, attempts |-> 0]]
  BY DEF Close, Goto, Clean
<1>2. /\ reply' \in [Requests -> {"none", "ok", "error", "conflict"}]
      /\ \A q \in Requests : reply'[q] = "ok" => reply[q] = "ok"
      /\ reply'[r] = "ok" => faults'[Target[r]] # 0
  BY DEF TypeOK
<1>3. TypeOK'
  BY <1>1, <1>2 DEF TypeOK, odooVars
<1>4. Drafts'
  BY <1>1, <1>2 DEF Drafts, HasMove, odooVars, TypeOK
<1>5. Overlaps'
  <2>1. \A q \in Requests : Open(q)' => Open(q)
    BY <1>1 DEF Open, TypeOK
  <2> QED
    BY <2>1 DEF Overlaps
<1>6. Created' /\ SuccessLinks'
  <2>1. \A q \in Requests \ {r} : pc'[q] = pc[q]
    BY <1>1 DEF TypeOK
  <2> QED
    BY <1>2, <2>1, Targets DEF Created, HasMove, SuccessLinks, odooVars
<1> QED
  BY <1>3, <1>4, <1>5, <1>6

LEMMA NextBillInv == BillInv /\ [Next]_vars => BillInv'
<1> SUFFICES ASSUME BillInv, [Next]_vars PROVE BillInv'
  OBVIOUS
<1> USE DEF BillInv
<1>1. ASSUME NEW r \in Requests, CommitLost(r) PROVE BillInv'
  <2>1. {Target[r]} \in SUBSET Invoices
    BY Targets
  <2>2. /\ used' \in 0..MaxFaults /\ overlaps' = overlaps /\ faults' \in [Invoices -> Nat]
        /\ \A j \in Invoices : faults'[j] = 0 => faults[j] = 0 /\ j # Target[r]
    BY <1>1, <2>1, SuffersTypes DEF CommitLost
  <2>3. lock' \in [Invoices -> Requests \cup {NoOne}]
    BY <1>1, UnlockTypes DEF CommitLost
  <2>4. Close(r) /\ UNCHANGED <<status, link, attempts, reply, odooVars>>
    BY <1>1 DEF CommitLost
  <2>5. faults'[Target[r]] # 0
    BY <2>2, Targets
  <2> QED
    BY <2>2, <2>3, <2>4, <2>5, EndBillInv
<1>2. ASSUME NEW r \in Requests, Rollback(r) PROVE BillInv'
  <2>1. Close(r) /\ reply' = [reply EXCEPT ![r] = "error"] /\ UNCHANGED <<rowVars, odooVars, history>>
    BY <1>2 DEF Rollback
  <2>2. /\ lock' \in [Invoices -> Requests \cup {NoOne}]
        /\ used' \in 0..MaxFaults /\ faults' \in [Invoices -> Nat] /\ faults' = faults
        /\ UNCHANGED <<status, link, attempts, overlaps, odooVars>>
    BY <2>1 DEF rowVars, history, TypeOK
  <2> QED
    BY <2>1, <2>2, EndBillInv
<1>3. ASSUME Crash PROVE BillInv'
  <2> DEFINE S == {q \in Requests : pc[q] # "idle"}
  <2>1. /\ used' \in 0..MaxFaults /\ overlaps' = overlaps /\ faults' \in [Invoices -> Nat]
        /\ \A j \in Invoices : faults'[j] # 0
    BY <1>3, SuffersTypes DEF Crash
  <2>2. lock' \in [Invoices -> Requests \cup {NoOne}]
    BY <1>3 DEF Crash
  <2>3. /\ pc' = [q \in Requests |-> IF q \in S THEN "done" ELSE pc[q]]
        /\ dirty' = [q \in Requests |-> Clean]
        /\ UNCHANGED <<status, link, attempts, reply, odooVars>>
    BY <1>3 DEF Crash, TypeOK
  <2>4. TypeOK'
    BY <2>1, <2>2, <2>3 DEF TypeOK, odooVars, Clean
  <2>5. Drafts'
    BY <2>3 DEF Drafts, Clean
  <2>6. Overlaps'
    BY <2>3 DEF Overlaps, Open
  <2>7. Created' /\ SuccessLinks'
    BY <2>1, <2>3, Targets DEF Created, HasMove, SuccessLinks, odooVars
  <2> QED
    BY <2>4, <2>5, <2>6, <2>7
<1>4. CASE UNCHANGED vars
  <2> USE <1>4 DEF vars, rowVars, callVars, odooVars, history
  <2>1. TypeOK' /\ Created' /\ SuccessLinks'
    BY DEF TypeOK, Created, HasMove, SuccessLinks
  <2>2. Drafts' /\ Overlaps'
    BY DEF Drafts, HasMove, Overlaps, Open
  <2> QED
    BY <2>1, <2>2
<1> QED
  BY <1>1, <1>2, <1>3, <1>4, LoadBillInv, CreatesBillInv, CallBillInv, RecordBillInv, CommitBillInv DEF Next

-----------------------------------------------------------------------------
(* The inductive invariant: what the sessions, the rows and Odoo say of    *)
(* each other.                                                             *)
THEOREM BillInvariant == Spec => []BillInv
<1> QED
  BY InitBillInv, NextBillInv, PTL DEF Spec

(* Every variable keeps its type; the transport sends a call twice at most. *)
THEOREM BillTypes == Spec => []TypeOK
<1>1. BillInv => TypeOK
  BY DEF BillInv
<1> QED
  BY <1>1, BillInvariant, PTL

(* An invoice declared billed has its own move in Odoo, never only the one *)
(* of another supplier found by its number.                                *)
THEOREM CreatedBillsExist == Spec => []CreatedHasItsMove
<1>1. BillInv => CreatedHasItsMove
  BY DEF BillInv, Created, HasMove, CreatedHasItsMove, MovesOf
<1> QED
  BY <1>1, BillInvariant, PTL

(* Beside it: a call answers success before it commits, and what a row    *)
(* shows was committed by such a call.                                     *)
AnswerInv ==
  /\ \A r \in Requests : pc[r] = "flushed" => reply[r] = "ok"
  /\ LinksAnswered

LEMMA CommitAnswers ==
  ASSUME BillInv, AnswerInv, NEW r \in Requests, Commit(r) PROVE AnswerInv'
<1>1. /\ pc[r] = "flushed" /\ reply[r] = "ok" /\ pc' = [pc EXCEPT ![r] = "done"] /\ reply' = reply
      /\ \A i \in Invoices \ {Target[r]} : link'[i] = link[i] /\ status'[i] = status[i]
  BY DEF Commit, Close, Goto, AnswerInv, BillInv, TypeOK
<1>2. pc'[r] = "done" /\ \A q \in Requests \ {r} : pc'[q] = pc[q]
  BY <1>1 DEF BillInv, TypeOK
<1> QED
  BY <1>1, <1>2 DEF AnswerInv, LinksAnswered

(* Every other step leaves the rows, and the answers given, alone.         *)
LEMMA NextAnswerInv == BillInv /\ AnswerInv /\ [Next]_vars => AnswerInv'
<1> SUFFICES ASSUME BillInv, AnswerInv, [Next]_vars PROVE AnswerInv'
  OBVIOUS
<1>1. CASE \E r \in Requests : Commit(r)
  BY <1>1, CommitAnswers
<1>2. CASE \A r \in Requests : ~Commit(r)
  <2>1. link' = link /\ status' = status
    BY <1>2 DEF Next, Load, ConnectionReset, GiveUp, Search, Record, CommitLost, Rollback,
                OdooCreates, OdooRefuses, Crash, vars, rowVars
  <2>2. \A q \in Requests :
          /\ pc[q] = "done" => pc'[q] = "done" /\ reply'[q] = reply[q]
          /\ pc'[q] = "flushed" => reply'[q] = "ok"
    <3>1. CASE \E r \in Requests : Load(r) \/ Record(r) \/ Rollback(r)
      BY <3>1 DEF Load, Ask, Record, Rollback, Close, Goto, AnswerInv, BillInv, TypeOK
    <3>2. CASE \E r \in Requests : ConnectionReset(r) \/ GiveUp(r) \/ Search(r) \/ CommitLost(r)
      BY <3>2 DEF ConnectionReset, GiveUp, Search, CommitLost, Close, Goto, callVars, AnswerInv,
                  BillInv, TypeOK
    <3>3. CASE \E r \in Requests, n \in 1..2 : OdooCreates(r, n) \/ OdooRefuses(r, n)
      BY <3>3 DEF OdooCreates, OdooRefuses, Goto, AnswerInv, BillInv, TypeOK
    <3>4. CASE Crash \/ UNCHANGED vars
      BY <3>4 DEF Crash, vars, callVars, AnswerInv
    <3> QED
      BY <1>2, <3>1, <3>2, <3>3, <3>4 DEF Next
  <2> QED
    BY <2>1, <2>2 DEF AnswerInv, LinksAnswered
<1> QED
  BY <1>1, <1>2

(* Whatever faults fall on other invoices: an answer of success is a       *)
(* linked invoice, and a linked invoice has its answer of success, so that *)
(* a call that ends in an error leaves no bill behind.                     *)
THEOREM SuccessesAreLinked == Spec => []SuccessIsLinked
<1>1. Init => AnswerInv
  BY DEF Init, AnswerInv, LinksAnswered
<1>2. BillInv /\ AnswerInv => SuccessIsLinked
  BY DEF BillInv, AnswerInv, SuccessIsLinked
<1> QED
  BY <1>1, <1>2, NextAnswerInv, BillInvariant, PTL DEF Spec

(* Without overlapping calls on an invoice, its link is set once.          *)
THEOREM LinksAreStable == Spec => LinkIsStable
<1>1. ASSUME BillInv, Next, NEW i \in Invoices, link[i] # 0, overlaps[i] = 0
      PROVE  link'[i] = link[i]
  <2>1. ASSUME NEW r \in Requests, Commit(r) PROVE link'[i] = link[i]
    <3>1. Target[r] # i
      BY <1>1, <2>1 DEF BillInv, Overlaps, Open, Commit
    <3> QED
      BY <2>1, <3>1 DEF Commit, BillInv, TypeOK
  <2>2. CASE \A r \in Requests : ~Commit(r)
    BY <1>1, <2>2 DEF Next, Load, ConnectionReset, GiveUp, Search, Record, CommitLost, Rollback,
                     OdooCreates, OdooRefuses, Crash, rowVars
  <2> QED
    BY <2>1, <2>2
<1>2. BillInv /\ [Next]_vars =>
        [\A i \in Invoices : link[i] # 0 /\ overlaps[i] = 0 => link'[i] = link[i]]_vars
  BY <1>1
<1> QED
  BY <1>2, BillInvariant, PTL DEF Spec, LinkIsStable

-----------------------------------------------------------------------------
(* The creates on their way to Odoo, and who will make good for one more   *)
(* move: the link, or a call that has not given its answer up.             *)
Messages(i) == {m \in sent : Target[m[1]] = i}

Committed(i) ==
  \/ link[i] # 0
  \/ \E r \in Requests : Target[r] = i /\ pc[r] \in {"calling", "answered", "flushed"}

Pledge(i) == IF Committed(i) THEN 1 ELSE 0

Bills(i) == Cardinality(MovesOf(i)) + Cardinality(Messages(i))

(* Whatever Odoo has created or may still create for an invoice is paid    *)
(* for by a fault, by an overlap, or by the commitment.                    *)
Accounts ==
  /\ IsFiniteSet(sent)
  /\ \A i \in Invoices : Bills(i) <= faults[i] + overlaps[i] + Pledge(i)

LEMMA MovesCounted ==
  ASSUME TypeOK, NEW i PROVE IsFiniteSet(MovesOf(i)) /\ Cardinality(MovesOf(i)) \in Nat
<1>1. moves \in Seq(Invoices) /\ Len(moves) \in Nat
  BY DEF TypeOK
<1>2. MovesOf(i) \in SUBSET (1..Len(moves))
  BY <1>1 DEF MovesOf
<1>3. IsFiniteSet(1..Len(moves))
  BY <1>1, FS_Interval
<1>4. IsFiniteSet(MovesOf(i))
  BY <1>2, <1>3, FS_Subset
<1> QED
  BY <1>4, FS_CardinalityType

LEMMA MessagesCounted ==
  ASSUME IsFiniteSet(sent), NEW i
  PROVE  IsFiniteSet(Messages(i)) /\ Cardinality(Messages(i)) \in Nat
<1>1. Messages(i) \in SUBSET sent
  BY DEF Messages
<1>2. IsFiniteSet(Messages(i))
  BY <1>1, FS_Subset
<1> QED
  BY <1>2, FS_CardinalityType

(* Odoo's journal counts one move more for the invoice it is appended for. *)
LEMMA AppendCounted ==
  ASSUME TypeOK, NEW j \in Invoices, moves' = Append(moves, j)
  PROVE  \A i \in Invoices :
           Cardinality(MovesOf(i))' = Cardinality(MovesOf(i)) + (IF i = j THEN 1 ELSE 0)
<1> DEFINE n == Len(moves) + 1
<1>1. moves \in Seq(Invoices) /\ Len(moves) \in Nat /\ n \in Nat
  BY DEF TypeOK
<1>2. DOMAIN moves' = 1..n /\ DOMAIN moves = 1..Len(moves) /\ n \notin DOMAIN moves
  BY <1>1
<1>3. moves'[n] = j /\ \A m \in 1..Len(moves) : moves'[m] = moves[m]
  BY <1>1
<1>4. 1..n = (1..Len(moves)) \cup {n}
  BY <1>1
<1>5. MovesOf(j)' = MovesOf(j) \cup {n} /\ n \notin MovesOf(j)
  BY <1>2, <1>3, <1>4 DEF MovesOf
<1>6. ASSUME NEW i \in Invoices, i # j PROVE MovesOf(i)' = MovesOf(i)
  BY <1>2, <1>3, <1>4, <1>6 DEF MovesOf
<1>7. Cardinality(MovesOf(j)') = Cardinality(MovesOf(j)) + 1
  BY <1>5, MovesCounted, FS_AddElement
<1>8. \A i \in Invoices : Cardinality(MovesOf(i)) \in Nat
  BY MovesCounted
<1> QED
  BY <1>6, <1>7, <1>8

(* One message more, or one less, on its way.                              *)
LEMMA SendCounted ==
  ASSUME IsFiniteSet(sent), NEW r \in Requests, NEW n, sent' = sent \cup {<<r, n>>}
  PROVE  /\ IsFiniteSet(sent')
         /\ Cardinality(Messages(Target[r]))' <= Cardinality(Messages(Target[r])) + 1
         /\ \A i \in Invoices \ {Target[r]} : Messages(i)' = Messages(i)
<1> DEFINE j == Target[r]
<1>1. Messages(j)' = Messages(j) \cup {<<r, n>>}
  BY DEF Messages
<1>2. Cardinality(Messages(j)') = IF <<r, n>> \in Messages(j) THEN Cardinality(Messages(j))
                                                              ELSE Cardinality(Messages(j)) + 1
  BY <1>1, MessagesCounted, FS_AddElement
<1>3. Cardinality(Messages(j)) \in Nat
  BY MessagesCounted
<1>4. Cardinality(Messages(j))' <= Cardinality(Messages(j)) + 1
  BY <1>2, <1>3
<1>5. IsFiniteSet(sent')
  BY FS_AddElement
<1>6. \A i \in Invoices \ {j} : Messages(i)' = Messages(i)
  BY DEF Messages
<1> QED
  BY <1>4, <1>5, <1>6

LEMMA TakeCounted ==
  ASSUME IsFiniteSet(sent), NEW r \in Requests, NEW n, <<r, n>> \in sent,
         sent' = sent \ {<<r, n>>}
  PROVE  /\ IsFiniteSet(sent')
         /\ \A i \in Invoices :
              Cardinality(Messages(i)) =
                Cardinality(Messages(i))' + (IF i = Target[r] THEN 1 ELSE 0)
<1> DEFINE j == Target[r]
<1>1. Messages(j)' = Messages(j) \ {<<r, n>>} /\ <<r, n>> \in Messages(j)
  BY DEF Messages
<1>2. Cardinality(Messages(j)') = Cardinality(Messages(j)) - 1
  BY <1>1, MessagesCounted, FS_RemoveElement
<1>3. \A i \in Invoices : Cardinality(Messages(i)) \in Nat
  BY MessagesCounted
<1>4. ASSUME NEW i \in Invoices, i # j PROVE Messages(i)' = Messages(i)
  BY <1>4 DEF Messages
<1>5. IsFiniteSet(sent')
  BY FS_RemoveElement
<1>6. Cardinality(Messages(j)) \in Nat
  BY MessagesCounted
<1> QED
  BY <1>2, <1>3, <1>4, <1>5, <1>6

(* How the account of an invoice may change in a step.                     *)
Balanced(i) ==
  \/ Bills(i)' <= Bills(i) /\ Pledge(i)' >= Pledge(i)
  \/ Bills(i)' <= Bills(i) /\ faults'[i] > faults[i]
  \/ Bills(i)' < Bills(i)
  \/ Bills(i)' <= Bills(i) + 1 /\ faults'[i] > faults[i] /\ Pledge(i)' >= Pledge(i)
  \/ Bills(i)' <= Bills(i) + 1 /\ overlaps'[i] > overlaps[i] /\ Pledge(i)' >= Pledge(i)
  \/ Bills(i)' <= Bills(i) + 1 /\ Pledge(i)' > Pledge(i)

LEMMA BalancedStep ==
  ASSUME TypeOK, TypeOK', Accounts, IsFiniteSet(sent'),
         \A i \in Invoices : faults'[i] >= faults[i] /\ overlaps'[i] >= overlaps[i],
         \A i \in Invoices : Balanced(i)
  PROVE  Accounts'
<1> SUFFICES ASSUME NEW i \in Invoices
             PROVE  Bills(i)' <= faults'[i] + overlaps'[i] + Pledge(i)'
  BY DEF Accounts
<1>1. /\ faults[i] \in Nat /\ overlaps[i] \in Nat /\ faults'[i] \in Nat /\ overlaps'[i] \in Nat
      /\ faults'[i] >= faults[i] /\ overlaps'[i] >= overlaps[i]
  BY DEF TypeOK
<1>2. Pledge(i) \in {0, 1} /\ Pledge(i)' \in {0, 1}
  BY DEF Pledge
<1>3. Bills(i) \in Nat /\ Bills(i)' \in Nat
  <2>1. Cardinality(MovesOf(i)) \in Nat /\ Cardinality(Messages(i)) \in Nat
    BY MovesCounted, MessagesCounted DEF Accounts
  <2>2. Cardinality(MovesOf(i))' \in Nat
    <3>1. moves' \in Seq(Invoices) /\ Len(moves') \in Nat
      BY DEF TypeOK
    <3>2. MovesOf(i)' \in SUBSET (1..Len(moves'))
      BY <3>1 DEF MovesOf
    <3>4. IsFiniteSet(1..Len(moves'))
      BY <3>1, FS_Interval
    <3>3. IsFiniteSet(MovesOf(i)')
      BY <3>2, <3>4, FS_Subset
    <3> QED
      BY <3>3, FS_CardinalityType
  <2>3. Cardinality(Messages(i))' \in Nat
    <3>1. Messages(i)' \in SUBSET sent'
      BY DEF Messages
    <3>2. IsFiniteSet(Messages(i)')
      BY <3>1, FS_Subset
    <3> QED
      BY <3>2, FS_CardinalityType
  <2> QED
    BY <2>1, <2>2, <2>3 DEF Bills
<1>4. Bills(i) <= faults[i] + overlaps[i] + Pledge(i)
  BY DEF Accounts
<1>5. Balanced(i)
  OBVIOUS
<1> QED
  BY <1>1, <1>2, <1>3, <1>4, <1>5 DEF Balanced

(* What a step does to the commitments, said of the columns they read.     *)
LEMMA PledgeKept ==
  ASSUME NEW i \in Invoices, link[i] # 0 => link'[i] # 0,
         \A r \in Requests : Target[r] = i /\ pc[r] \in {"calling", "answered", "flushed"}
                             => pc'[r] \in {"calling", "answered", "flushed"}
  PROVE  Pledge(i)' >= Pledge(i)
BY DEF Pledge, Committed

LEMMA OneCallMoves ==
  ASSUME TypeOK, NEW r \in Requests, NEW next, Goto(r, next)
  PROVE  \A q \in Requests : pc'[q] = pc[q] \/ q = r
<1>1. DOMAIN pc = Requests
  BY DEF TypeOK
<1> QED
  BY <1>1 DEF Goto

LEMMA CountsTypes ==
  ASSUME TypeOK, Accounts, NEW i \in Invoices
  PROVE  /\ Bills(i) \in Nat /\ Cardinality(MovesOf(i)) \in Nat
         /\ Cardinality(Messages(i)) \in Nat
BY MovesCounted, MessagesCounted DEF Accounts, Bills

LEMMA LoadAccounts ==
  ASSUME BillInv, TypeOK', Accounts, NEW r \in Requests, Load(r) PROVE Accounts'
<1> DEFINE i == Target[r]
<1>1. TypeOK /\ i \in Invoices
  BY Targets DEF BillInv
<1>2. pc[r] = "idle" /\ UNCHANGED <<link, moves, faults>>
  BY DEF Load, rowVars
<1>3. \E next \in {"calling", "searching", "done"} : pc' = [pc EXCEPT ![r] = next]
  BY DEF Load, Ask, Goto
<1>4. \A q \in Requests : q # r => pc'[q] = pc[q]
  BY <1>3
<1>5. \A j \in Invoices : Pledge(j)' >= Pledge(j)
  BY <1>2, <1>4, PledgeKept
<1>6. \A j \in Invoices : faults'[j] >= faults[j] /\ overlaps'[j] >= overlaps[j]
  <2>1. faults' = faults /\ (overlaps' = overlaps \/ overlaps' = [overlaps EXCEPT ![i] = @ + 1])
    BY <1>2 DEF Load, Ask
  <2>2. overlaps \in [Invoices -> Nat] /\ faults \in [Invoices -> Nat]
    BY <1>1 DEF TypeOK
  <2>3. CASE overlaps' = overlaps
    BY <2>1, <2>2, <2>3
  <2>4. CASE overlaps' = [overlaps EXCEPT ![i] = overlaps[i] + 1]
    BY <2>1, <2>2, <2>4
  <2> QED
    BY <2>1, <2>3, <2>4
<1>7. CASE sent' = sent
  <2>1. \A j \in Invoices : Bills(j)' = Bills(j) /\ Bills(j) \in Nat
    BY <1>1, <1>2, <1>7, CountsTypes DEF Bills, MovesOf, Messages
  <2>2. IsFiniteSet(sent')
    BY <1>7 DEF Accounts
  <2> QED
    BY <1>1, <1>5, <1>6, <2>1, <2>2, BalancedStep DEF Balanced
<1>8. CASE sent' # sent
  <2>1. /\ link[i] = 0 /\ Goto(r, "calling") /\ sent' = sent \cup {<<r, 1>>}
        /\ overlaps' = IF \E q \in Requests : Open(q) /\ Target[q] = i
                       THEN [overlaps EXCEPT ![i] = @ + 1] ELSE overlaps
    BY <1>8 DEF Load, Ask
  <2>2. /\ IsFiniteSet(sent')
        /\ Cardinality(Messages(i))' <= Cardinality(Messages(i)) + 1
        /\ \A j \in Invoices \ {i} : Messages(j)' = Messages(j)
    BY <2>1, SendCounted DEF Accounts
  <2>3. \A j \in Invoices \ {i} : Bills(j)' = Bills(j) /\ Bills(j) \in Nat
    BY <1>1, <1>2, <2>2, CountsTypes DEF Bills, MovesOf
  <2>4. Bills(i)' <= Bills(i) + 1
    <3>1. MovesOf(i)' = MovesOf(i)
      BY <1>2 DEF MovesOf
    <3>2. Cardinality(MovesOf(i)) \in Nat /\ Cardinality(Messages(i)) \in Nat
      BY <1>1, CountsTypes
    <3>3. Cardinality(Messages(i))' \in Nat
      <4>1. Messages(i)' \in SUBSET sent'
        BY DEF Messages
      <4> QED
        BY <2>2, <4>1, FS_Subset, FS_CardinalityType
    <3> QED
      BY <2>2, <3>1, <3>2, <3>3 DEF Bills
  <2>5. overlaps'[i] > overlaps[i] \/ Pledge(i)' > Pledge(i)
    <3>1. CASE \E q \in Requests : Open(q) /\ Target[q] = i
      <4>1. overlaps \in [Invoices -> Nat] /\ overlaps' = [overlaps EXCEPT ![i] = overlaps[i] + 1]
        BY <1>1, <2>1, <3>1 DEF TypeOK
      <4> QED
        BY <1>1, <4>1
    <3>2. CASE ~\E q \in Requests : Open(q) /\ Target[q] = i
      <4>1. ~Committed(i)
        BY <2>1, <3>2 DEF Committed, Open
      <4>2. pc'[r] = "calling"
        BY <1>1, <2>1 DEF Goto, TypeOK
      <4>3. Committed(i)'
        BY <4>2 DEF Committed
      <4> QED
        BY <4>1, <4>3 DEF Pledge
    <3> QED
      BY <3>1, <3>2
  <2>6. \A j \in Invoices : Balanced(j)
    BY <1>5, <2>3, <2>4, <2>5 DEF Balanced
  <2> QED
    BY <1>1, <1>6, <2>2, <2>6, BalancedStep
<1> QED
  BY <1>7, <1>8

(* Odoo executes or refuses what was on its way.                           *)
LEMMA OdooAccounts ==
  ASSUME BillInv, TypeOK', Accounts, NEW r \in Requests, NEW n \in 1..2,
         OdooCreates(r, n) \/ OdooRefuses(r, n)
  PROVE  Accounts'
<1> DEFINE i == Target[r]
<1>1. TypeOK /\ i \in Invoices
  BY Targets DEF BillInv
<1>2. /\ <<r, n>> \in sent /\ sent' = sent \ {<<r, n>>}
      /\ UNCHANGED <<link, faults, overlaps>>
  BY DEF OdooCreates, OdooRefuses, rowVars, history
<1>3. /\ IsFiniteSet(sent')
      /\ \A j \in Invoices : Cardinality(Messages(j)) =
                              Cardinality(Messages(j))' + (IF j = i THEN 1 ELSE 0)
  BY <1>2, TakeCounted DEF Accounts
<1>4. /\ \A j \in Invoices : Cardinality(MovesOf(j)) \in Nat /\ Cardinality(Messages(j)) \in Nat
      /\ \A j \in Invoices : Bills(j) \in Nat
  BY <1>1, CountsTypes
<1>5. \A j \in Invoices : Cardinality(Messages(j))' \in Int
  <2>1. \A j \in Invoices : Messages(j)' \in SUBSET sent'
    BY DEF Messages
  <2> QED
    BY <1>3, <2>1, FS_Subset, FS_CardinalityType
<1>6. \A j \in Invoices : faults'[j] >= faults[j] /\ overlaps'[j] >= overlaps[j]
  BY <1>2 DEF TypeOK
<1>7. CASE OdooCreates(r, n)
  <2>1. \A j \in Invoices :
          Cardinality(MovesOf(j))' = Cardinality(MovesOf(j)) + (IF j = i THEN 1 ELSE 0)
    BY <1>1, <1>7, AppendCounted DEF OdooCreates
  <2>2. \A j \in Invoices : Bills(j)' = Bills(j)
    BY <1>3, <1>4, <1>5, <2>1 DEF Bills
  <2>3. UNCHANGED pc \/ Goto(r, "answered")
    BY <1>7 DEF OdooCreates
  <2>4. UNCHANGED pc \/ pc'[r] = "answered"
    BY <1>1, <2>3 DEF Goto, TypeOK
  <2>5. \A q \in Requests : pc'[q] = pc[q] \/ (q = r /\ pc'[q] = "answered")
    BY <1>1, <2>3, <2>4, OneCallMoves
  <2>6. \A j \in Invoices : Pledge(j)' >= Pledge(j)
    BY <1>2, <2>5, PledgeKept
  <2> QED
    BY <1>1, <1>3, <1>4, <1>6, <2>2, <2>6, BalancedStep DEF Balanced
<1>8. CASE OdooRefuses(r, n)
  <2>1. \A j \in Invoices : MovesOf(j)' = MovesOf(j)
    BY <1>8 DEF OdooRefuses, MovesOf
  <2>2. Bills(i)' < Bills(i) /\ \A j \in Invoices \ {i} : Bills(j)' = Bills(j)
    BY <1>1, <1>3, <1>4, <1>5, <2>1 DEF Bills
  <2>3. \A q \in Requests : pc'[q] = pc[q] \/ q = r
    BY <1>1, <1>8, OneCallMoves DEF OdooRefuses
  <2>4. \A j \in Invoices \ {i} : Pledge(j)' >= Pledge(j)
    BY <1>2, <2>3, PledgeKept
  <2> QED
    BY <1>1, <1>3, <1>4, <1>6, <2>2, <2>4, BalancedStep DEF Balanced
<1> QED
  BY <1>7, <1>8

(* Nothing is sent and Odoo does nothing: a commitment may only be let go  *)
(* with a fault.                                                           *)
LEMMA QuietAccounts ==
  ASSUME BillInv, TypeOK', Accounts, UNCHANGED <<sent, moves, overlaps>>,
         \A i \in Invoices : faults'[i] >= faults[i],
         \A i \in Invoices : faults'[i] > faults[i] \/ Pledge(i)' >= Pledge(i)
  PROVE  Accounts'
<1>1. TypeOK /\ IsFiniteSet(sent')
  BY DEF BillInv, Accounts
<1>2. \A i \in Invoices : Bills(i)' = Bills(i) /\ Bills(i) \in Nat
  BY <1>1, CountsTypes DEF Bills, MovesOf, Messages
<1>3. \A i \in Invoices : overlaps'[i] >= overlaps[i]
  BY <1>1 DEF TypeOK
<1> QED
  BY <1>1, <1>2, <1>3, BalancedStep DEF Balanced

LEMMA ResetAccounts ==
  ASSUME BillInv, TypeOK', Accounts, NEW r \in Requests, ConnectionReset(r) PROVE Accounts'
<1> DEFINE i == Target[r]
<1>1. TypeOK /\ i \in Invoices
  BY Targets DEF BillInv
<1>2. /\ sent' = sent \cup {<<r, 2>>} /\ Suffers({i})
      /\ UNCHANGED <<link, pc, moves>>
  BY DEF ConnectionReset, rowVars, callVars
<1>3. /\ overlaps' = overlaps
      /\ \A j \in Invoices : faults'[j] = IF j \in {i} THEN faults[j] + 1 ELSE faults[j]
  BY <1>1, <1>2, SuffersTypes
<1>4. /\ faults'[i] > faults[i]
      /\ \A j \in Invoices : faults'[j] >= faults[j] /\ overlaps'[j] >= overlaps[j]
  <2>1. \A j \in Invoices : faults[j] \in Nat /\ overlaps[j] \in Nat
    BY <1>1 DEF TypeOK
  <2> QED
    BY <1>1, <1>3, <2>1
<1>5. /\ IsFiniteSet(sent')
      /\ Cardinality(Messages(i))' <= Cardinality(Messages(i)) + 1
      /\ \A j \in Invoices \ {i} : Messages(j)' = Messages(j)
  BY <1>2, SendCounted DEF Accounts
<1>6. \A j \in Invoices : Bills(j) \in Nat /\ MovesOf(j)' = MovesOf(j)
  BY <1>1, <1>2, CountsTypes DEF MovesOf
<1>7. \A j \in Invoices \ {i} : Bills(j)' = Bills(j)
  BY <1>5, <1>6 DEF Bills
<1>8. Bills(i)' <= Bills(i) + 1
  <2>1. Cardinality(MovesOf(i)) \in Nat /\ Cardinality(Messages(i)) \in Nat
    BY <1>1, CountsTypes
  <2>2. Messages(i)' \in SUBSET sent'
    BY DEF Messages
  <2>3. Cardinality(Messages(i))' \in Nat
    BY <1>5, <2>2, FS_Subset, FS_CardinalityType
  <2> QED
    BY <1>1, <1>5, <1>6, <2>1, <2>3 DEF Bills
<1>9. \A j \in Invoices : Pledge(j)' >= Pledge(j)
  BY <1>2, PledgeKept
<1>10. \A j \in Invoices : Balanced(j)
  BY <1>4, <1>6, <1>7, <1>8, <1>9 DEF Balanced
<1> QED
  BY <1>1, <1>4, <1>5, <1>10, BalancedStep

(* A call that lets its commitment go against a fault on its invoice.      *)
LEMMA FaultAccounts ==
  ASSUME BillInv, TypeOK', Accounts, NEW r \in Requests, GiveUp(r) \/ CommitLost(r)
  PROVE  Accounts'
<1> DEFINE i == Target[r]
<1>1. TypeOK /\ i \in Invoices
  BY Targets DEF BillInv
<1>2. Suffers({i}) /\ UNCHANGED <<link, sent, moves>>
  BY DEF GiveUp, CommitLost, rowVars, odooVars
<1>3. /\ overlaps' = overlaps
      /\ \A j \in Invoices : faults'[j] = IF j \in {i} THEN faults[j] + 1 ELSE faults[j]
  BY <1>1, <1>2, SuffersTypes
<1>4. \A q \in Requests : pc'[q] = pc[q] \/ q = r
  BY <1>1, OneCallMoves DEF GiveUp, CommitLost, Close
<1>5. \A j \in Invoices \ {i} : Pledge(j)' >= Pledge(j)
  BY <1>2, <1>4, PledgeKept
<1>6. \A j \in Invoices : faults'[j] >= faults[j] /\ (faults'[j] > faults[j] \/ j # i)
  <2>1. \A j \in Invoices : faults[j] \in Nat
    BY <1>1 DEF TypeOK
  <2> QED
    BY <1>1, <1>3, <2>1
<1> QED
  BY <1>2, <1>3, <1>5, <1>6, QuietAccounts

LEMMA NextAccounts == BillInv /\ BillInv' /\ Accounts /\ [Next]_vars => Accounts'
<1> SUFFICES ASSUME BillInv, BillInv', Accounts, [Next]_vars PROVE Accounts'
  OBVIOUS
<1>1. TypeOK /\ TypeOK' /\ \A i \in Invoices : faults[i] \in Nat
  BY DEF BillInv, TypeOK
<1>2. ASSUME NEW r \in Requests, Search(r) \/ Record(r) \/ Rollback(r) PROVE Accounts'
  <2>1. UNCHANGED <<link, sent, moves, faults, overlaps>>
    BY <1>2 DEF Search, Record, Rollback, rowVars, odooVars, history
  <2>2. \/ pc[r] \in {"searching", "raising"}
        \/ pc' = [pc EXCEPT ![r] = "flushed"]
    BY <1>2 DEF Search, Record, Rollback, Goto
  <2>3. \A q \in Requests : pc'[q] = pc[q] \/ q = r
    BY <1>1, <1>2, OneCallMoves DEF Search, Record, Rollback, Close
  <2>4. \A i \in Invoices : Pledge(i)' >= Pledge(i)
    BY <1>1, <2>1, <2>2, <2>3, PledgeKept DEF TypeOK
  <2> QED
    BY <1>1, <2>1, <2>4, QuietAccounts
<1>3. ASSUME NEW r \in Requests, Commit(r) PROVE Accounts'
  <2>1. /\ UNCHANGED <<sent, moves, faults, overlaps>>
        /\ link' = [link EXCEPT ![Target[r]] = dirty[r].link] /\ dirty[r].link # 0
    BY <1>3 DEF Commit, odooVars, history, BillInv, Drafts
  <2>2. \A q \in Requests : pc'[q] = pc[q] \/ q = r
    BY <1>1, <1>3, OneCallMoves DEF Commit, Close
  <2>3. link'[Target[r]] # 0 /\ \A i \in Invoices : link[i] # 0 => link'[i] # 0
    BY <1>1, <2>1, Targets DEF TypeOK
  <2>4. \A i \in Invoices \ {Target[r]} : Pledge(i)' >= Pledge(i)
    BY <2>2, <2>3, PledgeKept
  <2>5. Pledge(Target[r])' >= Pledge(Target[r])
    BY <2>3 DEF Pledge, Committed
  <2> QED
    BY <1>1, <2>1, <2>4, <2>5, QuietAccounts
<1>4. CASE Crash
  <2>1. Suffers(Invoices) /\ UNCHANGED <<sent, moves>>
    BY <1>4 DEF Crash, odooVars
  <2>2. overlaps' = overlaps /\ \A i \in Invoices : faults'[i] = faults[i] + 1
    <3>1. Invoices \in SUBSET Invoices
      OBVIOUS
    <3> QED
      BY <1>1, <2>1, <3>1, SuffersTypes
  <2>3. \A i \in Invoices : faults'[i] > faults[i] /\ faults'[i] >= faults[i]
    BY <1>1, <2>2
  <2> QED
    BY <1>1, <2>1, <2>2, <2>3, QuietAccounts
<1>5. CASE UNCHANGED vars
  <2>1. UNCHANGED <<link, pc, sent, moves, faults, overlaps>>
    BY <1>5 DEF vars, rowVars, callVars, odooVars, history
  <2>2. \A i \in Invoices : Pledge(i)' >= Pledge(i)
    BY <2>1, PledgeKept
  <2> QED
    BY <1>1, <2>1, <2>2, QuietAccounts
<1> QED
  BY <1>1, <1>2, <1>3, <1>4, <1>5, LoadAccounts, OdooAccounts, ResetAccounts, FaultAccounts
  DEF Next

LEMMA InitAccounts == Init => Accounts
<1> SUFFICES ASSUME Init PROVE Accounts
  OBVIOUS
<1>1. sent = {} /\ moves = <<>>
  BY DEF Init
<1>2. \A i : MovesOf(i) = {} /\ Messages(i) = {}
  BY <1>1 DEF MovesOf, Messages
<1>3. \A i \in Invoices : Bills(i) = 0
  BY <1>2, FS_EmptySet DEF Bills
<1>4. \A i \in Invoices : Pledge(i) \in {0, 1} /\ faults[i] = 0 /\ overlaps[i] = 0
  BY DEF Init, Pledge
<1> QED
  BY <1>1, <1>3, <1>4, FS_EmptySet DEF Accounts

(* Creates executed and creates on their way, against what pays for them.  *)
THEOREM AccountsInvariant == Spec => []Accounts
<1> QED
  BY InitAccounts, NextAccounts, BillInvariant, PTL DEF Spec

(* However the network, the database and the server behave, Odoo bills an  *)
(* invoice once and at most once more per fault or overlapping call.       *)
THEOREM MovesAreAccountedFor == Spec => []MovesAccountedFor
<1>1. TypeOK /\ Accounts => MovesAccountedFor
  <2> SUFFICES ASSUME TypeOK, Accounts, NEW i \in Invoices
               PROVE  Cardinality(MovesOf(i)) <= 1 + faults[i] + overlaps[i]
    BY DEF MovesAccountedFor
  <2>1. Cardinality(MovesOf(i)) \in Nat /\ Cardinality(Messages(i)) \in Nat
    BY CountsTypes
  <2>2. Pledge(i) \in {0, 1} /\ faults[i] \in Nat /\ overlaps[i] \in Nat
    BY DEF Pledge, TypeOK
  <2> QED
    BY <2>1, <2>2 DEF Accounts, Bills
<1> QED
  BY <1>1, AccountsInvariant, BillTypes, PTL

=============================================================================
