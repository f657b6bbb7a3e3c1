----------------------------- MODULE VendorBill -----------------------------
(***************************************************************************)
(* Creating the Vendor Bill of a validated invoice: a local row on one     *)
(* side, Odoo's journal of `account.move' on the other, and an XML-RPC     *)
(* call between them that may be lost, answered too late, or sent twice.   *)
(*                                                                         *)
(* A call reads the row (Load), asks Odoo to create the move (SendCreate), *)
(* and either records the identifier it receives (Record) or, on any       *)
(* error, searches Odoo for a move with the invoice's reference and links  *)
(* that one.  The row is written by the request's own transaction, which   *)
(* get_db commits or rolls back at the end; what Odoo has done stays done. *)
(***************************************************************************)
EXTENDS Integers, Sequences, FiniteSets

CONSTANTS
  Invoices,   \* invoices, of which some are in the state "Validée"
  Ref,        \* their numbers: two suppliers may use the same one
  Requests,   \* the calls to /vendor-bill, each made at most once
  Target,     \* the invoice each call is about
  MaxFaults,  \* bound: faults of the network, the database and the server
  NoOne       \* no call: the row lock is free

ASSUME VendorBillAssumption ==
  /\ DOMAIN Ref = Invoices
  /\ Target \in [Requests -> Invoices]
  /\ MaxFaults \in Nat
  /\ NoOne \notin Requests

VARIABLES
  status, link, attempts,  \* committed columns of table invoices; link 0 is NULL
  lock,                    \* the call whose open transaction wrote the row
  pc, dirty, reply,        \* calls: progress, columns pending in the session
  try, sent,               \* XML-RPC: the client's attempt, messages on their way to Odoo
  moves,                   \* Odoo: the invoice of each move, by identifier
  used,                 \* how much of the bound is used
  faults, overlaps         \* history: faults and overlapping calls, per invoice

rowVars  == <<status, link, attempts, lock>>
callVars == <<pc, dirty, reply>>
odooVars == <<try, sent, moves>>
history  == <<used, faults, overlaps>>
vars     == <<rowVars, callVars, odooVars, history>>

-----------------------------------------------------------------------------
Clean == [status |-> "VALIDATED", link |-> 0, attempts |-> 0]

Row(i) == [status |-> status[i], link |-> link[i], attempts |-> attempts[i]]

(* A call the server is working on.                                        *)
Open(r) == pc[r] \notin {"idle", "done"}

MovesOf(i) == {m \in DOMAIN moves : moves[m] = i}

(* Odoo's answer to the search: any move that bears the reference.         *)
Found(i) == {m \in DOMAIN moves : Ref[moves[m]] = Ref[i]}

Suffers(S) ==
  /\ used < MaxFaults /\ used' = used + 1
  /\ faults' = [i \in Invoices |-> IF i \in S THEN faults[i] + 1 ELSE faults[i]]
  /\ UNCHANGED overlaps

Goto(r, next) == pc' = [pc EXCEPT ![r] = next]

Init ==
  /\ status \in [Invoices -> {"TO_REVIEW", "VALIDATED"}]
  /\ link = [i \in Invoices |-> 0] /\ attempts = [i \in Invoices |-> 0]
  /\ lock = [i \in Invoices |-> NoOne]
  /\ pc = [r \in Requests |-> "idle"]
  /\ dirty = [r \in Requests |-> Clean] /\ reply = [r \in Requests |-> "none"]
  /\ try = [r \in Requests |-> 0] /\ sent = {} /\ moves = <<>>
  /\ used = 0
  /\ faults = [i \in Invoices |-> 0] /\ overlaps = [i \in Invoices |-> 0]

-----------------------------------------------------------------------------
(* OdooClient.create posts the call, or fails before anything is sent: not *)
(* configured, unreachable, credentials refused.  Nothing happens between  *)
(* the read and the post but a delay, which the message may have as well.  *)
Ask(r) ==
  LET i == Target[r] IN
  /\ dirty' = [dirty EXCEPT ![r] = Row(i)]
  /\ overlaps' = IF \E q \in Requests : Open(q) /\ Target[q] = i
                 THEN [overlaps EXCEPT ![i] = @ + 1] ELSE overlaps
  /\ \/ /\ Goto(r, "calling")
        /\ sent' = sent \cup {<<r, 1>>} /\ try' = [try EXCEPT ![r] = 1]
     \/ /\ Goto(r, "searching")
        /\ UNCHANGED <<sent, try>>
  /\ UNCHANGED reply

(* A plausible defect: the link is not looked at, and a billed invoice may *)
(* be billed again.                                                        *)
Load_Unguarded(r) ==
  /\ pc[r] = "idle" /\ status[Target[r]] # "TO_REVIEW"
  /\ Ask(r)
  /\ UNCHANGED <<rowVars, moves, used, faults>>

(* The call reads its invoice.  A bill is linked: success, nothing to do.  *)
(* Not validated: HTTP 409.  The read takes no lock, so that calls overlap. *)
Load(r) ==
  LET i == Target[r] IN
  /\ pc[r] = "idle"
  /\ IF link[i] = 0 /\ status[i] = "VALIDATED"
     THEN Ask(r)
     ELSE /\ Goto(r, "done")
          /\ reply' = [reply EXCEPT ![r] = IF link[i] # 0 THEN "ok" ELSE "conflict"]
          /\ UNCHANGED <<dirty, overlaps, sent, try>>
  /\ UNCHANGED <<rowVars, moves, used, faults>>

(* Odoo executes a create, whether or not somebody still waits for it.     *)
(* The answer reaches the attempt that waits, or is lost.                  *)
OdooCreates(r, n) ==
  /\ <<r, n>> \in sent
  /\ sent'  = sent \ {<<r, n>>}
  /\ moves' = Append(moves, Target[r])
  /\ \/ /\ pc[r] = "calling" /\ try[r] = n
        /\ dirty' = [dirty EXCEPT ![r].link = Len(moves'), ![r].attempts = 0]
        /\ Goto(r, "answered")
     \/ UNCHANGED <<pc, dirty>>
  /\ UNCHANGED <<rowVars, reply, try, history>>

(* Odoo rejects the values or the rights (a Fault): no move.               *)
OdooRefuses(r, n) ==
  /\ <<r, n>> \in sent
  /\ sent' = sent \ {<<r, n>>}
  /\ \/ pc[r] = "calling" /\ try[r] = n /\ Goto(r, "searching")
     \/ UNCHANGED pc
  /\ UNCHANGED <<rowVars, dirty, reply, try, moves, history>>

(* A plausible defect: the transport sends again after every reset.        *)
ConnectionReset_Unbounded(r) ==
  /\ pc[r] = "calling"
  /\ try'  = [try EXCEPT ![r] = @ + 1]
  /\ sent' = sent \cup {<<r, 2>>}
  /\ Suffers({Target[r]})
  /\ UNCHANGED <<rowVars, callVars, moves>>

(* The XML-RPC transport sends a call once more when its connection was    *)
(* reset; Odoo may execute both.                                           *)
ConnectionReset(r) ==
  /\ pc[r] = "calling" /\ try[r] = 1
  /\ try'  = [try EXCEPT ![r] = 2]
  /\ sent' = sent \cup {<<r, 2>>}
  /\ Suffers({Target[r]})
  /\ UNCHANGED <<rowVars, callVars, moves>>

(* Time-out, second reset, protocol error: _call raises                    *)
(* OdooConnectionError, the message may still be executed.                 *)
GiveUp(r) ==
  /\ pc[r] = "calling"
  /\ Goto(r, "searching")
  /\ Suffers({Target[r]})
  /\ UNCHANGED <<rowVars, dirty, reply, odooVars>>

(* The except branch: a move bears the reference, or none does and the     *)
(* attempt is counted before the exception goes on, or the search fails.   *)
Search(r) ==
  LET i == Target[r] IN
  /\ pc[r] = "searching"
  /\ \/ \E m \in Found(i) :
          /\ dirty' = [dirty EXCEPT ![r].link = m, ![r].attempts = 0]
          /\ Goto(r, "found")
     \/ /\ Found(i) = {}
        /\ dirty' = [dirty EXCEPT ![r].attempts = @ + 1]
        /\ Goto(r, "raising")
     \/ /\ Goto(r, "raising")
        /\ UNCHANGED dirty
  /\ UNCHANGED <<rowVars, reply, odooVars, history>>

(* A plausible defect: a reconciled invoice is declared billed as well.    *)
Record_AlwaysCreated(r) ==
  /\ pc[r] \in {"answered", "found"} /\ lock[Target[r]] = NoOne
  /\ lock'  = [lock EXCEPT ![Target[r]] = r]
  /\ dirty' = [dirty EXCEPT ![r].status = "VENDOR_BILL_CREATED"]
  /\ reply' = [reply EXCEPT ![r] = "ok"]
  /\ Goto(r, "flushed")
  /\ UNCHANGED <<status, link, attempts, odooVars, history>>

(* The flush of the audit entry emits the UPDATE and takes the row lock;   *)
(* a created move also changes the status, a reconciled one does not.      *)
Record(r) ==
  /\ pc[r] \in {"answered", "found"} /\ lock[Target[r]] = NoOne
  /\ lock'  = [lock EXCEPT ![Target[r]] = r]
  /\ dirty' = IF pc[r] = "answered"
              THEN [dirty EXCEPT ![r].status = "VENDOR_BILL_CREATED"] ELSE dirty
  /\ reply' = [reply EXCEPT ![r] = "ok"]
  /\ Goto(r, "flushed")
  /\ UNCHANGED <<status, link, attempts, odooVars, history>>

(* The session is closed, with it the columns it had pending.              *)
Close(r) == Goto(r, "done") /\ dirty' = [dirty EXCEPT ![r] = Clean]

Unlock(r) == lock' = [i \in Invoices |-> IF lock[i] = r THEN NoOne ELSE lock[i]]

(* A plausible defect: the link is written with the new status only.       *)
Commit_CreatedOnly(r) ==
  LET i == Target[r] IN
  /\ pc[r] = "flushed"
  /\ IF dirty[r].status = "VENDOR_BILL_CREATED"
     THEN /\ status' = [status EXCEPT ![i] = "VENDOR_BILL_CREATED"]
          /\ link'   = [link EXCEPT ![i] = dirty[r].link]
     ELSE UNCHANGED <<status, link>>
  /\ attempts' = [attempts EXCEPT ![i] = dirty[r].attempts]
  /\ Unlock(r) /\ Close(r)
  /\ UNCHANGED <<reply, odooVars, history>>

(* The columns the session has changed; the others keep the row's value.   *)
Commit(r) ==
  LET i == Target[r] IN
  /\ pc[r] = "flushed"
  /\ link'     = [link EXCEPT ![i] = dirty[r].link]
  /\ status'   = IF dirty[r].status = "VENDOR_BILL_CREATED"
                 THEN [status EXCEPT ![i] = "VENDOR_BILL_CREATED"] ELSE status
  /\ attempts' = [attempts EXCEPT ![i] = dirty[r].attempts]
  /\ Unlock(r) /\ Close(r)
  /\ UNCHANGED <<reply, odooVars, history>>

CommitLost(r) ==
  /\ pc[r] = "flushed"
  /\ Suffers({Target[r]})
  /\ Unlock(r) /\ Close(r)
  /\ UNCHANGED <<status, link, attempts, reply, odooVars>>

(* The exception reaches get_db, which rolls the session back.             *)
Rollback(r) ==
  /\ pc[r] = "raising"
  /\ reply' = [reply EXCEPT ![r] = "error"]
  /\ Close(r)
  /\ UNCHANGED <<rowVars, odooVars, history>>

(* The server stops and is started again: open calls and their             *)
(* transactions are gone, Odoo executes what it has received.              *)
Crash ==
  /\ Suffers(Invoices)
  /\ pc'     = [r \in Requests |-> IF pc[r] = "idle" THEN "idle" ELSE "done"]
  /\ dirty'  = [r \in Requests |-> Clean]
  /\ lock'   = [i \in Invoices |-> NoOne]
  /\ UNCHANGED <<status, link, attempts, reply, odooVars>>

Next ==
  \/ \E r \in Requests :
       \/ Load(r) \/ ConnectionReset(r) \/ GiveUp(r) \/ Search(r)
       \/ Record(r) \/ Commit(r) \/ CommitLost(r) \/ Rollback(r)
  \/ \E r \in Requests, n \in 1..2 : OdooCreates(r, n) \/ OdooRefuses(r, n)
  \/ Crash

Spec == Init /\ [][Next]_vars
-----------------------------------------------------------------------------
(* Properties.                                                             *)

TypeOK ==
  /\ status \in [Invoices -> {"TO_REVIEW", "VALIDATED", "VENDOR_BILL_CREATED"}]
  /\ link \in [Invoices -> Nat] /\ attempts \in [Invoices -> Nat]
  /\ lock \in [Invoices -> Requests \cup {NoOne}]
  /\ pc \in [Requests -> {"idle", "calling", "answered", "searching", "found",
                         "raising", "flushed", "done"}]
  /\ dirty \in [Requests -> [status : {"VALIDATED", "VENDOR_BILL_CREATED"},
                             link : Nat, attempts : Nat]]
  /\ reply \in [Requests -> {"none", "ok", "error", "conflict"}]
  /\ try \in [Requests -> 0..2]
  /\ sent \subseteq Requests \X (1..2)
  /\ moves \in Seq(Invoices)
  /\ used \in 0..MaxFaults
  /\ faults \in [Invoices -> Nat] /\ overlaps \in [Invoices -> Nat]

(* "Vendor Bill créée" is only said of an invoice for which Odoo has       *)
(* created a move, not of one that was reconciled with somebody else's.    *)
CreatedHasItsMove ==
  \A i \in Invoices :
    status[i] = "VENDOR_BILL_CREATED" => link[i] # 0 /\ MovesOf(i) # {}

(* Odoo bills an invoice once: each further move is accounted for by a     *)
(* fault of the network, of the database or of the server, or by a call    *)
(* made while another was open.  Calling again after a success, or after   *)
(* an error Odoo has answered, never bills twice.                          *)
MovesAccountedFor ==
  \A i \in Invoices : Cardinality(MovesOf(i)) <= 1 + faults[i] + overlaps[i]

(* A link is only ever replaced by a call that overlapped another one.     *)
LinkIsStable ==
  [][\A i \in Invoices :
       link[i] # 0 /\ overlaps[i] = 0 => link'[i] = link[i]]_vars

SuccessLinks ==
  \A r \in Requests :
    pc[r] = "done" /\ reply[r] = "ok" /\ faults[Target[r]] = 0 => link[Target[r]] # 0

LinksAnswered ==
  \A i \in Invoices :
    link[i] # 0 \/ status[i] = "VENDOR_BILL_CREATED" =>
      \E r \in Requests : Target[r] = i /\ pc[r] = "done" /\ reply[r] = "ok"

(* Answers and rows agree.  A call that was answered with success leaves   *)
(* the invoice linked, unless a fault fell on the invoice; and an invoice  *)
(* linked or declared billed is one of which some call has answered        *)
(* success: calls that end in an error leave no bill behind.               *)
SuccessIsLinked == SuccessLinks /\ LinksAnswered

(* The claim of the models, of the service and of the manual: a failed     *)
(* creation is counted in vendor_bill_attempts.                            *)
AttemptsCounted ==
  [][\A r \in Requests :
       reply'[r] = "error" /\ reply[r] # "error"
         => attempts'[Target[r]] = attempts[Target[r]] + 1]_vars

=============================================================================
