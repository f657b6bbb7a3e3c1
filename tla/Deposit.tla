------------------------------ MODULE Deposit ------------------------------
(***************************************************************************)
(* Depositing documents, one by one or in batches: for each document a     *)
(* check, a file written to the storage, a row inserted in table invoices. *)
(*                                                                         *)
(* The rows of a request belong to one transaction, committed by get_db    *)
(* once the response is sent; the files are written at once and do not     *)
(* follow the transaction.  The pair (supplier, number), called a key      *)
(* here, is unique: PostgreSQL makes an INSERT wait for an open            *)
(* transaction that inserted the same key, and breaks the cycles of such   *)
(* waits by aborting one transaction.                                      *)
(***************************************************************************)
EXTENDS Integers, Sequences, FiniteSets

CONSTANTS
  Keys,       \* pairs (supplier, invoice number)
  Illegible,  \* a document the checks refuse whatever its key
  Requests,   \* the calls to POST /invoices and /invoices/batch
  Batches,    \* what a call may carry: sequences of documents
  MaxFaults   \* bound: faults of the database, the disk and the server

ASSUME DepositAssumption ==
  /\ Illegible \notin Keys
  /\ Batches \subseteq Seq(Keys \cup {Illegible})
  /\ <<>> \notin Batches
  /\ MaxFaults \in Nat

VARIABLES
  rows,         \* committed rows: key and file_path
  disk,         \* files in the storage
  pc, batch,    \* calls: progress, documents
  told, mine,   \* results so far, rows inserted and not committed
  used, upset   \* history: faults, calls that lost a race or met a fault

callVars == <<pc, batch, told, mine>>
vars == <<rows, disk, callVars, used, upset>>

KeysOf(S) == {row.key : row \in S}

-----------------------------------------------------------------------------
(* The document a call is at, and the name of its file.                    *)
Pos(r) == Len(told[r]) + 1
Doc(r) == batch[r][Pos(r)]

(* A plausible defect: files named after what they contain.                *)
FileName_OfKey(r, n) == <<batch[r][n], 1>>

(* LocalStorage.save: a fresh uuid4.                                       *)
FileName(r, n) == <<r, n>>

File(r) == FileName(r, Pos(r))

Goto(r, next) == pc' = [pc EXCEPT ![r] = next]

(* A result is appended; the next document, or the end of the loop.        *)
Tell(r, result) ==
  /\ told' = [told EXCEPT ![r] = Append(@, result)]
  /\ Goto(r, IF Pos(r) = Len(batch[r]) THEN "answered" ELSE "checking")

Fault == used < MaxFaults /\ used' = used + 1

Init ==
  /\ rows = {} /\ disk = {}
  /\ pc = [r \in Requests |-> "checking"]
  /\ batch \in [Requests -> Batches]
  /\ told = [r \in Requests |-> <<>>] /\ mine = [r \in Requests |-> {}]
  /\ used = 0 /\ upset = {}

-----------------------------------------------------------------------------
(* A plausible defect: a refused document rolls the session back.          *)
Check_RollsBack(r) ==
  /\ pc[r] = "checking"
  /\ IF Doc(r) = Illegible \/ Doc(r) \in KeysOf(rows \cup mine[r])
     THEN /\ Tell(r, IF Doc(r) = Illegible THEN "invalid" ELSE "duplicate")
          /\ mine' = [mine EXCEPT ![r] = {}]
          /\ UNCHANGED disk
     ELSE /\ disk' = disk \cup {File(r)}
          /\ Goto(r, "inserting")
          /\ UNCHANGED <<told, mine>>
  /\ UNCHANGED <<rows, batch, used, upset>>

(* deposit: an illegible document, an unknown supplier or a key the        *)
(* session sees (committed rows, and its own) is refused; otherwise the    *)
(* file is written.                                                        *)
Check(r) ==
  /\ pc[r] = "checking"
  /\ IF Doc(r) = Illegible \/ Doc(r) \in KeysOf(rows \cup mine[r])
     THEN /\ Tell(r, IF Doc(r) = Illegible THEN "invalid" ELSE "duplicate")
          /\ UNCHANGED disk
     ELSE /\ disk' = disk \cup {File(r)}
          /\ Goto(r, "inserting")
          /\ UNCHANGED told
  /\ UNCHANGED <<rows, batch, mine, used, upset>>

(* q's transaction has inserted the key r wants to insert.                 *)
WaitsFor(r, q) ==
  /\ q # r /\ pc[r] = "inserting"
  /\ Doc(r) \in KeysOf(mine[q])

(* A plausible defect: no unique constraint, the check is trusted.         *)
Insert_Unconstrained(r) ==
  /\ pc[r] = "inserting"
  /\ mine' = [mine EXCEPT ![r] = @ \cup {[key |-> Doc(r), file |-> File(r)]}]
  /\ Tell(r, "stored")
  /\ UNCHANGED <<rows, disk, batch, used, upset>>

(* The INSERT.  When the key was committed since the check, IntegrityError *)
(* rolls the whole session back and becomes a duplicate; the file stays.   *)
Insert(r) ==
  /\ pc[r] = "inserting" /\ \A q \in Requests : ~WaitsFor(r, q)
  /\ IF Doc(r) \in KeysOf(rows)
     THEN /\ mine' = [mine EXCEPT ![r] = {}]
          /\ upset' = upset \cup {r}
          /\ Tell(r, "duplicate")
     ELSE /\ mine' = [mine EXCEPT ![r] = @ \cup {[key |-> Doc(r), file |-> File(r)]}]
          /\ Tell(r, "stored")
          /\ UNCHANGED upset
  /\ UNCHANGED <<rows, disk, batch, used>>

(* Transactions that wait for each other in a cycle.                       *)
Deadlocked(r) ==
  \E S \in SUBSET Requests :
    /\ r \in S
    /\ \A x \in S : \E y \in S : WaitsFor(x, y)
    /\ \A y \in S : \E x \in S : WaitsFor(x, y)

(* A plausible defect: the file of the failed INSERT is kept.              *)
Abandon_FileKept(r) ==
  /\ pc[r] = "inserting"
  /\ mine'  = [mine EXCEPT ![r] = {}]
  /\ upset' = IF told[r] = <<>> THEN upset ELSE upset \cup {r}
  /\ Goto(r, "failed")
  /\ UNCHANGED <<rows, disk, batch, told>>

(* The INSERT raises anything but IntegrityError: the file is deleted, the *)
(* exception ends the call and get_db rolls back.  Files of the earlier    *)
(* documents of a batch stay.                                              *)
Abandon(r) ==
  /\ pc[r] = "inserting"
  /\ disk'  = disk \ {File(r)}
  /\ mine'  = [mine EXCEPT ![r] = {}]
  /\ upset' = IF told[r] = <<>> THEN upset ELSE upset \cup {r}
  /\ Goto(r, "failed")
  /\ UNCHANGED <<rows, batch, told>>

(* PostgreSQL aborts a transaction of a deadlock; or the database fails.   *)
DeadlockVictim(r) == Deadlocked(r) /\ Abandon(r) /\ UNCHANGED used
InsertFails(r)    == Fault /\ Abandon(r)

(* A plausible defect: the connection goes back to the pool unfinished.    *)
Commit_SessionLeft(r) ==
  /\ pc[r] = "answered"
  /\ rows' = rows \cup mine[r]
  /\ Goto(r, "done")
  /\ UNCHANGED <<disk, batch, told, mine, used, upset>>

(* The response is sent, get_db commits.                                   *)
Commit(r) ==
  /\ pc[r] = "answered"
  /\ rows' = rows \cup mine[r]
  /\ mine' = [mine EXCEPT ![r] = {}]
  /\ Goto(r, "done")
  /\ UNCHANGED <<disk, batch, told, used, upset>>

(* The disk refuses a file, or the database a commit: rolled back.         *)
CallLost(r) ==
  /\ pc[r] \in {"checking", "answered"} /\ Fault
  /\ mine'  = [mine EXCEPT ![r] = {}]
  /\ upset' = upset \cup {r}
  /\ Goto(r, "failed")
  /\ UNCHANGED <<rows, disk, batch, told>>

Begun(r) == pc[r] \in {"inserting", "answered"} \/ (pc[r] = "checking" /\ told[r] # <<>>)

(* The server stops and is started again.                                  *)
Crash ==
  /\ Fault
  /\ pc'    = [r \in Requests |-> IF Begun(r) THEN "failed" ELSE pc[r]]
  /\ mine'  = [r \in Requests |-> {}]
  /\ upset' = upset \cup {q \in Requests : Begun(q)}
  /\ UNCHANGED <<rows, disk, batch, told>>

Next ==
  \/ \E r \in Requests :
       \/ Check(r) \/ Insert(r) \/ DeadlockVictim(r) \/ InsertFails(r)
       \/ Commit(r) \/ CallLost(r)
  \/ Crash

Spec == Init /\ [][Next]_vars

(* A call that is being served makes progress, and PostgreSQL breaks the   *)
(* deadlocks it detects.  (Faults are never owed.)                         *)
FairSpec ==
  /\ Spec
  /\ \A r \in Requests :
       /\ WF_vars(Check(r)) /\ WF_vars(Insert(r)) /\ WF_vars(Commit(r))
       /\ WF_vars(DeadlockVictim(r))
-----------------------------------------------------------------------------
(* Properties.                                                             *)

TypeOK ==
  LET Files == Requests \X Nat
      Rows  == [key : Keys, file : Files]
  IN
  /\ rows \subseteq Rows /\ disk \subseteq Files
  /\ pc \in [Requests -> {"checking", "inserting", "answered", "done", "failed"}]
  /\ batch \in [Requests -> Batches]
  /\ told \in [Requests -> Seq({"stored", "duplicate", "invalid"})]
  /\ mine \in [Requests -> SUBSET Rows]
  /\ used \in 0..MaxFaults /\ upset \subseteq Requests

(* Every invoice, committed or about to be, has its document in the        *)
(* storage, whichever way other deposits of the same document ended.       *)
RowHasFile ==
  /\ \A row \in rows : row.file \in disk
  /\ \A r \in Requests : \A row \in mine[r] : row.file \in disk

(* The rule that defines a duplicate: one row for each supplier and number. *)
OneRowPerKey == \A x, y \in rows : x.key = y.key => x = y

(* A file that no invoice refers to, and no open call is about to, was     *)
(* left by a call that lost a race, met a fault or was stopped: neither a  *)
(* refused document nor a failed INSERT alone leaves one behind.           *)
OrphansExplained ==
  \A r \in Requests : \A n \in DOMAIN batch[r] :
    /\ FileName(r, n) \in disk
    /\ \A row \in rows \cup mine[r] : row.file # FileName(r, n)
    /\ ~(pc[r] = "inserting" /\ n = Pos(r))
    => r \in upset

(* The answers of a finished call hold, unless it lost a race or met a     *)
(* fault: what is told stored is stored under its key, and a document is   *)
(* only refused as a duplicate when its key is stored.                     *)
Holds(r, n) ==
  /\ told[r][n] = "stored" => [key |-> batch[r][n], file |-> FileName(r, n)] \in rows
  /\ told[r][n] = "duplicate" => batch[r][n] \in KeysOf(rows)

AnswersHold ==
  \A r \in Requests \ upset : pc[r] = "done" => \A n \in DOMAIN told[r] : Holds(r, n)

(* The claim of deposit_batch: each document is dealt with independently,  *)
(* a failure does not affect the others.  Once the call is committed, the  *)
(* documents it reported as deposited are.                                 *)
BatchIsIndependent ==
  \A r \in Requests : pc[r] = "done" => \A n \in DOMAIN told[r] : Holds(r, n)

(* Every call ends, even when two batches insert the same keys in opposite *)
(* orders.                                                                 *)
DepositsEnd == \A r \in Requests : <>(pc[r] \in {"done", "failed"})

=============================================================================
