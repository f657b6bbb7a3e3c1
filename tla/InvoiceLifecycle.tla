-------------------------- MODULE InvoiceLifecycle --------------------------
(***************************************************************************)
(* The life of an invoice: HTTP requests and background OCR jobs that read *)
(* and write the same rows, each in its own database transaction, on a     *)
(* server that may stop at any moment.                                     *)
(*                                                                         *)
(* A request reads its invoice into a session (Load), runs its handler     *)
(* (one action per kind of write) and commits (Commit): with the yielding  *)
(* dependency get_db the commit comes after the response.  A write takes   *)
(* the PostgreSQL row lock at its UPDATE and keeps it until the end of the *)
(* transaction; a second writer waits, then re-evaluates its WHERE clause  *)
(* on the committed row (READ COMMITTED).  So `status', `version',         *)
(* `billed', `content' and `audit' below are the COMMITTED rows.           *)
(*                                                                         *)
(* An OCR job is one transaction from its first compare-and-swap to its    *)
(* single commit; around it, the task row is written in short transactions *)
(* of its own.                                                             *)
(***************************************************************************)
EXTENDS InvoiceStatus, Integers, Sequences, FiniteSets

CONSTANTS
  Invoices,     \* the invoices deposited before the run starts
  Requests,     \* the HTTP calls that clients make, each at most once
  Ops,          \* the endpoints these calls may use
  MaxTasks,     \* bound: number of task rows ever created
  Workers,      \* threads of the job pool (task_queue_workers)
  MaxCrashes,   \* bound: number of times the server stops
  MaxDbFaults,  \* bound: number of transactions the database loses
  NoOne         \* "no transaction": the row lock is free

Tasks == 1..MaxTasks

AllOps == {"status", "validate", "reject", "correct", "vendor_bill",
           "process", "retry"}

(* Every endpoint but POST /status, which the web interface never calls.   *)
UiOps == AllOps \ {"status"}

(* The endpoints whose writes all go through update_cas.                   *)
CasOps == {"status", "process", "retry"}

ASSUME LifecycleAssumption ==
  /\ Ops \subseteq AllOps
  /\ MaxTasks \in Nat /\ MaxCrashes \in Nat /\ MaxDbFaults \in Nat
  /\ Workers \in Nat \ {0}
  /\ Requests \cap Tasks = {}
  /\ NoOne \notin Requests \cup Tasks

VARIABLES
  status, version, billed, content,  \* table invoices, per invoice
  lock,                              \* who holds the row lock of an invoice
  audit,                             \* table audit_logs
  task, taskInv,                     \* table tasks: state, invoice
  up, queue, wpc, wsnap,             \* server process: alive, job queue, jobs
  pc, call, snap, reply,             \* HTTP requests
  applied,                           \* history: the transactions committed
  crashes, dbFaults                  \* how much of the two bounds is used

rowVars   == <<status, version, billed, content>>
taskVars  == <<task, taskInv>>
jobVars   == <<queue, wpc, wsnap>>
reqVars   == <<pc, call, snap, reply>>
faultVars == <<crashes, dbFaults>>

vars == <<rowVars, lock, audit, taskVars, up, jobVars, reqVars, applied, faultVars>>

-----------------------------------------------------------------------------
(* Values.                                                                 *)

Keep  == "KEEP"    \* a write that leaves the status column alone
Lines == "LINES"   \* a write that leaves the whole invoice row alone

(* The status a call asks the row to take.                                 *)
Targets(op) ==
  CASE op = "status"      -> Status
    [] op = "validate"    -> {"VALIDATED"}
    [] op = "reject"      -> {"REJECTED"}
    [] op = "vendor_bill" -> {"VENDOR_BILL_CREATED"}
    [] OTHER              -> {Keep}

NoCall == [op |-> "none", inv |-> NoOne, to |-> Keep]

Calls == UNION {[op : {op}, inv : Invoices, to : Targets(op)] : op \in Ops}

NoRead == [status |-> "SUBMITTED", version |-> 0, billed |-> FALSE]

Snapshot == [status : Status, version : Nat, billed : BOOLEAN]

Read(i) == [status |-> status[i], version |-> version[i], billed |-> billed[i]]

(* The check every handler makes on what it has read.                      *)
Accepts(op, to, row) ==
  CASE op \in {"status", "validate", "reject"} -> to \in ValidTransitions[row.status]
    [] op = "correct"     -> row.status = "TO_REVIEW"
    [] op = "vendor_bill" -> row.billed \/ row.status = "VALIDATED"
    [] op = "process"     -> row.status # "ANALYZING"
    [] OTHER              -> row.status = "SYSTEM_ERROR"  \* retry

(* A plausible defect: a rejection that leaves no audit entry.             *)
Traces_NotRejected(op) ==
  CASE op = "validate"    -> {"VALIDATED"}
    [] op = "correct"     -> {"CORRECTED"}
    [] op = "vendor_bill" -> {"VENDOR_BILL_CREATED"}
    [] op = "retry"       -> {"REPROCESSED"}
    [] OTHER              -> {}

(* The audit entry a committed call leaves; /status and /process leave none. *)
Traces(op) ==
  CASE op = "validate"    -> {"VALIDATED"}
    [] op = "reject"      -> {"REJECTED"}
    [] op = "correct"     -> {"CORRECTED"}
    [] op = "vendor_bill" -> {"VENDOR_BILL_CREATED"}
    [] op = "retry"       -> {"REPROCESSED"}
    [] OTHER              -> {}

(* A plausible defect of the definition below: a job that gives its        *)
(* connection back to the pool with its transaction still open.            *)
Released_NotByJobs(x) ==
  [i \in Invoices |-> IF lock[i] = x /\ x \in Requests THEN NoOne ELSE lock[i]]

Released(x) == [i \in Invoices |-> IF lock[i] = x THEN NoOne ELSE lock[i]]

(* Jobs that occupy a thread of the pool.                                  *)
Busy == {t \in Tasks : wpc[t] \in {"running", "loaded", "analysing", "committed", "failing"}}

(* Edges the analysis walks by compare-and-swap: a failed invoice goes     *)
(* back through SUBMITTED first.                                           *)
AnalysisEdges(from) == IF from = "SYSTEM_ERROR" THEN 3 ELSE 2

-----------------------------------------------------------------------------
Init ==
  /\ status  = [i \in Invoices |-> "SUBMITTED"]
  /\ version = [i \in Invoices |-> 0]
  /\ billed  = [i \in Invoices |-> FALSE]
  /\ content = [i \in Invoices |-> "none"]
  /\ lock    = [i \in Invoices |-> NoOne]
  /\ audit   = {}
  /\ task    = [t \in Tasks |-> "none"]
  /\ taskInv = [t \in Tasks |-> NoOne]
  /\ up      = TRUE
  /\ queue   = <<>>
  /\ wpc     = [t \in Tasks |-> "off"]
  /\ wsnap   = [t \in Tasks |-> NoRead]
  /\ pc      = [r \in Requests |-> "idle"]
  /\ call    = [r \in Requests |-> NoCall]
  /\ snap    = [r \in Requests |-> NoRead]
  /\ reply   = [r \in Requests |-> "none"]
  /\ applied = {}
  /\ crashes = 0
  /\ dbFaults = 0

-----------------------------------------------------------------------------
(* HTTP requests.                                                          *)

(* The route loads the invoice: session.get in a READ COMMITTED session    *)
(* never waits for a row lock.  A call refused by the check on what it has *)
(* just read ends here with HTTP 409.  MaxTasks bounds the calls that      *)
(* submit a job, so that none of them lacks a task row.                    *)
Submitting == {"process", "retry"}

Load(r) ==
  /\ up /\ pc[r] = "idle"
  /\ \E c \in Calls :
       /\ c.op \in Submitting => Cardinality({q \in Requests : call[q].op \in Submitting}) < MaxTasks
       /\ IF Accepts(c.op, c.to, Read(c.inv))
          THEN /\ pc'   = [pc EXCEPT ![r] = "loaded"]
               /\ call' = [call EXCEPT ![r] = c]
               /\ snap' = [snap EXCEPT ![r] = Read(c.inv)]
               /\ UNCHANGED reply
          ELSE /\ pc'    = [pc EXCEPT ![r] = "done"]
               /\ reply' = [reply EXCEPT ![r] = "conflict"]
               /\ UNCHANGED <<call, snap>>
  /\ UNCHANGED <<rowVars, lock, audit, taskVars, up, jobVars, applied, faultVars>>

Respond(r, answer, next) ==
  /\ reply' = [reply EXCEPT ![r] = answer]
  /\ pc'    = [pc EXCEPT ![r] = next]

(* A plausible defect: the WHERE clause forgets the version.               *)
HandleStatus_Unversioned(r) ==
  LET i == call[r].inv IN
  /\ pc[r] = "loaded" /\ call[r].op = "status"
  /\ lock[i] = NoOne
  /\ lock' = [lock EXCEPT ![i] = r] /\ Respond(r, "ok", "flushed")
  /\ UNCHANGED <<rowVars, audit, taskVars, up, jobVars, call, snap, applied, faultVars>>

(* InvoiceService.transition_status: UPDATE ... WHERE version = :read,     *)
(* which waits for the row lock; no row matched is HTTP 409.               *)
HandleStatus(r) ==
  LET i == call[r].inv IN
  /\ pc[r] = "loaded" /\ call[r].op = "status"
  /\ lock[i] = NoOne
  /\ IF version[i] = snap[r].version
     THEN lock' = [lock EXCEPT ![i] = r] /\ Respond(r, "ok", "flushed")
     ELSE UNCHANGED lock /\ Respond(r, "conflict", "done")
  /\ UNCHANGED <<rowVars, audit, taskVars, up, jobVars, call, snap, applied, faultVars>>

(* validate and reject: _transition sets the attribute, the flush of the   *)
(* audit entry emits an UPDATE by primary key: no version in its WHERE.    *)
HandleDecision(r) ==
  LET i == call[r].inv IN
  /\ pc[r] = "loaded" /\ call[r].op \in {"validate", "reject"}
  /\ lock[i] = NoOne
  /\ lock' = [lock EXCEPT ![i] = r]
  /\ Respond(r, "ok", "flushed")
  /\ UNCHANGED <<rowVars, audit, taskVars, up, jobVars, call, snap, applied, faultVars>>

(* correct updates the columns that differ, in the same way.  A correction *)
(* of lines only writes no invoice row; one that changes nothing leaves no *)
(* trace at all.                                                           *)
HandleCorrection(r) ==
  LET i == call[r].inv IN
  /\ pc[r] = "loaded" /\ call[r].op = "correct"
  /\ \/ /\ lock[i] = NoOne
        /\ lock' = [lock EXCEPT ![i] = r]
        /\ Respond(r, "ok", "flushed")
        /\ UNCHANGED call
     \/ /\ call' = [call EXCEPT ![r].to = Lines]
        /\ Respond(r, "ok", "flushed")
        /\ UNCHANGED lock
     \/ /\ Respond(r, "ok", "done")
        /\ UNCHANGED <<call, lock>>
  /\ UNCHANGED <<rowVars, audit, taskVars, up, jobVars, snap, applied, faultVars>>

(* create_vendor_bill on an invoice read as linked: only an audit entry.   *)
HandleAlreadyBilled(r) ==
  /\ pc[r] = "loaded" /\ call[r].op = "vendor_bill" /\ snap[r].billed
  /\ call' = [call EXCEPT ![r].to = Keep]
  /\ Respond(r, "ok", "flushed")
  /\ UNCHANGED <<rowVars, lock, audit, taskVars, up, jobVars, snap, applied, faultVars>>

(* create_vendor_bill otherwise.  Odoo answers with a new move (the bill   *)
(* is linked and the status moves), or fails while a move with the same    *)
(* reference is found (linked, status kept).                               *)
HandleVendorBill(r) ==
  LET i == call[r].inv IN
  /\ pc[r] = "loaded" /\ call[r].op = "vendor_bill" /\ ~snap[r].billed
  /\ lock[i] = NoOne
  /\ lock' = [lock EXCEPT ![i] = r]
  /\ \E to \in {"VENDOR_BILL_CREATED", Keep} : call' = [call EXCEPT ![r].to = to]
  /\ Respond(r, "ok", "flushed")
  /\ UNCHANGED <<rowVars, audit, taskVars, up, jobVars, snap, applied, faultVars>>

(* The handler raises after its check: a corrected number already taken,   *)
(* Odoo unreachable and no move found, a statement the database refuses.   *)
(* get_db rolls everything back.                                           *)
HandlerRaises(r) ==
  /\ pc[r] = "loaded"
  /\ Respond(r, "error", "done")
  /\ UNCHANGED <<rowVars, lock, audit, taskVars, up, jobVars, call, snap, applied, faultVars>>

(* TaskManager.submit: the PENDING row is committed in a session of its    *)
(* own, then the job is handed to the pool.  Identifiers grow.             *)
Submit(i) ==
  \E t \in Tasks :
    /\ task[t] = "none" /\ \A u \in 1..t-1 : task[u] # "none"
    /\ task'    = [task EXCEPT ![t] = "PENDING"]
    /\ taskInv' = [taskInv EXCEPT ![t] = i]
    /\ queue'   = Append(queue, t)
    /\ wpc'     = [wpc EXCEPT ![t] = "queued"]

HandleProcess(r) ==
  /\ pc[r] = "loaded" /\ call[r].op = "process"
  /\ Submit(call[r].inv)
  /\ Respond(r, "ok", "done")
  /\ UNCHANGED <<rowVars, lock, audit, up, wsnap, call, snap, applied, faultVars>>

(* The audit entry of /retry is flushed, not committed, before the task is. *)
HandleRetry(r) ==
  /\ pc[r] = "loaded" /\ call[r].op = "retry"
  /\ Submit(call[r].inv)
  /\ Respond(r, "ok", "flushed")
  /\ UNCHANGED <<rowVars, lock, audit, up, wsnap, call, snap, applied, faultVars>>

(* get_db commits once the response is sent.                               *)
Commit(r) ==
  LET c == call[r]
      i == c.inv
  IN
  /\ pc[r] = "flushed"
  /\ pc'      = [pc EXCEPT ![r] = "done"]
  /\ status'  = IF c.to \in Status THEN [status EXCEPT ![i] = c.to] ELSE status
  /\ version' = IF c.op = "status" THEN [version EXCEPT ![i] = @ + 1] ELSE version
  /\ billed'  = IF c.op = "vendor_bill" THEN [billed EXCEPT ![i] = TRUE] ELSE billed
  /\ content' = IF c.op = "correct" THEN [content EXCEPT ![i] = "manual"] ELSE content
  /\ audit'   = audit \cup [inv : {i}, act : Traces(c.op), by : {r}]
  /\ lock'    = Released(r)
  /\ applied' = applied \cup {r}
  /\ UNCHANGED <<taskVars, up, jobVars, call, snap, reply, faultVars>>

(* The database loses the transaction at its commit.                       *)
CommitLost(r) ==
  /\ pc[r] = "flushed" /\ dbFaults < MaxDbFaults
  /\ dbFaults' = dbFaults + 1
  /\ pc'   = [pc EXCEPT ![r] = "done"]
  /\ lock' = Released(r)
  /\ UNCHANGED <<rowVars, audit, taskVars, up, jobVars, call, snap, reply, applied, crashes>>

-----------------------------------------------------------------------------
(* Background jobs.                                                        *)

Goto(t, next) == wpc' = [wpc EXCEPT ![t] = next]

(* A plausible defect: a pool one thread short.                            *)
Start_OneThreadShort(t) ==
  /\ queue # <<>> /\ t = Head(queue)
  /\ Cardinality(Busy) < Workers - 1
  /\ queue' = Tail(queue)
  /\ task' = [task EXCEPT ![t] = "RUNNING"]
  /\ Goto(t, "running")
  /\ UNCHANGED <<rowVars, lock, audit, taskInv, up, wsnap, reqVars, applied, faultVars>>

(* A free thread takes the oldest job; mark_running applies to PENDING     *)
(* only and its refusal is ignored.  The write itself may be lost.         *)
Start(t) ==
  /\ queue # <<>> /\ t = Head(queue)
  /\ Cardinality(Busy) < Workers
  /\ queue' = Tail(queue)
  /\ \/ /\ task' = IF task[t] = "PENDING" THEN [task EXCEPT ![t] = "RUNNING"] ELSE task
        /\ Goto(t, "running")
        /\ UNCHANGED dbFaults
     \/ /\ dbFaults < MaxDbFaults /\ dbFaults' = dbFaults + 1
        /\ Goto(t, "failing")
        /\ UNCHANGED task
  /\ UNCHANGED <<rowVars, lock, audit, taskInv, up, wsnap, reqVars, applied, crashes>>

(* The job opens its session and reads the invoice; OcrService.process     *)
(* raises at once on a status it cannot analyse.                           *)
JobLoad(t) ==
  /\ wpc[t] = "running"
  /\ wsnap' = [wsnap EXCEPT ![t] = Read(taskInv[t])]
  /\ Goto(t, IF status[taskInv[t]] \in Analysable THEN "loaded" ELSE "failing")
  /\ UNCHANGED <<rowVars, lock, audit, taskVars, up, queue, reqVars, applied, faultVars>>

(* A plausible defect: the first write of the job forgets the version.    *)
JobLock_Unversioned(t) ==
  /\ wpc[t] = "loaded"
  /\ lock[taskInv[t]] = NoOne
  /\ lock' = [lock EXCEPT ![taskInv[t]] = t] /\ Goto(t, "analysing")
  /\ UNCHANGED <<rowVars, audit, taskVars, up, queue, wsnap, reqVars, applied, faultVars>>

(* The first compare-and-swap takes the row lock; the job is ANALYZING in  *)
(* its own transaction only.  A version that moved raises.                 *)
JobLock(t) ==
  LET i == taskInv[t] IN
  /\ wpc[t] = "loaded"
  /\ lock[i] = NoOne
  /\ IF version[i] = wsnap[t].version
     THEN lock' = [lock EXCEPT ![i] = t] /\ Goto(t, "analysing")
     ELSE UNCHANGED lock /\ Goto(t, "failing")
  /\ UNCHANGED <<rowVars, audit, taskVars, up, queue, wsnap, reqVars, applied, faultVars>>

(* The analysis ends and its transaction commits: TO_REVIEW with the       *)
(* extracted content, or SYSTEM_ERROR for an expected failure (illegible   *)
(* document, missing file, engine error, deadline).                        *)
JobCommit(t) ==
  LET i == taskInv[t] IN
  /\ wpc[t] = "analysing"
  /\ \/ /\ status'  = [status EXCEPT ![i] = "TO_REVIEW"]
        /\ content' = [content EXCEPT ![i] = "ocr"]
     \/ /\ status'  = [status EXCEPT ![i] = "SYSTEM_ERROR"]
        /\ UNCHANGED content
  /\ version' = [version EXCEPT ![i] = @ + AnalysisEdges(wsnap[t].status)]
  /\ lock'    = Released(t)
  /\ applied' = applied \cup {t}
  /\ Goto(t, "committed")
  /\ UNCHANGED <<billed, audit, taskVars, up, queue, wsnap, reqVars, faultVars>>

(* A plausible defect: the exception is logged, then forgotten.            *)
JobRollback_Swallowed(t) ==
  /\ wpc[t] = "analysing"
  /\ lock' = Released(t)
  /\ Goto(t, "committed")
  /\ UNCHANGED <<rowVars, audit, taskVars, up, queue, wsnap, reqVars, applied, faultVars>>

(* An unexpected exception, or a commit the database loses: the session    *)
(* is rolled back and the invoice is as it was before the job.             *)
JobRollback(t) ==
  /\ wpc[t] = "analysing"
  /\ lock' = Released(t)
  /\ Goto(t, "failing")
  /\ UNCHANGED <<rowVars, audit, taskVars, up, queue, wsnap, reqVars, applied, faultVars>>

(* _phase_success; if that write is lost the job takes its failure path.   *)
JobSucceed(t) ==
  /\ wpc[t] = "committed"
  /\ \/ /\ task' = [task EXCEPT ![t] = "SUCCEEDED"]
        /\ Goto(t, "off")
        /\ UNCHANGED dbFaults
     \/ /\ dbFaults < MaxDbFaults /\ dbFaults' = dbFaults + 1
        /\ Goto(t, "failing")
        /\ UNCHANGED task
  /\ UNCHANGED <<rowVars, lock, audit, taskInv, up, queue, wsnap, reqVars, applied, crashes>>

(* _phase_failed; if that write is lost too the task keeps its state.      *)
JobFail(t) ==
  /\ wpc[t] = "failing"
  /\ Goto(t, "off")
  /\ \/ /\ task' = [task EXCEPT ![t] = "FAILED"]
        /\ UNCHANGED dbFaults
     \/ /\ dbFaults < MaxDbFaults /\ dbFaults' = dbFaults + 1
        /\ UNCHANGED task
  /\ UNCHANGED <<rowVars, lock, audit, taskInv, up, queue, wsnap, reqVars, applied, crashes>>

-----------------------------------------------------------------------------
(* The server stops: sessions, row locks, the job queue and the jobs are   *)
(* gone, the committed rows stay.  A response may already have been sent.  *)
Crash ==
  /\ up /\ crashes < MaxCrashes
  /\ crashes' = crashes + 1
  /\ up'    = FALSE
  /\ lock'  = [i \in Invoices |-> NoOne]
  /\ queue' = <<>>
  /\ wpc'   = [t \in Tasks |-> "off"]
  /\ pc'    = [r \in Requests |-> IF pc[r] = "idle" THEN "idle" ELSE "done"]
  /\ reply' = [r \in Requests |-> IF pc[r] = "loaded" THEN "lost" ELSE reply[r]]
  /\ UNCHANGED <<rowVars, audit, taskVars, wsnap, call, snap, applied, dbFaults>>

(* Plausible defects: a sweep that only knows the tasks of invoices left   *)
(* in ANALYZING, or one that takes every started task for an orphan.       *)
Orphans_OfStuckInvoices ==
  {t \in Tasks : task[t] = "RUNNING" /\ status[taskInv[t]] = "ANALYZING"}

Orphans_AllStarted == {t \in Tasks : task[t] \notin {"none", "PENDING"}}

(* recover_orphan_tasks sweeps the tasks "en cours", and those only.       *)
Orphans == {t \in Tasks : task[t] = "RUNNING"}

(* The oldest orphan of an invoice is the one the sweep meets first.       *)
FirstOrphan(t) ==
  t \in Orphans /\ \A u \in Orphans : taskInv[u] = taskInv[t] => t <= u

(* Invoices the sweep takes out of ANALYZING.                              *)
Stuck == {i \in Invoices : status[i] = "ANALYZING" /\ \E t \in Orphans : taskInv[t] = i}

(* lifespan: recover_orphan_tasks, committed before any request is served. *)
Restart ==
  /\ ~up
  /\ up'      = TRUE
  /\ task'    = [t \in Tasks |-> IF t \in Orphans THEN "FAILED" ELSE task[t]]
  /\ status'  = [i \in Invoices |-> IF i \in Stuck THEN "SYSTEM_ERROR" ELSE status[i]]
  /\ version' = [i \in Invoices |-> IF i \in Stuck THEN version[i] + 1 ELSE version[i]]
  /\ audit'   = audit \cup {[inv |-> taskInv[t], act |-> "TASK_INTERRUPTED", by |-> t] :
                              t \in {u \in Tasks : FirstOrphan(u) /\ taskInv[u] \in Stuck}}
  /\ UNCHANGED <<billed, content, lock, taskInv, jobVars, reqVars, applied, faultVars>>

(* The database is unreachable at start-up: the sweep is logged and skipped. *)
RestartUnswept ==
  /\ ~up /\ dbFaults < MaxDbFaults
  /\ dbFaults' = dbFaults + 1
  /\ up' = TRUE
  /\ UNCHANGED <<rowVars, lock, audit, taskVars, jobVars, reqVars, applied, crashes>>

-----------------------------------------------------------------------------
Handle(r) ==
  \/ HandleStatus(r)     \/ HandleDecision(r)   \/ HandleCorrection(r)
  \/ HandleVendorBill(r) \/ HandleAlreadyBilled(r)
  \/ HandleProcess(r)    \/ HandleRetry(r)

Job(t) ==
  \/ JobLoad(t)     \/ JobLock(t)    \/ JobCommit(t)
  \/ JobRollback(t) \/ JobSucceed(t) \/ JobFail(t)

Next ==
  \/ \E r \in Requests : Load(r) \/ Handle(r) \/ HandlerRaises(r) \/ Commit(r) \/ CommitLost(r)
  \/ \E t \in Tasks : Start(t) \/ Job(t)
  \/ Crash \/ Restart \/ RestartUnswept

Spec == Init /\ [][Next]_vars

(* A handler that runs and a thread of the pool make progress; a writer    *)
(* waiting for a row lock is served (PostgreSQL queues the waiters); a     *)
(* stopped server is started again.  Clients owe nothing, and nothing      *)
(* obliges a handler to raise: no lock or statement of db/session.py has   *)
(* a time limit, so that a waiting writer has no other way out.            *)
Fairness ==
  /\ \A r \in Requests : SF_vars(Handle(r)) /\ WF_vars(Commit(r))
  /\ \A t \in Tasks : WF_vars(Start(t)) /\ SF_vars(Job(t))
  /\ WF_vars(Restart)

FairSpec == Spec /\ Fairness
-----------------------------------------------------------------------------
(* Properties.                                                             *)

(* Types of every variable, table by table.                                *)
RowTypes ==
  /\ status  \in [Invoices -> Status]
  /\ version \in [Invoices -> Nat]
  /\ billed  \in [Invoices -> BOOLEAN]
  /\ content \in [Invoices -> {"none", "ocr", "manual"}]
  /\ lock    \in [Invoices -> Requests \cup Tasks \cup {NoOne}]

JobTypes ==
  /\ task    \in [Tasks -> TaskState \cup {"none"}]
  /\ taskInv \in [Tasks -> Invoices \cup {NoOne}]
  /\ queue   \in Seq(Tasks)
  /\ wpc     \in [Tasks -> {"off", "queued", "running", "loaded", "analysing",
                            "committed", "failing"}]
  /\ wsnap   \in [Tasks -> Snapshot]

RequestTypes ==
  /\ pc    \in [Requests -> {"idle", "loaded", "flushed", "done"}]
  /\ call  \in [Requests -> [op : AllOps \cup {"none"}, inv : Invoices \cup {NoOne},
                             to : Status \cup {Keep, Lines}]]
  /\ snap  \in [Requests -> Snapshot]
  /\ reply \in [Requests -> {"none", "ok", "conflict", "error", "lost"}]

LogTypes ==
  /\ up \in BOOLEAN
  /\ audit \subseteq [inv : Invoices, act : AuditAction, by : Requests \cup Tasks]
  /\ applied \subseteq Requests \cup Tasks
  /\ crashes \in Nat /\ dbFaults \in Nat

TypeOK == RowTypes /\ JobTypes /\ RequestTypes /\ LogTypes

(* The transaction x has written the row of invoice i and not ended yet.   *)
Writing(x, i) ==
  \/ /\ x \in Requests /\ pc[x] = "flushed" /\ call[x].inv = i
     /\ call[x].op # "retry"
     /\ call[x].op = "correct" => call[x].to # Lines
     /\ call[x].op = "vendor_bill" => ~snap[x].billed
  \/ x \in Tasks /\ wpc[x] = "analysing" /\ taskInv[x] = i

(* Row locks: an invoice is locked by exactly the open transaction that    *)
(* wrote it.  No two transactions write one row at once, and no lock       *)
(* outlives its transaction: not after a response, a rollback or a stop.   *)
RowLockDiscipline ==
  \A i \in Invoices, x \in Requests \cup Tasks : lock[i] = x <=> Writing(x, i)

(* The compare-and-swap writers: what they write, and the version they read. *)
Swaps(x) == x \in Tasks \/ (x \in Requests /\ call[x].op = "status")
InvOf(x) == IF x \in Tasks THEN taskInv[x] ELSE call[x].inv
SeenBy(x) == IF x \in Tasks THEN wsnap[x].version ELSE snap[x].version

(* The claim of the models and services about stale reads: a write that    *)
(* changes the status is made on the status its writer has read; otherwise *)
(* the writer gets a ConcurrentModificationError.                          *)
NoStaleWrite ==
  [][\A r \in Requests :
       r \in applied' \ applied /\ call[r].to \in Status
         => status[call[r].inv] = snap[r].status]_vars

(* The optimistic lock: of all the calls to /status and all the OCR jobs   *)
(* that read one version of an invoice, at most one commits.  A double     *)
(* click, a retry or a parallel job cannot apply a transition twice.       *)
EachVersionConsumedOnce ==
  \A x, y \in applied :
    /\ Swaps(x) /\ Swaps(y) /\ InvOf(x) = InvOf(y) /\ SeenBy(x) = SeenBy(y)
    => x = y

(* A task row "en cours" belongs to a live job of the running server: the  *)
(* start-up sweep leaves no orphan behind.  (A lost write may: see         *)
(* RestartUnswept and JobFail.)                                            *)
RunningHasJob ==
  up /\ dbFaults = 0 => \A t \in Tasks : task[t] = "RUNNING" => t \in Busy

(* The verdict on a task tells the truth about its invoice: "réussi" means *)
(* the analysis was committed, and "échoué" that nothing of it was, unless *)
(* a stop or a lost write fell between the two commits.                    *)
VerdictIsTruthful ==
  \A t \in Tasks :
    /\ task[t] = "SUCCEEDED" => t \in applied
    /\ task[t] = "FAILED" /\ crashes + dbFaults = 0 => t \notin applied

(* A verdict is final: neither a late job nor the start-up sweep rewrites  *)
(* the state of a task that succeeded or failed.                           *)
VerdictIsFinal ==
  [][\A t \in Tasks : task[t] \in {"SUCCEEDED", "FAILED"} => task'[t] = task[t]]_vars

Reviewed == {"TO_REVIEW", "VALIDATED", "REJECTED", "VENDOR_BILL_CREATED"}

(* Through the endpoints of the web interface, an analysis still queued or *)
(* running when an invoice reaches its review never takes it back: not a   *)
(* double click on "process", not a retry, not a job that read the row     *)
(* before the review began.                                                *)
ReviewIsFinal ==
  [][\A i \in Invoices : status[i] \in Reviewed => status'[i] \in Reviewed]_vars

(* Nor does it overwrite data an accountant has corrected.                 *)
CorrectionKept ==
  [][\A i \in Invoices : content[i] = "manual" => content'[i] = "manual"]_vars

(* process_invoice and the recovery promise it: a call to /process that    *)
(* comes while a job analyses its invoice is refused with HTTP 409.        *)
AnalysisRefusesAnother ==
  [][\A r \in Requests, t \in Tasks :
       /\ wpc[t] = "analysing"
       /\ pc[r] = "idle" /\ pc'[r] = "loaded" /\ call'[r].op = "process"
       => call'[r].inv # taskInv[t]]_vars

Audited(i, a) == \E e \in audit : e.inv = i /\ e.act = a

(* Every decision in force was taken by an audited act, and an invoice     *)
(* with a Vendor Bill was once validated, whatever raced with it since.    *)
DecisionIsAudited ==
  \A i \in Invoices :
    /\ status[i] = "REJECTED" => Audited(i, "REJECTED")
    /\ status[i] = "VALIDATED" \/ billed[i] => Audited(i, "VALIDATED")
    /\ status[i] = "VENDOR_BILL_CREATED" => billed[i] /\ Audited(i, "VENDOR_BILL_CREATED")

(* When every writer compares and swaps, the rows implement the versioned  *)
(* graph: only edges of the graph, one version step per edge.              *)
Graph == INSTANCE VersionedGraph
           WITH Invoices <- Invoices, status <- status, version <- version
GraphRefined == Graph!GSpec

(* A job handed to the pool reaches a verdict, unless the server stops or  *)
(* the database loses a write: the queue is in memory only.                *)
JobsSettle ==
  \A t \in Tasks : task[t] = "PENDING" ~>
    task[t] \in {"SUCCEEDED", "FAILED"} \/ crashes + dbFaults > 0

(* A task "en cours" reaches a verdict even when the server stops under it. *)
RunningSettles ==
  \A t \in Tasks : task[t] = "RUNNING" ~> task[t] \in {"SUCCEEDED", "FAILED"}

(* No row stays locked, and no call that was accepted waits for ever.      *)
WritersProceed ==
  /\ \A i \in Invoices : lock[i] # NoOne ~> lock[i] = NoOne
  /\ \A r \in Requests : pc[r] = "loaded" ~> pc[r] = "done"

=============================================================================
