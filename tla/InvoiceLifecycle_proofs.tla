----------------------- MODULE InvoiceLifecycle_proofs -----------------------
(***************************************************************************)
(* Theorems about InvoiceLifecycle for any number of invoices, requests,   *)
(* tasks and threads, any set of endpoints and any bound on the faults.    *)
(* First the types, the row locks and the optimistic lock; then what rests *)
(* on them: the verdict a task shows is true and final; through the        *)
(* endpoints of the web interface a reviewed invoice is never taken back   *)
(* and every decision is audited; and the rows implement the versioned     *)
(* graph when every writer compares and swaps.                             *)
(***************************************************************************)
EXTENDS InvoiceLifecycle, TLAPS

(* Which rows a request or a job may point to; a correction of lines only  *)
(* is one that its handler has found to be so.                             *)
References ==
  /\ \A r \in Requests : pc[r] = "loaded" => call[r].to # Lines
  /\ \A r \in Requests : pc[r] \in {"loaded", "flushed"} => call[r].inv \in Invoices
  /\ \A t \in Tasks : task[t] # "none" => taskInv[t] \in Invoices
  /\ \A t \in Tasks : wpc[t] # "off" => task[t] # "none"

(* The queue holds each job that waits for a thread once, and no other.    *)
QueueInv ==
  /\ \A k \in 1..Len(queue) : wpc[queue[k]] = "queued"
  /\ \A k, l \in 1..Len(queue) : queue[k] = queue[l] => k = l

TypeInv == TypeOK /\ References /\ QueueInv

(* A handler ends with its answer or with an exception.                    *)
Answers(r) == Handle(r) \/ HandlerRaises(r)

LEMMA InitTypeInv == Init => TypeInv
<1> SUFFICES ASSUME Init PROVE TypeInv
  OBVIOUS
<1>1. RowTypes
  BY DEF Init, RowTypes, Status
<1>2. JobTypes
  BY DEF Init, JobTypes, NoRead, Snapshot, Status
<1>3. RequestTypes
  BY DEF Init, RequestTypes, NoRead, Snapshot, Status, NoCall
<1>4. LogTypes
  BY DEF Init, LogTypes
<1>5. References /\ QueueInv
  BY DEF Init, References, QueueInv
<1> QED
  BY <1>1, <1>2, <1>3, <1>4, <1>5 DEF TypeInv, TypeOK

LEMMA CallTypes ==
  \A c \in Calls : c \in [op : AllOps, inv : Invoices, to : Status \cup {Keep}]
  BY LifecycleAssumption DEF Calls, Targets, AllOps, Status

LEMMA ReadType == ASSUME RowTypes, NEW i \in Invoices PROVE Read(i) \in Snapshot
  BY DEF RowTypes, Read, Snapshot

LEMMA LoadTypeInv ==
  ASSUME TypeInv, NEW r \in Requests, Load(r) PROVE TypeInv'
<1> USE DEF TypeInv, TypeOK
<1>1. PICK c \in Calls :
        \/ /\ pc'   = [pc EXCEPT ![r] = "loaded"]
           /\ call' = [call EXCEPT ![r] = c]
           /\ snap' = [snap EXCEPT ![r] = Read(c.inv)]
           /\ UNCHANGED reply
        \/ /\ pc'    = [pc EXCEPT ![r] = "done"]
           /\ reply' = [reply EXCEPT ![r] = "conflict"]
           /\ UNCHANGED <<call, snap>>
  BY DEF Load
<1>2. c \in [op : AllOps, inv : Invoices, to : Status \cup {Keep}] /\ Read(c.inv) \in Snapshot
  BY CallTypes, ReadType
<1>3. UNCHANGED <<rowVars, lock, audit, taskVars, up, jobVars, applied, faultVars>>
  BY DEF Load
<1>4. RequestTypes'
  <2>1. c \in [op : AllOps \cup {"none"}, inv : Invoices \cup {NoOne}, to : Status \cup {Keep, Lines}]
    BY <1>2
  <2>2. CASE UNCHANGED <<call, snap>>
    BY <1>1, <2>2 DEF RequestTypes
  <2>3. CASE ~UNCHANGED <<call, snap>>
    BY <1>1, <1>2, <2>1, <2>3 DEF RequestTypes
  <2> QED
    BY <2>2, <2>3
<1>5. RowTypes' /\ JobTypes' /\ LogTypes'
  BY <1>3 DEF RowTypes, JobTypes, LogTypes, rowVars, taskVars, jobVars, faultVars
<1>6. References' /\ QueueInv'
  BY <1>1, <1>2, <1>3 DEF References, QueueInv, RequestTypes, taskVars, jobVars, Status, Keep, Lines
<1> QED
  BY <1>4, <1>5, <1>6
(* The handlers that only answer, lock the row or narrow what they write.  *)
LEMMA AnswerTypeInv ==
  ASSUME TypeInv, NEW r \in Requests,
         \/ HandleStatus(r) \/ HandleDecision(r) \/ HandleCorrection(r) \/ HandleAlreadyBilled(r)
         \/ HandleVendorBill(r) \/ HandlerRaises(r)
  PROVE  TypeInv'
<1> USE DEF TypeInv, TypeOK
<1>1. PICK answer \in {"ok", "conflict", "error"}, next \in {"flushed", "done"} :
        Respond(r, answer, next)
  BY DEF HandleStatus, HandleDecision, HandleCorrection, HandleAlreadyBilled, HandleVendorBill, HandlerRaises
<1>2. pc[r] = "loaded"
  BY DEF HandleStatus, HandleDecision, HandleCorrection, HandleAlreadyBilled, HandleVendorBill, HandlerRaises
<1>3. call' = call \/ \E to \in {"VENDOR_BILL_CREATED", Keep, Lines} : call' = [call EXCEPT ![r].to = to]
  BY DEF HandleStatus, HandleDecision, HandleCorrection, HandleAlreadyBilled, HandleVendorBill, HandlerRaises
<1>4. lock' = lock \/ lock' = [lock EXCEPT ![call[r].inv] = r]
  BY DEF HandleStatus, HandleDecision, HandleCorrection, HandleAlreadyBilled, HandleVendorBill, HandlerRaises
<1>5. UNCHANGED <<rowVars, audit, taskVars, up, jobVars, snap, applied, faultVars>>
  BY DEF HandleStatus, HandleDecision, HandleCorrection, HandleAlreadyBilled, HandleVendorBill, HandlerRaises
<1>6. RequestTypes'
  <2>1. pc' \in [Requests -> {"idle", "loaded", "flushed", "done"}]
    BY <1>1 DEF RequestTypes, Respond
  <2>2. reply' \in [Requests -> {"none", "ok", "conflict", "error", "lost"}]
    BY <1>1 DEF RequestTypes, Respond
  <2>3. call' \in [Requests -> [op : AllOps \cup {"none"}, inv : Invoices \cup {NoOne},
                               to : Status \cup {Keep, Lines}]]
    <3>1. "VENDOR_BILL_CREATED" \in Status
      BY DEF Status
    <3>2. ASSUME NEW to \in {"VENDOR_BILL_CREATED", Keep, Lines}
          PROVE  [call EXCEPT ![r].to = to] \in
                   [Requests -> [op : AllOps \cup {"none"}, inv : Invoices \cup {NoOne},
                                 to : Status \cup {Keep, Lines}]]
      BY <3>1 DEF RequestTypes
    <3>3. call \in [Requests -> [op : AllOps \cup {"none"}, inv : Invoices \cup {NoOne},
                                to : Status \cup {Keep, Lines}]]
      BY DEF RequestTypes
    <3> QED
      BY <1>3, <3>2, <3>3
  <2>4. snap' \in [Requests -> Snapshot]
    BY <1>5 DEF RequestTypes
  <2> QED
    BY <2>1, <2>2, <2>3, <2>4 DEF RequestTypes
<1>7. RowTypes'
  BY <1>4, <1>5 DEF RowTypes, rowVars
<1>8. JobTypes' /\ LogTypes'
  BY <1>5 DEF JobTypes, LogTypes, taskVars, jobVars, faultVars
<1>9. References'
  BY <1>1, <1>2, <1>3, <1>5 DEF References, RequestTypes, Respond, taskVars, jobVars
<1>10. QueueInv'
  BY <1>5 DEF QueueInv, jobVars
<1> QED
  BY <1>6, <1>7, <1>8, <1>9, <1>10

(* A job just queued was in no list before.                                *)
LEMMA SubmitTypeInv ==
  ASSUME JobTypes, References, QueueInv, NEW i \in Invoices, Submit(i), wsnap' = wsnap,
         UNCHANGED call,
         \A r \in Requests : pc'[r] \in {"loaded", "flushed"} => pc[r] \in {"loaded", "flushed"},
         \A r \in Requests : pc'[r] = "loaded" => pc[r] = "loaded"
  PROVE  JobTypes' /\ References' /\ QueueInv'
<1>1. PICK t \in Tasks :
        /\ task[t] = "none"
        /\ task'    = [task EXCEPT ![t] = "PENDING"]
        /\ taskInv' = [taskInv EXCEPT ![t] = i]
        /\ queue'   = Append(queue, t)
        /\ wpc'     = [wpc EXCEPT ![t] = "queued"]
  BY DEF Submit
<1>2. JobTypes'
  BY <1>1 DEF JobTypes, TaskState
<1>3. References'
  BY <1>1 DEF References, JobTypes
<1>4. wpc[t] = "off" /\ \A k \in 1..Len(queue) : queue[k] # t
  BY <1>1 DEF References, QueueInv, JobTypes
<1>5. QueueInv'
  <2>1. Len(queue') = Len(queue) + 1 /\ queue'[Len(queue) + 1] = t
        /\ \A k \in 1..Len(queue) : queue'[k] = queue[k] /\ queue[k] \in Tasks
    BY <1>1 DEF JobTypes
  <2>2. Len(queue) \in Nat
    BY DEF JobTypes
  <2> QED
    BY <1>1, <1>4, <2>1, <2>2 DEF QueueInv, JobTypes
<1> QED
  BY <1>2, <1>3, <1>5

LEMMA EnqueueTypeInv ==
  ASSUME TypeInv, NEW r \in Requests, HandleProcess(r) \/ HandleRetry(r)
  PROVE  TypeInv'
<1> USE DEF TypeInv, TypeOK
<1>1. PICK next \in {"flushed", "done"} : Respond(r, "ok", next)
  BY DEF HandleProcess, HandleRetry
<1>2. /\ Submit(call[r].inv) /\ pc[r] = "loaded"
      /\ UNCHANGED <<rowVars, lock, audit, up, wsnap, call, snap, applied, faultVars>>
  BY DEF HandleProcess, HandleRetry
<1>3. call[r].inv \in Invoices
  BY <1>2 DEF References
<1>4. /\ \A q \in Requests : pc'[q] \in {"loaded", "flushed"} => pc[q] \in {"loaded", "flushed"}
      /\ \A q \in Requests : pc'[q] = "loaded" => pc[q] = "loaded"
  BY <1>1, <1>2 DEF Respond, RequestTypes
<1>5. JobTypes' /\ References' /\ QueueInv'
  BY <1>2, <1>3, <1>4, SubmitTypeInv
<1>6. RowTypes' /\ LogTypes' /\ RequestTypes'
  BY <1>1, <1>2 DEF RowTypes, LogTypes, RequestTypes, Respond, rowVars, faultVars
<1> QED
  BY <1>5, <1>6

LEMMA ReleasedType ==
  ASSUME RowTypes, NEW x PROVE Released(x) \in [Invoices -> Requests \cup Tasks \cup {NoOne}]
  BY DEF RowTypes, Released

LEMMA CommitTypeInv ==
  ASSUME TypeInv, NEW r \in Requests, Commit(r) \/ CommitLost(r) PROVE TypeInv'
<1> USE DEF TypeInv, TypeOK
<1>1. pc[r] = "flushed" /\ pc' = [pc EXCEPT ![r] = "done"] /\ lock' = Released(r)
  BY DEF Commit, CommitLost
<1>2. UNCHANGED <<taskVars, up, jobVars, call, snap, reply, crashes>>
  BY DEF Commit, CommitLost, faultVars
<1>3. call[r].inv \in Invoices /\ call[r].to \in Status \cup {Keep, Lines}
  BY <1>1 DEF References, RequestTypes
<1>4. RequestTypes' /\ JobTypes' /\ References' /\ QueueInv'
  BY <1>1, <1>2 DEF RequestTypes, JobTypes, References, QueueInv, taskVars, jobVars
<1>5. CASE Commit(r)
  <2>1. status' \in [Invoices -> Status]
    BY <1>3, <1>5 DEF Commit, RowTypes
  <2>2. version' \in [Invoices -> Nat]
    BY <1>3, <1>5 DEF Commit, RowTypes
  <2>3. billed' \in [Invoices -> BOOLEAN] /\ content' \in [Invoices -> {"none", "ocr", "manual"}]
    BY <1>3, <1>5 DEF Commit, RowTypes
  <2>4. Traces(call[r].op) \subseteq AuditAction
    BY DEF Traces, AuditAction
  <2>5. LogTypes'
    BY <1>2, <1>3, <1>5, <2>4 DEF Commit, LogTypes, faultVars
  <2> QED
    BY <1>1, <1>4, <2>1, <2>2, <2>3, <2>5, ReleasedType DEF RowTypes
<1>6. CASE CommitLost(r)
  <2>1. RowTypes' /\ LogTypes'
    BY <1>1, <1>6, ReleasedType DEF CommitLost, RowTypes, LogTypes, rowVars
  <2> QED
    BY <1>4, <2>1
<1> QED
  BY <1>5, <1>6

(* Taking the head of the queue leaves a queue without that job.           *)
LEMMA StartTypeInv ==
  ASSUME TypeInv, NEW t \in Tasks, Start(t) PROVE TypeInv'
<1> USE DEF TypeInv, TypeOK
<1>1. /\ queue # <<>> /\ t = Head(queue) /\ queue' = Tail(queue)
      /\ \E next \in {"running", "failing"} : wpc' = [wpc EXCEPT ![t] = next]
      /\ task' = task \/ task' = [task EXCEPT ![t] = "RUNNING"]
      /\ dbFaults' = dbFaults \/ dbFaults' = dbFaults + 1
  BY DEF Start, Goto
<1>2. UNCHANGED <<rowVars, lock, audit, taskInv, up, wsnap, reqVars, applied, crashes>>
  BY DEF Start
<1>3. Len(queue) \in Nat /\ Len(queue) > 0 /\ queue[1] = t
  BY <1>1 DEF JobTypes
<1>4. /\ queue' \in Seq(Tasks) /\ Len(queue') = Len(queue) - 1
      /\ \A k \in 1..Len(queue') : queue'[k] = queue[k + 1]
  BY <1>1, <1>3 DEF JobTypes
<1>5. wpc[t] = "queued" /\ \A k \in 1..Len(queue') : queue'[k] # t
  BY <1>3, <1>4 DEF QueueInv
<1>6. QueueInv'
  BY <1>1, <1>3, <1>4, <1>5 DEF QueueInv, JobTypes
<1>7. JobTypes'
  BY <1>1, <1>2, <1>4 DEF JobTypes, TaskState
<1>8. References'
  BY <1>1, <1>2, <1>5 DEF References, JobTypes, reqVars
<1>9. RowTypes' /\ RequestTypes'
  BY <1>2 DEF RowTypes, RequestTypes, rowVars, reqVars
<1>10. LogTypes'
  BY <1>1, <1>2 DEF LogTypes
<1> QED
  BY <1>6, <1>7, <1>8, <1>9, <1>10

(* A step of a job that left the queue does not disturb the queue.         *)
LEMMA JobTypeInv ==
  ASSUME TypeInv, NEW t \in Tasks, Job(t) PROVE TypeInv'
<1> USE DEF TypeInv, TypeOK
<1>1. /\ wpc[t] \notin {"off", "queued"}
      /\ \E next \in {"off", "loaded", "analysing", "committed", "failing"} : Goto(t, next)
      /\ UNCHANGED <<up, taskInv, queue, audit, billed, reqVars, crashes>>
  BY DEF Job, JobLoad, JobLock, JobCommit, JobRollback, JobSucceed, JobFail, Goto,
         rowVars, taskVars, faultVars
<1>2. task' = task \/ \E s \in TaskState : task' = [task EXCEPT ![t] = s]
  BY DEF Job, JobLoad, JobLock, JobCommit, JobRollback, JobSucceed, JobFail, taskVars, TaskState
<1>3. dbFaults' = dbFaults \/ dbFaults' = dbFaults + 1
  BY DEF Job, JobLoad, JobLock, JobCommit, JobRollback, JobSucceed, JobFail, faultVars
<1>4. applied' = applied \/ applied' = applied \cup {t}
  BY DEF Job, JobLoad, JobLock, JobCommit, JobRollback, JobSucceed, JobFail
<1>5. taskInv[t] \in Invoices
  BY <1>1 DEF References
<1>6. wsnap' = wsnap \/ wsnap' = [wsnap EXCEPT ![t] = Read(taskInv[t])]
  BY DEF Job, JobLoad, JobLock, JobCommit, JobRollback, JobSucceed, JobFail, jobVars
<1>7. RowTypes'
  <2>1. CASE JobCommit(t)
    <3>1. version' \in [Invoices -> Nat]
      BY <1>5, <2>1 DEF JobCommit, RowTypes, AnalysisEdges
    <3>2. status' \in [Invoices -> Status] /\ content' \in [Invoices -> {"none", "ocr", "manual"}]
      BY <1>5, <2>1 DEF JobCommit, RowTypes, Status
    <3> QED
      BY <1>1, <2>1, <3>1, <3>2, ReleasedType DEF JobCommit, RowTypes
  <2>2. CASE ~JobCommit(t)
    <3>1. UNCHANGED rowVars
      BY <2>2 DEF Job, JobLoad, JobLock, JobRollback, JobSucceed, JobFail
    <3>2. \/ lock' = lock \/ lock' = Released(t) \/ lock' = [lock EXCEPT ![taskInv[t]] = t]
      BY <2>2 DEF Job, JobLoad, JobLock, JobRollback, JobSucceed, JobFail
    <3>3. lock' \in [Invoices -> Requests \cup Tasks \cup {NoOne}]
      BY <3>2, ReleasedType DEF RowTypes
    <3> QED
      BY <3>1, <3>3 DEF RowTypes, rowVars
  <2> QED
    BY <2>1, <2>2
<1>8. JobTypes'
  <2>1. wsnap' \in [Tasks -> Snapshot]
    BY <1>5, <1>6, ReadType DEF JobTypes
  <2> QED
    BY <1>1, <1>2, <2>1 DEF JobTypes, Goto
<1>9. References'
  BY <1>1, <1>2 DEF References, JobTypes, Goto, reqVars, TaskState
<1>10. QueueInv'
  BY <1>1 DEF QueueInv, JobTypes, Goto
<1>11. RequestTypes' /\ LogTypes'
  BY <1>1, <1>3, <1>4 DEF RequestTypes, LogTypes, reqVars
<1> QED
  BY <1>7, <1>8, <1>9, <1>10, <1>11

LEMMA ServerTypeInv ==
  ASSUME TypeInv, Crash \/ Restart \/ RestartUnswept PROVE TypeInv'
<1> USE DEF TypeInv, TypeOK
<1>1. CASE Crash
  <2>1. RowTypes'
    BY <1>1 DEF Crash, RowTypes, rowVars
  <2>5. LogTypes'
    <3>1. up' \in BOOLEAN
      BY <1>1 DEF Crash
    <3>2. audit' = audit /\ applied' = applied /\ dbFaults' = dbFaults /\ crashes' = crashes + 1
      BY <1>1 DEF Crash
    <3> QED
      BY <3>1, <3>2 DEF LogTypes
  <2>2. JobTypes' /\ QueueInv'
    BY <1>1 DEF Crash, JobTypes, QueueInv, taskVars
  <2>3. RequestTypes'
    BY <1>1 DEF Crash, RequestTypes
  <2>4. References'
    BY <1>1 DEF Crash, References, RequestTypes, taskVars
  <2> QED
    BY <2>1, <2>2, <2>3, <2>4, <2>5
<1>2. CASE Restart
  <2>1. \A t \in Orphans : taskInv[t] \in Invoices
    BY DEF Orphans, References
  <2>2. \A e \in audit' \ audit : e \in [inv : Invoices, act : AuditAction, by : Requests \cup Tasks]
    BY <1>2, <2>1 DEF Restart, FirstOrphan, AuditAction
  <2>3. RowTypes'
    BY <1>2 DEF Restart, RowTypes, Status
  <2>4. LogTypes'
    BY <1>2, <2>2 DEF Restart, LogTypes, faultVars
  <2>5. JobTypes'
    BY <1>2 DEF Restart, JobTypes, jobVars, TaskState
  <2>6. RequestTypes' /\ QueueInv'
    BY <1>2 DEF Restart, RequestTypes, QueueInv, reqVars, jobVars
  <2>7. References'
    BY <1>2 DEF Restart, References, Orphans, reqVars, jobVars, JobTypes
  <2> QED
    BY <2>3, <2>4, <2>5, <2>6, <2>7
<1>3. CASE RestartUnswept
  BY <1>3 DEF RestartUnswept, RowTypes, LogTypes, JobTypes, RequestTypes, QueueInv, References,
              rowVars, taskVars, jobVars, reqVars
<1> QED
  BY <1>1, <1>2, <1>3

LEMMA NextTypeInv == TypeInv /\ [Next]_vars => TypeInv'
<1> SUFFICES ASSUME TypeInv, [Next]_vars PROVE TypeInv'
  OBVIOUS
<1>1. ASSUME NEW r \in Requests, Load(r) \/ Answers(r) \/ Commit(r) \/ CommitLost(r)
      PROVE  TypeInv'
  BY <1>1, LoadTypeInv, AnswerTypeInv, EnqueueTypeInv, CommitTypeInv DEF Answers, Handle
<1>2. ASSUME NEW t \in Tasks, Start(t) \/ Job(t) PROVE TypeInv'
  BY <1>2, StartTypeInv, JobTypeInv
<1>3. CASE UNCHANGED vars
  BY <1>3 DEF vars, TypeInv, TypeOK, RowTypes, LogTypes, JobTypes, RequestTypes, QueueInv,
              References, rowVars, taskVars, jobVars, reqVars, faultVars
<1> QED
  BY <1>1, <1>2, <1>3, ServerTypeInv DEF Next, Answers

(* The types of all that is stored and under way, what calls and jobs      *)
(* point to, and a queue that holds each waiting job once.                 *)
THEOREM TypeInvariant == Spec => []TypeInv
<1>1. Init => TypeInv
  BY InitTypeInv
<1>2. TypeInv /\ [Next]_vars => TypeInv'
  BY NextTypeInv
<1> QED
  BY <1>1, <1>2, PTL DEF Spec

(* Every row, task, job and request always has its type: no call, fault,   *)
(* stop or sweep writes a value the tables and the schemas do not have.    *)
THEOREM TypeCorrect == Spec => []TypeOK
<1>1. TypeInv => TypeOK
  BY DEF TypeInv
<1> QED
  BY <1>1, TypeInvariant, PTL

-----------------------------------------------------------------------------
(* Row locks.                                                              *)

(* A stopped server runs nothing.                                          *)
Down ==
  ~up => /\ \A t \in Tasks : wpc[t] = "off"
         /\ \A r \in Requests : pc[r] \in {"idle", "done"}

LockInv == TypeInv /\ Down /\ RowLockDiscipline

(* The three things a step of the transaction x may do to the locks:       *)
(* nothing, take the one of a row it starts to write, or end.              *)
LEMMA LockStep ==
  ASSUME RowTypes, RowLockDiscipline, NEW x \in Requests \cup Tasks,
         \A y \in (Requests \cup Tasks) \ {x}, i \in Invoices : Writing(y, i)' <=> Writing(y, i),
         \/ lock' = lock /\ \A i \in Invoices : Writing(x, i)' <=> Writing(x, i)
         \/ \E j \in Invoices :
              /\ lock[j] = NoOne /\ lock' = [lock EXCEPT ![j] = x]
              /\ \A i \in Invoices : ~Writing(x, i) /\ (Writing(x, i)' <=> i = j)
         \/ lock' = Released(x) /\ \A i \in Invoices : ~Writing(x, i)'
  PROVE  RowLockDiscipline'
<1> DEFINE W(y, i)  == Writing(y, i)
           V(y, i)  == Writing(y, i)'
<1>1. \A y \in Requests \cup Tasks : y # NoOne
  BY LifecycleAssumption
<1>2. \A i \in Invoices, y \in Requests \cup Tasks : lock[i] = y <=> W(y, i)
  BY DEF RowLockDiscipline
<1>3. \A y \in (Requests \cup Tasks) \ {x}, i \in Invoices : V(y, i) <=> W(y, i)
  OBVIOUS
<1>4. \/ lock' = lock /\ \A i \in Invoices : V(x, i) <=> W(x, i)
      \/ \E j \in Invoices :
           /\ lock[j] = NoOne /\ lock' = [lock EXCEPT ![j] = x]
           /\ \A i \in Invoices : ~W(x, i) /\ (V(x, i) <=> i = j)
      \/ lock' = [i \in Invoices |-> IF lock[i] = x THEN NoOne ELSE lock[i]]
         /\ \A i \in Invoices : ~V(x, i)
  BY DEF Released
<1>5. \A i \in Invoices, y \in Requests \cup Tasks : lock'[i] = y <=> V(y, i)
  <2> HIDE DEF W, V
  <2>1. CASE lock' = lock /\ \A i \in Invoices : V(x, i) <=> W(x, i)
    BY <1>2, <1>3, <2>1
  <2>2. CASE \E j \in Invoices :
           /\ lock[j] = NoOne /\ lock' = [lock EXCEPT ![j] = x]
           /\ \A i \in Invoices : ~W(x, i) /\ (V(x, i) <=> i = j)
    BY <1>1, <1>2, <1>3, <2>2 DEF RowTypes
  <2>3. CASE lock' = [i \in Invoices |-> IF lock[i] = x THEN NoOne ELSE lock[i]]
             /\ \A i \in Invoices : ~V(x, i)
    BY <1>1, <1>2, <1>3, <2>3 DEF RowTypes
  <2> QED
    BY <1>4, <2>1, <2>2, <2>3
<1> QED
  BY <1>5 DEF RowLockDiscipline

(* A request does not change what the others write, even when it queues a  *)
(* job: that job was nowhere before.                                       *)
LEMMA RequestLockFrame ==
  ASSUME TypeInv, NEW r \in Requests, Load(r) \/ Answers(r) \/ Commit(r) \/ CommitLost(r)
  PROVE  /\ up' = up /\ (up \/ pc[r] # "idle")
         /\ pc[r] \in {"idle", "loaded", "flushed"}
         /\ \A q \in Requests \ {r} : pc'[q] = pc[q] /\ call'[q] = call[q] /\ snap'[q] = snap[q]
         /\ \A t \in Tasks : wpc'[t] = "analysing" <=> wpc[t] = "analysing"
         /\ \A t \in Tasks : wpc[t] = "analysing" => taskInv'[t] = taskInv[t]
         /\ \A y \in (Requests \cup Tasks) \ {r}, i \in Invoices : Writing(y, i)' <=> Writing(y, i)
<1> USE DEF TypeInv, TypeOK
<1>1. up' = up /\ (up \/ pc[r] # "idle") /\ pc[r] \in {"idle", "loaded", "flushed"}
  BY DEF Load, Answers, Handle, HandleStatus, HandleDecision, HandleCorrection, HandleAlreadyBilled, HandleVendorBill,
         HandlerRaises, HandleProcess, HandleRetry, Commit, CommitLost
<1>2. \A q \in Requests \ {r} : pc'[q] = pc[q] /\ call'[q] = call[q] /\ snap'[q] = snap[q]
  <2>1. CASE Load(r)
    BY <2>1 DEF Load, RequestTypes
  <2>2. CASE Answers(r)
    BY <2>2 DEF Answers, Handle, HandleStatus, HandleDecision, HandleCorrection, HandleAlreadyBilled, HandleVendorBill,
                HandlerRaises, HandleProcess, HandleRetry, Respond, RequestTypes
  <2>3. CASE Commit(r) \/ CommitLost(r)
    BY <2>3 DEF Commit, CommitLost, RequestTypes
  <2> QED
    BY <2>1, <2>2, <2>3
<1>3. /\ \A t \in Tasks : wpc'[t] = "analysing" <=> wpc[t] = "analysing"
      /\ \A t \in Tasks : wpc[t] = "analysing" => taskInv'[t] = taskInv[t]
  <2>1. CASE HandleProcess(r) \/ HandleRetry(r)
    <3>1. PICK t \in Tasks :
            /\ task[t] = "none"
            /\ taskInv' = [taskInv EXCEPT ![t] = call[r].inv]
            /\ wpc'     = [wpc EXCEPT ![t] = "queued"]
      BY <2>1 DEF HandleProcess, HandleRetry, Submit
    <3>2. wpc[t] = "off"
      BY <3>1 DEF References
    <3> QED
      BY <3>1, <3>2 DEF JobTypes
  <2>2. CASE ~(HandleProcess(r) \/ HandleRetry(r))
    BY <2>2 DEF Load, Answers, Handle, HandleStatus, HandleDecision, HandleCorrection, HandleAlreadyBilled,
         HandleVendorBill, HandlerRaises, Commit, CommitLost, taskVars, jobVars
  <2> QED
    BY <2>1, <2>2
<1>4. \A y \in (Requests \cup Tasks) \ {r}, i \in Invoices : Writing(y, i)' <=> Writing(y, i)
  BY <1>2, <1>3, LifecycleAssumption DEF Writing
<1> QED
  BY <1>1, <1>2, <1>3, <1>4

LEMMA RequestLockInv ==
  ASSUME LockInv, NEW r \in Requests, Load(r) \/ Answers(r) \/ Commit(r) \/ CommitLost(r)
  PROVE  RowLockDiscipline'
<1> USE DEF LockInv, TypeInv, TypeOK
<1>1. \A y \in (Requests \cup Tasks) \ {r}, i \in Invoices : Writing(y, i)' <=> Writing(y, i)
  BY RequestLockFrame
<1>2. r \notin Tasks
  BY LifecycleAssumption
<1>3. CASE \/ Load(r) \/ HandlerRaises(r) \/ HandleProcess(r) \/ HandleRetry(r)
           \/ HandleAlreadyBilled(r)
           \/ HandleCorrection(r) /\ lock' = lock
           \/ HandleStatus(r) /\ lock' = lock /\ pc'[r] = "done"
  <2>1. lock' = lock /\ pc[r] # "flushed"
    BY <1>3 DEF Load, HandlerRaises, HandleProcess, HandleRetry, HandleAlreadyBilled, HandleCorrection,
                HandleStatus
  <2>2. \A i \in Invoices : ~Writing(r, i)'
    <3>1. CASE HandleCorrection(r)
      <4>1. call[r].inv \in Invoices /\ r # NoOne
        BY <3>1, LifecycleAssumption DEF HandleCorrection, References
      <4>2. lock' # [lock EXCEPT ![call[r].inv] = r] \/ lock[call[r].inv] # NoOne
        BY <2>1, <4>1 DEF RowTypes
      <4>3. pc'[r] = "done" \/ (call'[r].op = "correct" /\ call'[r].to = Lines)
        BY <2>1, <3>1, <4>2 DEF HandleCorrection, Respond, RequestTypes
      <4> QED
        BY <1>2, <4>3 DEF Writing
    <3>2. CASE ~HandleCorrection(r)
      <4>1. \/ pc'[r] \in {"loaded", "done"} \/ call'[r].op = "retry"
            \/ call'[r].op = "vendor_bill" /\ snap'[r].billed
        <5>1. CASE Load(r)
          BY <5>1 DEF Load, RequestTypes
        <5>2. CASE ~Load(r)
          BY <1>3, <3>2, <5>2 DEF HandlerRaises, HandleProcess, HandleRetry, HandleAlreadyBilled,
                                  Respond, RequestTypes
        <5> QED
          BY <5>1, <5>2
      <4> QED
        BY <1>2, <4>1 DEF Writing
    <3> QED
      BY <3>1, <3>2
  <2> QED
    BY <1>1, <1>2, <2>1, <2>2, LockStep DEF Writing
<1>4. CASE \/ HandleDecision(r) \/ HandleVendorBill(r)
           \/ (HandleCorrection(r) \/ HandleStatus(r)) /\ lock' # lock
  <2>1. call[r].inv \in Invoices /\ pc[r] = "loaded"
    BY <1>4 DEF HandleDecision, HandleCorrection, HandleVendorBill, HandleStatus, References
  <2>2. lock[call[r].inv] = NoOne /\ lock' = [lock EXCEPT ![call[r].inv] = r]
    BY <1>4 DEF HandleDecision, HandleCorrection, HandleVendorBill, HandleStatus
  <2>3. pc'[r] = "flushed" /\ call'[r].inv = call[r].inv /\ call'[r].op = call[r].op /\ snap' = snap
    BY <1>4 DEF HandleDecision, HandleCorrection, HandleVendorBill, HandleStatus, Respond, RequestTypes
  <2>4. /\ call[r].op # "retry" /\ (call[r].op = "vendor_bill" => ~snap[r].billed)
        /\ call[r].op = "correct" => call'[r].to # Lines
    BY <1>4 DEF HandleDecision, HandleCorrection, HandleVendorBill, HandleStatus, References
  <2>5. \A i \in Invoices : ~Writing(r, i) /\ (Writing(r, i)' <=> i = call[r].inv)
    BY <1>2, <2>1, <2>3, <2>4 DEF Writing
  <2> QED
    BY <1>1, <2>1, <2>2, <2>5, LockStep
<1>5. CASE Commit(r) \/ CommitLost(r)
  <2>1. lock' = Released(r) /\ pc'[r] = "done"
    BY <1>5 DEF Commit, CommitLost, RequestTypes
  <2> QED
    BY <1>1, <1>2, <2>1, LockStep DEF Writing
<1>6. HandleStatus(r) => (lock' = lock /\ pc'[r] = "done") \/ lock' # lock
  <2> SUFFICES ASSUME HandleStatus(r), lock' = lock PROVE pc'[r] = "done"
    OBVIOUS
  <2>1. call[r].inv \in Invoices /\ r # NoOne
    BY LifecycleAssumption DEF HandleStatus, References
  <2> QED
    BY <2>1 DEF HandleStatus, Respond, RequestTypes, RowTypes
<1>7. HandleCorrection(r) => lock' = lock \/ lock' # lock
  OBVIOUS
<1> QED
  BY <1>3, <1>4, <1>5, <1>6, <1>7 DEF Answers, Handle

LEMMA JobLockInv ==
  ASSUME LockInv, NEW t \in Tasks, Start(t) \/ Job(t)
  PROVE  RowLockDiscipline'
<1> USE DEF LockInv, TypeInv, TypeOK
<1>1. t \notin Requests
  BY LifecycleAssumption
<1>2. /\ pc' = pc /\ call' = call /\ snap' = snap /\ taskInv' = taskInv
      /\ \A u \in Tasks \ {t} : wpc'[u] = wpc[u]
  BY DEF Start, Job, JobLoad, JobLock, JobCommit, JobRollback, JobSucceed, JobFail, Goto,
         reqVars, taskVars, JobTypes
<1>3. \A y \in (Requests \cup Tasks) \ {t}, i \in Invoices : Writing(y, i)' <=> Writing(y, i)
  BY <1>1, <1>2 DEF Writing
<1>4. CASE JobCommit(t) \/ JobRollback(t)
  <2>1. lock' = Released(t) /\ wpc'[t] # "analysing"
    BY <1>4 DEF JobCommit, JobRollback, Goto, JobTypes
  <2> QED
    BY <1>1, <1>3, <2>1, LockStep DEF Writing
<1>5. CASE JobLock(t) /\ version[taskInv[t]] = wsnap[t].version
  <2>1. /\ taskInv[t] \in Invoices /\ lock[taskInv[t]] = NoOne
        /\ lock' = [lock EXCEPT ![taskInv[t]] = t]
        /\ wpc[t] = "loaded" /\ wpc'[t] = "analysing"
    BY <1>5 DEF JobLock, Goto, JobTypes, References
  <2>2. \A i \in Invoices : ~Writing(t, i) /\ (Writing(t, i)' <=> i = taskInv[t])
    BY <1>1, <1>2, <2>1 DEF Writing
  <2> QED
    BY <1>3, <2>1, <2>2, LockStep
<1>6. CASE \/ Start(t) \/ JobLoad(t) \/ JobSucceed(t) \/ JobFail(t)
           \/ JobLock(t) /\ version[taskInv[t]] # wsnap[t].version
  <2>1. lock' = lock
    BY <1>6 DEF Start, JobLoad, JobSucceed, JobFail, JobLock
  <2>2. wpc'[t] # "analysing"
    BY <1>6 DEF Start, JobLoad, JobSucceed, JobFail, JobLock, Goto, JobTypes
  <2>3. wpc[t] # "analysing"
    BY <1>6 DEF Start, JobLoad, JobSucceed, JobFail, JobLock, QueueInv, JobTypes
  <2> QED
    BY <1>1, <1>3, <2>1, <2>2, <2>3, LockStep DEF Writing
<1> QED
  BY <1>4, <1>5, <1>6 DEF Job

LEMMA NextDown == TypeInv /\ Down /\ [Next]_vars => Down'
<1> SUFFICES ASSUME TypeInv, Down, [Next]_vars PROVE Down'
  OBVIOUS
<1> USE DEF TypeInv, TypeOK
<1>1. ASSUME NEW r \in Requests, Load(r) \/ Answers(r) \/ Commit(r) \/ CommitLost(r)
      PROVE  Down'
  <2>1. up /\ up' = up
    BY <1>1, RequestLockFrame DEF Down
  <2> QED
    BY <2>1 DEF Down
<1>2. ASSUME NEW t \in Tasks, Start(t) \/ Job(t) PROVE Down'
  <2>1. wpc[t] # "off" /\ up' = up
    BY <1>2 DEF Start, Job, JobLoad, JobLock, JobCommit, JobRollback, JobSucceed, JobFail,
                QueueInv, JobTypes
  <2> QED
    BY <2>1 DEF Down
<1>3. CASE Crash
  BY <1>3 DEF Crash, Down
<1>4. CASE Restart \/ RestartUnswept
  BY <1>4 DEF Restart, RestartUnswept, Down
<1>5. CASE UNCHANGED vars
  BY <1>5 DEF Down, vars, jobVars, reqVars
<1> QED
  BY <1>1, <1>2, <1>3, <1>4, <1>5 DEF Next, Answers

LEMMA NextRowLockDiscipline == LockInv /\ [Next]_vars => RowLockDiscipline'
<1> SUFFICES ASSUME LockInv, [Next]_vars PROVE RowLockDiscipline'
  OBVIOUS
<1>1. CASE Crash
  <2>1. \A y \in Requests \cup Tasks : y # NoOne
    BY LifecycleAssumption
  <2> QED
    BY <1>1, <2>1 DEF Crash, RowLockDiscipline, Writing
<1>2. CASE Restart \/ RestartUnswept
  BY <1>2 DEF LockInv, Restart, RestartUnswept, RowLockDiscipline, Writing, reqVars, jobVars, taskVars
<1>3. CASE UNCHANGED vars
  BY <1>3 DEF LockInv, RowLockDiscipline, Writing, vars, reqVars, jobVars, taskVars
<1> QED
  BY <1>1, <1>2, <1>3, RequestLockInv, JobLockInv DEF Next, Answers

(* Beside the types: a stopped server runs nothing, and a row is locked by *)
(* exactly the open transaction that wrote it.                             *)
THEOREM LockInvariant == Spec => []LockInv
<1>1. Init => LockInv
  <2>1. Init => RowLockDiscipline
    BY LifecycleAssumption DEF Init, RowLockDiscipline, Writing
  <2>2. Init => Down
    BY DEF Init, Down
  <2> QED
    BY <2>1, <2>2, InitTypeInv DEF LockInv
<1>2. LockInv /\ [Next]_vars => LockInv'
  BY NextTypeInv, NextDown, NextRowLockDiscipline DEF LockInv
<1> QED
  BY <1>1, <1>2, PTL DEF Spec

(* For any number of concurrent requests and jobs, a row is locked by      *)
(* exactly the open transaction that wrote it, and by nobody once that     *)
(* transaction commits, rolls back or dies with the server.                *)
THEOREM RowLocksCorrect == Spec => []RowLockDiscipline
<1>1. LockInv => RowLockDiscipline
  BY DEF LockInv
<1> QED
  BY <1>1, LockInvariant, PTL

-----------------------------------------------------------------------------
(* The optimistic lock.                                                    *)

(* A transaction that committed is over.                                   *)
AppliedDone ==
  \A x \in applied :
    /\ x \in Requests => pc[x] = "done"
    /\ x \in Tasks => wpc[x] \in {"committed", "failing", "off"} /\ task[x] # "none"

(* While a swapper holds its row, the version it read is still current...  *)
LockedRead ==
  \A x \in Requests \cup Tasks, i \in Invoices :
    Writing(x, i) /\ Swaps(x) => SeenBy(x) = version[i]

(* ... and once it has committed, it is past.                              *)
VersionsSeen ==
  \A x \in applied :
    Swaps(x) => InvOf(x) \in Invoices /\ SeenBy(x) \in Nat /\ SeenBy(x) < version[InvOf(x)]

SwapInv == AppliedDone /\ LockedRead /\ VersionsSeen /\ EachVersionConsumedOnce

(* One step of the transaction x, seen by the optimistic lock: either it   *)
(* commits nothing, or it commits and, if it swaps, moves its row on.      *)
LEMMA SwapStep ==
  ASSUME TypeInv, SwapInv, NEW x \in Requests \cup Tasks,
         \A y \in (Requests \cup Tasks) \ {x} :
           /\ Swaps(y)' <=> Swaps(y)
           /\ SeenBy(y)' = SeenBy(y)
           /\ y \in applied => InvOf(y)' = InvOf(y)
           /\ \A i \in Invoices : Writing(y, i)' <=> Writing(y, i),
         x \in applied \/ x \in applied' =>
           (Swaps(x)' <=> Swaps(x)) /\ SeenBy(x)' = SeenBy(x) /\ InvOf(x)' = InvOf(x),
         \/ /\ applied' = applied /\ version' = version
            /\ \A i \in Invoices : Writing(x, i)' /\ Swaps(x)' => SeenBy(x)' = version[i]
         \/ /\ applied' = applied \cup {x} /\ \A i \in Invoices : ~Writing(x, i)'
            /\ Swaps(x) => /\ InvOf(x) \in Invoices /\ Writing(x, InvOf(x))
                            /\ \A y \in Requests \cup Tasks : Writing(y, InvOf(x)) => y = x
                            /\ \E n \in Nat \ {0} : version' = [version EXCEPT ![InvOf(x)] = @ + n]
            /\ ~Swaps(x) => version' = version
  PROVE  LockedRead' /\ VersionsSeen' /\ EachVersionConsumedOnce'
<1> DEFINE W(y, i) == Writing(y, i)
           V(y, i) == Writing(y, i)'
           S(y) == Swaps(y)
           T(y) == Swaps(y)'
           R(y) == SeenBy(y)
           Q(y) == SeenBy(y)'
           I(y) == InvOf(y)
           J(y) == InvOf(y)'
<1>1. /\ \A y \in Requests \cup Tasks, i \in Invoices : W(y, i) /\ S(y) => R(y) = version[i]
      /\ \A y \in applied : S(y) => I(y) \in Invoices /\ R(y) \in Nat /\ R(y) < version[I(y)]
      /\ \A y, z \in applied : S(y) /\ S(z) /\ I(y) = I(z) /\ R(y) = R(z) => y = z
  BY DEF SwapInv, LockedRead, VersionsSeen, EachVersionConsumedOnce
<1>2. version \in [Invoices -> Nat] /\ applied \subseteq Requests \cup Tasks
  BY DEF TypeInv, TypeOK, RowTypes, LogTypes
<1>3. \A y \in (Requests \cup Tasks) \ {x} :
        /\ T(y) <=> S(y)
        /\ Q(y) = R(y)
        /\ y \in applied => J(y) = I(y)
        /\ \A i \in Invoices : V(y, i) <=> W(y, i)
  OBVIOUS
<1>4. x \in applied \/ x \in applied' => (T(x) <=> S(x)) /\ Q(x) = R(x) /\ J(x) = I(x)
  OBVIOUS
<1>5. \/ /\ applied' = applied /\ version' = version
         /\ \A i \in Invoices : V(x, i) /\ T(x) => Q(x) = version[i]
      \/ /\ applied' = applied \cup {x} /\ \A i \in Invoices : ~V(x, i)
         /\ S(x) => /\ I(x) \in Invoices /\ W(x, I(x))
                     /\ \A y \in Requests \cup Tasks : W(y, I(x)) => y = x
                     /\ \E n \in Nat \ {0} : version' = [version EXCEPT ![I(x)] = @ + n]
         /\ ~S(x) => version' = version
  OBVIOUS
<1>6. /\ \A y \in Requests \cup Tasks, i \in Invoices : V(y, i) /\ T(y) => Q(y) = version'[i]
      /\ \A y \in applied' : T(y) => J(y) \in Invoices /\ Q(y) \in Nat /\ Q(y) < version'[J(y)]
      /\ \A y, z \in applied' : T(y) /\ T(z) /\ J(y) = J(z) /\ Q(y) = Q(z) => y = z
  <2> HIDE DEF W, V, S, T, R, Q, I, J
  <2>1. CASE version' = version /\ applied' = applied
    <3>1. \A i \in Invoices : V(x, i) /\ T(x) => Q(x) = version[i]
      BY <1>2, <1>4, <1>5, <2>1
    <3> QED
      BY <1>1, <1>2, <1>3, <1>4, <2>1, <3>1
  <2>2. CASE applied' = applied \cup {x} /\ ~S(x) /\ version' = version
             /\ \A i \in Invoices : ~V(x, i)
    BY <1>1, <1>2, <1>3, <1>4, <2>2
  <2>3. ASSUME applied' = applied \cup {x}, S(x), I(x) \in Invoices, W(x, I(x)),
               \A i \in Invoices : ~V(x, i),
               \A y \in Requests \cup Tasks : W(y, I(x)) => y = x,
               NEW n \in Nat \ {0}, version' = [version EXCEPT ![I(x)] = @ + n]
        PROVE  <1>6!1 /\ <1>6!2 /\ <1>6!3
    <3>1. R(x) = version[I(x)] /\ Q(x) = R(x) /\ J(x) = I(x) /\ T(x)
      BY <1>1, <1>4, <2>3
    <3>2. \A i \in Invoices : i # I(x) => version'[i] = version[i]
      BY <1>2, <2>3
    <3>3. version'[I(x)] > version[I(x)] /\ \A i \in Invoices : version[i] \in Nat /\ version'[i] \in Nat
      BY <1>2, <2>3
    <3>4. <1>6!1
      BY <1>1, <1>3, <2>3, <3>2
    <3>5. \A y \in applied \ {x} : T(y) =>
            /\ S(y) /\ J(y) = I(y) /\ Q(y) = R(y) /\ I(y) \in Invoices
            /\ R(y) \in Nat /\ R(y) < version[I(y)]
      BY <1>1, <1>2, <1>3
    <3>6. <1>6!2
      BY <2>3, <3>1, <3>2, <3>3, <3>5
    <3>7. <1>6!3
      BY <1>1, <2>3, <3>1, <3>5, <3>3
    <3> QED
      BY <3>4, <3>6, <3>7
  <2> QED
    BY <1>5, <2>1, <2>2, <2>3
<1> QED
  BY <1>6 DEF LockedRead, VersionsSeen, EachVersionConsumedOnce

LEMMA RequestSwap ==
  ASSUME LockInv, SwapInv, NEW r \in Requests,
         Load(r) \/ Answers(r) \/ Commit(r) \/ CommitLost(r)
  PROVE  LockedRead' /\ VersionsSeen' /\ EachVersionConsumedOnce'
<1> USE DEF LockInv, TypeInv, TypeOK
<1>1. r \notin Tasks /\ \A y \in Requests : y \notin Tasks
  BY LifecycleAssumption
<1>2. wsnap' = wsnap /\ \A t \in Tasks : task[t] # "none" => taskInv'[t] = taskInv[t]
  <2>1. CASE HandleProcess(r) \/ HandleRetry(r)
    BY <2>1 DEF HandleProcess, HandleRetry, Submit, JobTypes
  <2>2. CASE ~(HandleProcess(r) \/ HandleRetry(r))
    BY <2>2 DEF Load, Answers, Handle, HandleStatus, HandleDecision, HandleCorrection, HandleAlreadyBilled,
         HandleVendorBill, HandlerRaises, Commit, CommitLost, taskVars, jobVars
  <2> QED
    BY <2>1, <2>2
<1>3. \A y \in (Requests \cup Tasks) \ {r} :
        /\ Swaps(y)' <=> Swaps(y)
        /\ SeenBy(y)' = SeenBy(y)
        /\ y \in applied => InvOf(y)' = InvOf(y)
        /\ \A i \in Invoices : Writing(y, i)' <=> Writing(y, i)
  <2>1. \A y \in Tasks : y \in applied => task[y] # "none"
    BY DEF SwapInv, AppliedDone
  <2>2. \A q \in Requests \ {r} : pc'[q] = pc[q] /\ call'[q] = call[q] /\ snap'[q] = snap[q]
    BY RequestLockFrame
  <2>3. \A y \in (Requests \cup Tasks) \ {r} : Swaps(y)' <=> Swaps(y)
    BY <1>1, <2>2 DEF Swaps
  <2>4. \A y \in (Requests \cup Tasks) \ {r} : SeenBy(y)' = SeenBy(y)
    BY <1>1, <1>2, <2>2 DEF SeenBy
  <2>5. \A y \in (Requests \cup Tasks) \ {r} : y \in applied => InvOf(y)' = InvOf(y)
    BY <1>1, <1>2, <2>1, <2>2 DEF InvOf
  <2> QED
    BY <2>3, <2>4, <2>5, RequestLockFrame
<1>4. r \notin applied
  BY RequestLockFrame DEF SwapInv, AppliedDone
<1>5. CASE Commit(r)
  <2> DEFINE i == call[r].inv
  <2>1. /\ pc[r] = "flushed" /\ pc'[r] = "done" /\ call' = call /\ snap' = snap
        /\ applied' = applied \cup {r}
        /\ version' = IF call[r].op = "status" THEN [version EXCEPT ![i] = @ + 1] ELSE version
    BY <1>5 DEF Commit, RequestTypes
  <2>2. i \in Invoices
    BY <2>1 DEF References
  <2>3. /\ Swaps(r)' <=> Swaps(r)
        /\ SeenBy(r)' = SeenBy(r) /\ InvOf(r)' = InvOf(r)
        /\ Swaps(r) <=> call[r].op = "status"
        /\ InvOf(r) = i
    BY <1>1, <2>1 DEF Swaps, SeenBy, InvOf
  <2>4. \A j \in Invoices : ~Writing(r, j)'
    BY <1>1, <2>1 DEF Writing
  <2>5. Swaps(r) => /\ Writing(r, i)
                    /\ \A y \in Requests \cup Tasks : Writing(y, i) => y = r
    BY <2>1, <2>2, <2>3 DEF Writing, RowLockDiscipline
  <2> HIDE DEF i
  <2>6. Swaps(r) => /\ InvOf(r) \in Invoices /\ Writing(r, InvOf(r))
                    /\ \A y \in Requests \cup Tasks : Writing(y, InvOf(r)) => y = r
                    /\ \E n \in Nat \ {0} : version' = [version EXCEPT ![InvOf(r)] = @ + n]
    <3>1. Swaps(r) => version' = [version EXCEPT ![i] = @ + 1]
      BY <2>1, <2>3
    <3>2. InvOf(r) = i /\ 1 \in Nat \ {0}
      BY <2>3
    <3> HIDE DEF TypeInv
    <3> QED
      BY <2>2, <2>5, <3>1, <3>2
  <2>7. ~Swaps(r) => version' = version
    BY <2>1, <2>3
  <2> QED
    BY <1>3, <2>1, <2>3, <2>4, <2>6, <2>7, SwapStep
<1>6. CASE Load(r) \/ Answers(r) \/ CommitLost(r)
  <2>1. applied' = applied /\ version' = version
    BY <1>6 DEF Load, Answers, Handle, HandleStatus, HandleDecision, HandleCorrection, HandleAlreadyBilled, HandleVendorBill,
                HandlerRaises, HandleProcess, HandleRetry, CommitLost, rowVars
  <2>2. \A j \in Invoices : Writing(r, j)' /\ Swaps(r)' => SeenBy(r)' = version[j]
    <3>1. CASE HandleStatus(r)
      <4>1. /\ call' = call /\ snap' = snap
            /\ version[call[r].inv] = snap[r].version \/ pc'[r] = "done"
        BY <3>1 DEF HandleStatus, Respond, RequestTypes
      <4> QED
        BY <1>1, <4>1 DEF Writing, SeenBy
    <3>2. CASE \/ HandleDecision(r) \/ HandleCorrection(r) \/ HandleAlreadyBilled(r) \/ HandleVendorBill(r)
               \/ HandleProcess(r) \/ HandleRetry(r)
      <4>1. call'[r].op = call[r].op /\ call[r].op # "status"
        BY <3>2 DEF HandleDecision, HandleCorrection, HandleAlreadyBilled, HandleVendorBill, HandleProcess, HandleRetry,
                    RequestTypes
      <4> QED
        BY <1>1, <4>1 DEF Swaps
    <3>3. CASE Load(r) \/ HandlerRaises(r) \/ CommitLost(r)
      <4>1. pc'[r] # "flushed"
        BY <3>3 DEF Load, HandlerRaises, Respond, CommitLost, RequestTypes
      <4> QED
        BY <1>1, <4>1 DEF Writing
    <3> QED
      BY <1>6, <3>1, <3>2, <3>3 DEF Answers, Handle
  <2> QED
    BY <1>3, <1>4, <2>1, <2>2, SwapStep
<1> QED
  BY <1>5, <1>6

LEMMA JobSwap ==
  ASSUME LockInv, SwapInv, NEW t \in Tasks, Start(t) \/ Job(t)
  PROVE  LockedRead' /\ VersionsSeen' /\ EachVersionConsumedOnce'
<1> USE DEF LockInv, TypeInv, TypeOK
<1>1. t \notin Requests /\ Swaps(t) /\ Swaps(t)' /\ InvOf(t) = taskInv[t] /\ SeenBy(t) = wsnap[t].version
  BY LifecycleAssumption DEF Swaps, InvOf, SeenBy
<1>2. /\ pc' = pc /\ call' = call /\ snap' = snap /\ taskInv' = taskInv
      /\ \A u \in Tasks \ {t} : wpc'[u] = wpc[u] /\ wsnap'[u] = wsnap[u]
      /\ JobLoad(t) \/ wsnap' = wsnap
  BY DEF Start, Job, JobLoad, JobLock, JobCommit, JobRollback, JobSucceed, JobFail, Goto,
         reqVars, taskVars, jobVars, JobTypes
<1>3. \A y \in (Requests \cup Tasks) \ {t} :
        /\ Swaps(y)' <=> Swaps(y)
        /\ SeenBy(y)' = SeenBy(y)
        /\ y \in applied => InvOf(y)' = InvOf(y)
        /\ \A i \in Invoices : Writing(y, i)' <=> Writing(y, i)
  BY <1>1, <1>2 DEF Swaps, SeenBy, InvOf, Writing
<1>4. taskInv[t] \in Invoices \/ Start(t)
  BY DEF Job, JobLoad, JobLock, JobCommit, JobRollback, JobSucceed, JobFail, References
<1>5. InvOf(t)' = InvOf(t)
  BY <1>1, <1>2 DEF InvOf
<1>6. CASE JobCommit(t)
  <2>1. /\ wpc[t] = "analysing" /\ wpc'[t] = "committed" /\ taskInv[t] \in Invoices
        /\ applied' = applied \cup {t}
        /\ version' = [version EXCEPT ![taskInv[t]] = @ + AnalysisEdges(wsnap[t].status)]
        /\ wsnap' = wsnap
    BY <1>6 DEF JobCommit, Goto, JobTypes, References
  <2>2. \A j \in Invoices : ~Writing(t, j)'
    BY <1>1, <2>1 DEF Writing
  <2>3. /\ Writing(t, taskInv[t])
        /\ \A y \in Requests \cup Tasks : Writing(y, taskInv[t]) => y = t
    BY <2>1 DEF Writing, RowLockDiscipline
  <2>4. AnalysisEdges(wsnap[t].status) \in Nat \ {0}
    BY DEF AnalysisEdges
  <2>5. SeenBy(t)' = SeenBy(t)
    BY <2>1 DEF SeenBy
  <2> QED
    BY <1>1, <1>3, <1>5, <2>1, <2>2, <2>3, <2>4, <2>5, SwapStep
<1>7. CASE ~JobCommit(t)
  <2>1. applied' = applied /\ version' = version
    BY <1>7 DEF Start, Job, JobLoad, JobLock, JobRollback, JobSucceed, JobFail, rowVars
  <2>2. t \in applied => SeenBy(t)' = SeenBy(t)
    BY <1>2 DEF JobLoad, SeenBy, SwapInv, AppliedDone
  <2>3. \A j \in Invoices : Writing(t, j)' => SeenBy(t)' = version[j]
    <3>1. CASE JobLock(t)
      <4>1. version[taskInv[t]] = wsnap[t].version \/ wpc'[t] = "failing"
        BY <3>1 DEF JobLock, Goto, JobTypes
      <4>2. wsnap' = wsnap
        BY <3>1 DEF JobLock
      <4> QED
        BY <1>1, <1>2, <4>1, <4>2 DEF Writing, SeenBy
    <3>2. CASE ~JobLock(t)
      <4>1. wpc'[t] # "analysing"
        BY <1>7, <3>2 DEF Start, Job, JobLoad, JobRollback, JobSucceed, JobFail, Goto, JobTypes
      <4> QED
        BY <1>1, <4>1 DEF Writing
    <3> QED
      BY <3>1, <3>2
  <2> QED
    BY <1>1, <1>3, <1>5, <2>1, <2>2, <2>3, SwapStep
<1> QED
  BY <1>6, <1>7

LEMMA NextAppliedDone == LockInv /\ SwapInv /\ [Next]_vars => AppliedDone'
<1> SUFFICES ASSUME LockInv, SwapInv, [Next]_vars PROVE AppliedDone'
  OBVIOUS
<1> USE DEF LockInv, TypeInv, TypeOK, SwapInv
<1>1. ASSUME NEW r \in Requests, Load(r) \/ Answers(r) \/ Commit(r) \/ CommitLost(r)
      PROVE  AppliedDone'
  <2>1. r \notin applied /\ r \notin Tasks
    BY <1>1, RequestLockFrame, LifecycleAssumption DEF AppliedDone
  <2>2. applied' = applied \/ (applied' = applied \cup {r} /\ pc'[r] = "done")
    BY <1>1 DEF Load, Answers, Handle, HandleStatus, HandleDecision, HandleCorrection, HandleAlreadyBilled, HandleVendorBill,
                HandlerRaises, HandleProcess, HandleRetry, Commit, CommitLost, RequestTypes
  <2>3. \A q \in Requests \ {r} : pc'[q] = pc[q]
    BY <1>1, RequestLockFrame
  <2>4. \A u \in Tasks : task[u] # "none" => wpc'[u] = wpc[u] /\ task'[u] = task[u]
    <3>1. CASE HandleProcess(r) \/ HandleRetry(r)
      BY <3>1 DEF HandleProcess, HandleRetry, Submit, JobTypes
    <3>2. CASE ~(HandleProcess(r) \/ HandleRetry(r))
      BY <1>1, <3>2 DEF Load, Answers, Handle, HandleStatus, HandleDecision, HandleCorrection, HandleAlreadyBilled,
           HandleVendorBill, HandlerRaises, Commit, CommitLost, taskVars, jobVars
    <3> QED
      BY <3>1, <3>2
  <2> QED
    BY <2>1, <2>2, <2>3, <2>4 DEF AppliedDone, LogTypes
<1>2. ASSUME NEW t \in Tasks, Start(t) \/ Job(t) PROVE AppliedDone'
  <2>1. /\ pc' = pc /\ t \notin Requests
        /\ \A u \in Tasks \ {t} : wpc'[u] = wpc[u] /\ task'[u] = task[u]
    BY <1>2, LifecycleAssumption DEF Start, Job, JobLoad, JobLock, JobCommit, JobRollback, JobSucceed,
         JobFail, Goto, reqVars, taskVars, JobTypes
  <2>2. task[t] # "none" /\ task'[t] # "none"
    BY <1>2 DEF Start, Job, JobLoad, JobLock, JobCommit, JobRollback, JobSucceed, JobFail,
         taskVars, JobTypes, References, QueueInv
  <2>3. CASE JobCommit(t)
    <3>1. applied' = applied \cup {t} /\ wpc'[t] = "committed"
      BY <2>3 DEF JobCommit, Goto, JobTypes
    <3> QED
      BY <2>1, <2>2, <3>1 DEF AppliedDone, LogTypes
  <2>4. CASE JobSucceed(t) \/ JobFail(t)
    <3>1. applied' = applied /\ wpc'[t] \in {"off", "failing"}
      BY <2>4 DEF JobSucceed, JobFail, Goto, JobTypes
    <3> QED
      BY <2>1, <2>2, <3>1 DEF AppliedDone, LogTypes
  <2>5. CASE Start(t) \/ JobLoad(t) \/ JobLock(t) \/ JobRollback(t)
    <3>1. wpc[t] \in {"queued", "running", "loaded", "analysing"}
      BY <2>5 DEF Start, JobLoad, JobLock, JobRollback, QueueInv, JobTypes
    <3>2. applied' = applied /\ t \notin applied
      BY <2>5, <3>1 DEF Start, JobLoad, JobLock, JobRollback, AppliedDone
    <3> QED
      BY <2>1, <3>2 DEF AppliedDone, LogTypes
  <2> QED
    BY <1>2, <2>3, <2>4, <2>5 DEF Job
<1>3. CASE Crash
  BY <1>3 DEF Crash, AppliedDone, LogTypes, taskVars
<1>4. CASE Restart \/ RestartUnswept
  <2>1. pc' = pc /\ wpc' = wpc /\ applied' = applied
    BY <1>4 DEF Restart, RestartUnswept, reqVars, jobVars
  <2>2. \A t \in Tasks : task[t] # "none" => task'[t] # "none"
    BY <1>4 DEF Restart, RestartUnswept, taskVars
  <2> QED
    BY <2>1, <2>2 DEF AppliedDone
<1>5. CASE UNCHANGED vars
  BY <1>5 DEF vars, AppliedDone, taskVars, jobVars, reqVars
<1> QED
  BY <1>1, <1>2, <1>3, <1>4, <1>5 DEF Next, Answers

(* Outside the transactions, versions move only while nobody is writing.   *)
LEMMA ServerSwap ==
  ASSUME LockInv, SwapInv, Crash \/ Restart \/ RestartUnswept \/ UNCHANGED vars
  PROVE  LockedRead' /\ VersionsSeen' /\ EachVersionConsumedOnce'
<1> USE DEF LockInv, TypeInv, TypeOK
<1>1. /\ taskInv' = taskInv /\ call' = call /\ snap' = snap /\ wsnap' = wsnap /\ applied' = applied
  BY DEF Crash, Restart, RestartUnswept, vars, taskVars, reqVars, jobVars
<1>2. \A i \in Invoices : version[i] \in Nat /\ version'[i] \in Nat /\ version[i] <= version'[i]
  BY DEF Crash, Restart, RestartUnswept, vars, rowVars, RowTypes
<1>3. EachVersionConsumedOnce'
  BY <1>1 DEF SwapInv, EachVersionConsumedOnce, Swaps, InvOf, SeenBy
<1>4. VersionsSeen'
  <2>1. \A x \in applied : /\ Swaps(x)' <=> Swaps(x)
                           /\ InvOf(x)' = InvOf(x) /\ SeenBy(x)' = SeenBy(x)
    BY <1>1 DEF Swaps, InvOf, SeenBy
  <2> QED
    BY <1>1, <1>2, <2>1 DEF SwapInv, VersionsSeen
<1>5. LockedRead'
  <2>1. CASE Crash
    <3>1. \A x \in Requests \cup Tasks, i \in Invoices : ~Writing(x, i)'
      BY <2>1, LifecycleAssumption DEF Crash, Writing
    <3> QED
      BY <3>1 DEF LockedRead
  <2>2. CASE Restart
    <3>1. \A x \in Requests \cup Tasks, i \in Invoices : ~Writing(x, i)'
      BY <2>2, LifecycleAssumption DEF Restart, Writing, Down, reqVars, jobVars
    <3> QED
      BY <3>1 DEF LockedRead
  <2>3. CASE RestartUnswept \/ UNCHANGED vars
    <3>1. version' = version /\ pc' = pc /\ wpc' = wpc
      BY <2>3 DEF RestartUnswept, vars, rowVars, reqVars, jobVars
    <3> QED
      BY <1>1, <3>1 DEF SwapInv, LockedRead, Writing, Swaps, SeenBy
  <2> QED
    BY <2>1, <2>2, <2>3
<1> QED
  BY <1>3, <1>4, <1>5

(* Whoever holds a row and compares and swaps has read its current version *)
(* (update_cas), and what has committed is over and has read a past one.   *)
THEOREM SwapInvariant == Spec => [](LockInv /\ SwapInv)
<1>1. Init => SwapInv
  BY LifecycleAssumption
     DEF Init, SwapInv, AppliedDone, LockedRead, VersionsSeen, EachVersionConsumedOnce, Writing
<1>2. LockInv /\ SwapInv /\ [Next]_vars => SwapInv'
  <2> SUFFICES ASSUME LockInv, SwapInv, [Next]_vars
               PROVE  LockedRead' /\ VersionsSeen' /\ EachVersionConsumedOnce'
    BY NextAppliedDone DEF SwapInv
  <2>1. ASSUME NEW r \in Requests, Load(r) \/ Answers(r) \/ Commit(r) \/ CommitLost(r)
        PROVE  LockedRead' /\ VersionsSeen' /\ EachVersionConsumedOnce'
    BY <2>1, RequestSwap
  <2>2. ASSUME NEW t \in Tasks, Start(t) \/ Job(t)
        PROVE  LockedRead' /\ VersionsSeen' /\ EachVersionConsumedOnce'
    BY <2>2, JobSwap
  <2> QED
    BY <2>1, <2>2, ServerSwap DEF Next, Answers
<1> QED
  BY <1>1, <1>2, LockInvariant, PTL DEF Spec

(* The optimistic lock, for any number of calls and jobs: no two committed *)
(* compare-and-swap writers of an invoice have read the same version.      *)
THEOREM OptimisticLockCorrect == Spec => []EachVersionConsumedOnce
<1>1. LockInv /\ SwapInv => EachVersionConsumedOnce
  BY DEF SwapInv
<1> QED
  BY <1>1, SwapInvariant, PTL

-----------------------------------------------------------------------------
(* Verdicts.  The argument follows one task: at every stage of its job,    *)
(* the state of its row and whether its analysis is committed are known.   *)

(* What the row of a task shows, and what is committed, at each stage of   *)
(* its job.  Only a lost write sends a committed job to its failure path.  *)
Stage(t) ==
  /\ wpc[t] = "queued" => task[t] = "PENDING"
  /\ wpc[t] \in {"running", "loaded", "analysing", "committed"} => task[t] = "RUNNING"
  /\ wpc[t] = "failing" => task[t] \in {"PENDING", "RUNNING"}
  /\ wpc[t] = "committed" => t \in applied
  /\ wpc[t] = "failing" /\ dbFaults = 0 => t \notin applied

(* VerdictIsTruthful and RunningHasJob for one task.                       *)
Truthful(t) ==
  /\ task[t] = "SUCCEEDED" => t \in applied
  /\ task[t] = "FAILED" /\ crashes + dbFaults = 0 => t \notin applied

Accounted(t) == up /\ dbFaults = 0 /\ task[t] = "RUNNING" => t \in Busy

StopCounted == ~up => crashes # 0

VerdictInv ==
  StopCounted /\ \A t \in Tasks : Stage(t) /\ Truthful(t) /\ Accounted(t)

-----------------------------------------------------------------------------
(* What a step does to a task.                                             *)

(* The two counts of faults only grow.                                     *)
LEMMA FaultCount ==
  ASSUME NEW c \in Nat, NEW d \in Nat, NEW e \in {d, d + 1}
  PROVE  /\ e = 0 => d = 0
         /\ e = d + 1 => e # 0 /\ c + e # 0
         /\ c + e = 0 => c + d = 0 /\ d = 0
  OBVIOUS

(* A request leaves every task alone, but for the one it creates.          *)
LEMMA RequestTasks ==
  ASSUME LockInv, SwapInv, NEW r \in Requests,
         Load(r) \/ Answers(r) \/ Commit(r) \/ CommitLost(r)
  PROVE  /\ up' = up /\ crashes' = crashes /\ dbFaults' \in {dbFaults, dbFaults + 1}
         /\ \A t \in Tasks : t \in applied' <=> t \in applied
         /\ \A t \in Tasks :
              \/ task'[t] = task[t] /\ wpc'[t] = wpc[t]
              \/ /\ task[t] = "none" /\ task'[t] = "PENDING" /\ wpc'[t] = "queued"
                 /\ t \notin applied
<1> USE DEF LockInv, TypeInv, TypeOK
<1>1. up' = up /\ crashes' = crashes /\ dbFaults' \in {dbFaults, dbFaults + 1}
  BY DEF Load, Answers, Handle, HandleStatus, HandleDecision, HandleCorrection, HandleAlreadyBilled, HandleVendorBill,
         HandlerRaises, HandleProcess, HandleRetry, Commit, CommitLost, faultVars
<1>2. \A t \in Tasks : t \in applied' <=> t \in applied
  <2>1. applied' = applied \/ applied' = applied \cup {r}
    BY DEF Load, Answers, Handle, HandleStatus, HandleDecision, HandleCorrection, HandleAlreadyBilled, HandleVendorBill,
           HandlerRaises, HandleProcess, HandleRetry, Commit, CommitLost
  <2> QED
    BY <2>1, LifecycleAssumption
<1>3. CASE HandleProcess(r) \/ HandleRetry(r)
  <2>1. PICK u \in Tasks :
          /\ task[u] = "none" /\ task' = [task EXCEPT ![u] = "PENDING"]
          /\ wpc' = [wpc EXCEPT ![u] = "queued"]
    BY <1>3 DEF HandleProcess, HandleRetry, Submit
  <2>2. u \notin applied
    BY <2>1 DEF SwapInv, AppliedDone
  <2>3. \A t \in Tasks : \/ task'[t] = task[t] /\ wpc'[t] = wpc[t]
                         \/ t = u /\ task'[t] = "PENDING" /\ wpc'[t] = "queued"
    BY <2>1 DEF JobTypes
  <2> QED
    BY <1>1, <1>2, <2>1, <2>2, <2>3
<1>4. CASE ~(HandleProcess(r) \/ HandleRetry(r))
  <2>1. task' = task /\ wpc' = wpc
    BY <1>4 DEF Load, Answers, Handle, HandleStatus, HandleDecision, HandleCorrection, HandleAlreadyBilled,
         HandleVendorBill, HandlerRaises, Commit, CommitLost, taskVars, jobVars
  <2> QED
    BY <1>1, <1>2, <2>1
<1> QED
  BY <1>3, <1>4

(* A job touches its own task only, along these edges.                     *)
LEMMA JobTasks ==
  ASSUME LockInv, SwapInv, NEW u \in Tasks, Stage(u), Start(u) \/ Job(u)
  PROVE  /\ up' = up /\ up /\ crashes' = crashes /\ dbFaults' \in {dbFaults, dbFaults + 1}
         /\ \A t \in Tasks \ {u} :
              task'[t] = task[t] /\ wpc'[t] = wpc[t] /\ (t \in applied' <=> t \in applied)
         /\ \/ /\ wpc[u] = "queued" /\ u \notin applied'
               /\ \/ wpc'[u] = "running" /\ task'[u] = "RUNNING"
                  \/ wpc'[u] = "failing" /\ task'[u] = task[u] /\ dbFaults' = dbFaults + 1
            \/ /\ wpc[u] \in {"running", "loaded", "analysing"} /\ task'[u] = task[u]
               /\ \/ wpc'[u] \in {"loaded", "analysing", "failing"} /\ u \notin applied'
                  \/ wpc'[u] = "committed" /\ u \in applied'
            \/ /\ wpc[u] = "committed" /\ u \in applied'
               /\ \/ wpc'[u] = "off" /\ task'[u] = "SUCCEEDED"
                  \/ wpc'[u] = "failing" /\ task'[u] = task[u] /\ dbFaults' = dbFaults + 1
            \/ /\ wpc[u] = "failing" /\ wpc'[u] = "off" /\ (u \in applied' <=> u \in applied)
               /\ \/ task'[u] = "FAILED"
                  \/ task'[u] = task[u] /\ dbFaults' = dbFaults + 1
<1> USE DEF LockInv, TypeInv, TypeOK
<1>1. up' = up /\ crashes' = crashes /\ dbFaults' \in {dbFaults, dbFaults + 1}
  BY DEF Start, Job, JobLoad, JobLock, JobCommit, JobRollback, JobSucceed, JobFail, faultVars
<1>2. \A t \in Tasks \ {u} : task'[t] = task[t] /\ wpc'[t] = wpc[t]
  BY DEF Start, Job, JobLoad, JobLock, JobCommit, JobRollback, JobSucceed, JobFail, Goto, taskVars, JobTypes
<1>3. applied' = applied \/ applied' = applied \cup {u}
  BY DEF Start, Job, JobLoad, JobLock, JobCommit, JobRollback, JobSucceed, JobFail
<1>4. up
  BY DEF Down, Start, Job, JobLoad, JobLock, JobCommit, JobRollback, JobSucceed, JobFail, QueueInv, JobTypes
<1>5. wpc[u] \in {"queued", "running", "loaded", "analysing"} => u \notin applied
  BY DEF SwapInv, AppliedDone
<1>6. CASE Start(u)
  <2>1. wpc[u] = "queued" /\ applied' = applied
    BY <1>6 DEF Start, QueueInv, JobTypes
  <2>2. task[u] = "PENDING"
    BY <2>1 DEF Stage
  <2>3. \/ wpc'[u] = "running" /\ task'[u] = "RUNNING"
        \/ wpc'[u] = "failing" /\ task'[u] = task[u] /\ dbFaults' = dbFaults + 1
    BY <1>6, <2>2 DEF Start, Goto, JobTypes
  <2> QED
    BY <1>1, <1>2, <1>3, <1>4, <1>5, <2>1, <2>3
<1>7. CASE JobLoad(u) \/ JobLock(u) \/ JobRollback(u)
  <2>1. /\ wpc[u] \in {"running", "loaded", "analysing"} /\ task' = task /\ applied' = applied
        /\ wpc'[u] \in {"loaded", "analysing", "failing"}
    BY <1>7 DEF JobLoad, JobLock, JobRollback, Goto, JobTypes, taskVars
  <2> QED
    BY <1>1, <1>2, <1>3, <1>4, <1>5, <2>1
<1>8. CASE JobCommit(u)
  <2>1. wpc[u] = "analysing" /\ task' = task /\ applied' = applied \cup {u} /\ wpc'[u] = "committed"
    BY <1>8 DEF JobCommit, Goto, JobTypes, taskVars
  <2> QED
    BY <1>1, <1>2, <1>3, <1>4, <2>1
<1>9. CASE JobSucceed(u) \/ JobFail(u)
  <2>1. applied' = applied
    BY <1>9 DEF JobSucceed, JobFail
  <2>2. \/ /\ wpc[u] = "committed"
           /\ \/ wpc'[u] = "off" /\ task'[u] = "SUCCEEDED"
              \/ wpc'[u] = "failing" /\ task'[u] = task[u] /\ dbFaults' = dbFaults + 1
        \/ /\ wpc[u] = "failing" /\ wpc'[u] = "off"
           /\ \/ task'[u] = "FAILED"
              \/ task'[u] = task[u] /\ dbFaults' = dbFaults + 1
    BY <1>9 DEF JobSucceed, JobFail, Goto, JobTypes
  <2>3. wpc[u] = "committed" => u \in applied
    BY DEF Stage
  <2> QED
    BY <1>1, <1>2, <1>4, <2>1, <2>2, <2>3
<1> QED
  BY <1>6, <1>7, <1>8, <1>9 DEF Job

LEMMA NextVerdictInv == LockInv /\ SwapInv /\ VerdictInv /\ [Next]_vars => VerdictInv'
<1> SUFFICES ASSUME LockInv, SwapInv, VerdictInv, [Next]_vars PROVE VerdictInv'
  OBVIOUS
<1> USE DEF VerdictInv
<1>1. dbFaults \in Nat /\ crashes \in Nat
  BY DEF LockInv, TypeInv, TypeOK, LogTypes
<1>2. ASSUME NEW r \in Requests, Load(r) \/ Answers(r) \/ Commit(r) \/ CommitLost(r)
      PROVE  VerdictInv'
  <2>1. /\ up' = up /\ crashes' = crashes /\ dbFaults' \in {dbFaults, dbFaults + 1}
        /\ \A t \in Tasks : t \in applied' <=> t \in applied
        /\ \A t \in Tasks :
             \/ task'[t] = task[t] /\ wpc'[t] = wpc[t]
             \/ /\ task[t] = "none" /\ task'[t] = "PENDING" /\ wpc'[t] = "queued"
                /\ t \notin applied
    BY <1>2, RequestTasks
  <2>2. dbFaults' = 0 => dbFaults = 0
    BY <1>1, <2>1, FaultCount
  <2>3. crashes' + dbFaults' = 0 => crashes + dbFaults = 0
    BY <1>1, <2>1, FaultCount
  <2> QED
    BY <2>1, <2>2, <2>3 DEF StopCounted, Stage, Truthful, Accounted, Busy
<1>3. ASSUME NEW u \in Tasks, Start(u) \/ Job(u) PROVE VerdictInv'
  <2>1. /\ up' = up /\ up /\ crashes' = crashes /\ dbFaults' \in {dbFaults, dbFaults + 1}
        /\ \A t \in Tasks \ {u} :
             task'[t] = task[t] /\ wpc'[t] = wpc[t] /\ (t \in applied' <=> t \in applied)
    BY <1>3, JobTasks
  <2>2. (dbFaults' = 0 => dbFaults = 0) /\ (dbFaults' = dbFaults + 1 => dbFaults' # 0)
    BY <1>1, <2>1
  <2>3. /\ crashes' + dbFaults' = 0 => crashes + dbFaults = 0 /\ dbFaults = 0
        /\ dbFaults' = dbFaults + 1 => crashes' + dbFaults' # 0
    BY <1>1, <2>1, FaultCount
  <2>4. \A t \in Tasks \ {u} : Stage(t)' /\ Truthful(t)' /\ Accounted(t)'
    BY <2>1, <2>2, <2>3 DEF Stage, Truthful, Accounted, Busy
  <2>5. Stage(u) /\ Truthful(u) /\ Accounted(u)
    OBVIOUS
  <2>6. Stage(u)' /\ Truthful(u)' /\ Accounted(u)'
    BY <1>3, <2>2, <2>3, <2>5, JobTasks DEF Stage, Truthful, Accounted, Busy
  <2> QED
    BY <2>1, <2>4, <2>6 DEF StopCounted
<1>4. CASE Crash
  <2>1. /\ up' = FALSE /\ crashes' = crashes + 1 /\ task' = task /\ applied' = applied
        /\ dbFaults' = dbFaults /\ \A t \in Tasks : wpc'[t] = "off"
    BY <1>4 DEF Crash, taskVars
  <2>2. crashes' # 0 /\ crashes' + dbFaults' # 0
    BY <1>1, <2>1
  <2> QED
    BY <2>1, <2>2 DEF StopCounted, Stage, Truthful, Accounted
<1>5. CASE Restart
  <2>1. /\ ~up /\ crashes' = crashes /\ applied' = applied /\ dbFaults' = dbFaults /\ wpc' = wpc
        /\ up' = TRUE
        /\ \A t \in Tasks : task'[t] = IF task[t] = "RUNNING" THEN "FAILED" ELSE task[t]
    BY <1>5 DEF Restart, Orphans, jobVars, faultVars
  <2>2. crashes' + dbFaults' # 0
    BY <1>1, <2>1 DEF StopCounted
  <2>3. \A t \in Tasks : wpc[t] = "off"
    BY <2>1 DEF LockInv, Down
  <2> QED
    BY <2>1, <2>2, <2>3 DEF StopCounted, Stage, Truthful, Accounted
<1>6. CASE RestartUnswept
  <2>1. /\ ~up /\ crashes' = crashes /\ applied' = applied /\ dbFaults' = dbFaults + 1
        /\ wpc' = wpc /\ task' = task /\ up' = TRUE
    BY <1>6 DEF RestartUnswept, jobVars, taskVars
  <2>2. dbFaults' # 0 /\ crashes' + dbFaults' # 0
    BY <1>1, <2>1
  <2> QED
    BY <2>1, <2>2 DEF StopCounted, Stage, Truthful, Accounted
<1>7. CASE UNCHANGED vars
  <2>1. /\ crashes' = crashes /\ applied' = applied /\ dbFaults' = dbFaults
        /\ wpc' = wpc /\ task' = task /\ up' = up
    BY <1>7 DEF vars, jobVars, taskVars, faultVars
  <2> QED
    BY <2>1 DEF StopCounted, Stage, Truthful, Accounted, Busy
<1> QED
  BY <1>2, <1>3, <1>4, <1>5, <1>6, <1>7 DEF Next, Answers

(* At each stage of a job of the pool, the state of its task's row and     *)
(* whether its analysis is committed (TaskManager.submit).                 *)
THEOREM VerdictInvariant == Spec => [](LockInv /\ SwapInv /\ VerdictInv)
<1>1. Init => VerdictInv
  BY DEF Init, VerdictInv, StopCounted, Stage, Truthful, Accounted
<1>2. LockInv /\ SwapInv /\ VerdictInv /\ [Next]_vars => VerdictInv'
  BY NextVerdictInv
<1> QED
  BY <1>1, <1>2, SwapInvariant, PTL DEF Spec

-----------------------------------------------------------------------------
(* "réussi" is shown only for a committed analysis and "échoué" only when  *)
(* nothing of it was committed, unless a stop or a lost write fell between *)
(* the commit of the analysis and the write of the verdict: for any number *)
(* of jobs, threads, requests, stops and lost transactions.                *)
THEOREM VerdictsAreTruthful == Spec => []VerdictIsTruthful
<1>1. VerdictInv => VerdictIsTruthful
  BY DEF VerdictInv, VerdictIsTruthful, Truthful
<1> QED
  BY <1>1, VerdictInvariant, PTL

(* While no write of a task row is lost, a task "en cours" of a running    *)
(* server occupies a thread of its pool: the sweep of the last start-up    *)
(* has left no orphan behind.                                              *)
THEOREM RunningTasksHaveJobs == Spec => []RunningHasJob
<1>1. VerdictInv => RunningHasJob
  BY DEF VerdictInv, RunningHasJob, Accounted
<1> QED
  BY <1>1, VerdictInvariant, PTL

(* No step rewrites the state of a task that succeeded or failed: its job  *)
(* is over, and the sweep only takes the tasks "en cours".                 *)
THEOREM VerdictsAreFinal == Spec => VerdictIsFinal
<1>1. ASSUME LockInv, SwapInv, VerdictInv, [Next]_vars,
             NEW t \in Tasks, task[t] \in {"SUCCEEDED", "FAILED"}
      PROVE  task'[t] = task[t]
  <2>1. \A u \in Tasks : Stage(u)
    BY <1>1 DEF VerdictInv
  <2>2. wpc[t] = "off"
    BY <1>1, <2>1 DEF Stage, LockInv, TypeInv, TypeOK, JobTypes
  <2>3. ASSUME NEW r \in Requests, Load(r) \/ Answers(r) \/ Commit(r) \/ CommitLost(r)
        PROVE  task'[t] = task[t]
    BY <1>1, <2>3, RequestTasks
  <2>4. ASSUME NEW u \in Tasks, Start(u) \/ Job(u) PROVE task'[t] = task[t]
    <3>1. u # t
      BY <1>1, <2>1, <2>2, <2>4, JobTasks
    <3> QED
      BY <1>1, <2>1, <2>4, <3>1, JobTasks
  <2>5. CASE Crash \/ Restart \/ RestartUnswept
    BY <1>1, <2>5 DEF Crash, Restart, RestartUnswept, Orphans, taskVars
  <2>6. CASE UNCHANGED vars
    BY <2>6 DEF vars, taskVars
  <2> QED
    BY <1>1, <2>3, <2>4, <2>5, <2>6 DEF Next, Answers
<1>2. LockInv /\ SwapInv /\ VerdictInv /\ [Next]_vars
        => [\A t \in Tasks : task[t] \in {"SUCCEEDED", "FAILED"} => task'[t] = task[t]]_vars
  BY <1>1
<1> QED
  BY <1>2, VerdictInvariant, PTL DEF Spec, VerdictIsFinal

-----------------------------------------------------------------------------
(* What a step does to calls, jobs and rows.                               *)

(* A call whose handler has read its invoice and has not ended.            *)
Open(r) == pc[r] \in {"loaded", "flushed"}

(* A call in progress asks for a status its endpoint may give.             *)
CallShape ==
  \A r \in Requests : Open(r) =>
    call[r].op \in Ops /\ (call[r].to \in Status => call[r].to \in Targets(call[r].op))

LEMMA CallsShape ==
  \A c \in Calls : c.op \in Ops /\ c.inv \in Invoices /\ c.to \in Targets(c.op)
  BY DEF Calls

(* A call opens on what it has just read and accepted.                     *)
LEMMA LoadOpens ==
  ASSUME TypeInv, NEW r \in Requests, Load(r), Open(r)'
  PROVE  /\ call'[r] \in Calls /\ snap'[r] = Read(call'[r].inv)
         /\ Accepts(call'[r].op, call'[r].to, Read(call'[r].inv))
<1>1. PICK c \in Calls :
        IF Accepts(c.op, c.to, Read(c.inv))
        THEN /\ pc'   = [pc EXCEPT ![r] = "loaded"]
             /\ call' = [call EXCEPT ![r] = c]
             /\ snap' = [snap EXCEPT ![r] = Read(c.inv)]
        ELSE pc' = [pc EXCEPT ![r] = "done"]
  BY DEF Load
<1>2. Accepts(c.op, c.to, Read(c.inv))
  BY <1>1 DEF TypeInv, TypeOK, RequestTypes, Open
<1>3. call'[r] = c
  BY <1>1, <1>2 DEF TypeInv, TypeOK, RequestTypes
<1>4. snap'[r] = Read(c.inv)
  BY <1>1, <1>2 DEF TypeInv, TypeOK, RequestTypes
<1> QED
  BY <1>1, <1>2, <1>3, <1>4

(* Its handler may only narrow what it writes.                             *)
LEMMA HandleKeeps ==
  ASSUME TypeInv, NEW r \in Requests, Answers(r)
  PROVE  /\ Open(r) /\ snap'[r] = snap[r]
         /\ call'[r].op = call[r].op /\ call'[r].inv = call[r].inv
         /\ call[r].op = "status" => call'[r].to = call[r].to
         /\ \/ call'[r].to \in {call[r].to, Keep, Lines}
            \/ call'[r].to = "VENDOR_BILL_CREATED" /\ call[r].op = "vendor_bill"
<1> USE DEF TypeInv, TypeOK, RequestTypes
<1>1. Open(r) /\ snap' = snap
  BY DEF Answers, Handle, HandleStatus, HandleDecision, HandleCorrection, HandleAlreadyBilled, HandleVendorBill,
         HandlerRaises, HandleProcess, HandleRetry, Open
<1>2. CASE call' = call
  BY <1>1, <1>2
<1>3. CASE HandleCorrection(r) \/ HandleAlreadyBilled(r) \/ HandleVendorBill(r)
  <2>1. \/ call' = call
        \/ call' = [call EXCEPT ![r].to = Keep] \/ call' = [call EXCEPT ![r].to = Lines]
        \/ call' = [call EXCEPT ![r].to = "VENDOR_BILL_CREATED"] /\ call[r].op = "vendor_bill"
    BY <1>3 DEF HandleCorrection, HandleAlreadyBilled, HandleVendorBill
  <2>2. call[r].op # "status"
    BY <1>3 DEF HandleCorrection, HandleAlreadyBilled, HandleVendorBill
  <2> QED
    BY <1>1, <1>2, <2>1, <2>2
<1> QED
  BY <1>2, <1>3 DEF Answers, Handle, HandleStatus, HandleDecision, HandlerRaises, HandleProcess, HandleRetry

LEMMA CommitCloses ==
  ASSUME TypeInv, NEW r \in Requests, Commit(r) \/ CommitLost(r) PROVE ~Open(r)'
  BY DEF TypeInv, TypeOK, RequestTypes, Commit, CommitLost, Open

(* A call in progress after any step was just opened, or was in progress.  *)
LEMMA OpenCalls ==
  ASSUME LockInv, [Next]_vars, NEW r \in Requests, Open(r)'
  PROVE  \/ /\ call'[r] \in Calls /\ snap'[r] = Read(call'[r].inv)
            /\ Accepts(call'[r].op, call'[r].to, Read(call'[r].inv))
            /\ UNCHANGED <<rowVars, audit>>
         \/ /\ Open(r) /\ snap'[r] = snap[r] /\ call[r].inv \in Invoices
            /\ call'[r].op = call[r].op /\ call'[r].inv = call[r].inv
            /\ call[r].op = "status" => call'[r].to = call[r].to
            /\ \/ call'[r].to \in {call[r].to, Keep, Lines}
               \/ call'[r].to = "VENDOR_BILL_CREATED" /\ call[r].op = "vendor_bill"
<1> USE DEF LockInv
<1>1. Open(r) => call[r].inv \in Invoices
  BY DEF TypeInv, References, Open
<1>2. ASSUME NEW q \in Requests, q # r, Load(q) \/ Answers(q) \/ Commit(q) \/ CommitLost(q)
      PROVE  Open(r) /\ snap'[r] = snap[r] /\ call'[r] = call[r]
  BY <1>2, RequestLockFrame DEF Open
<1>3. ASSUME NEW t \in Tasks, Start(t) \/ Job(t)
      PROVE  Open(r) /\ snap'[r] = snap[r] /\ call'[r] = call[r]
  BY <1>3 DEF Start, Job, JobLoad, JobLock, JobCommit, JobRollback, JobSucceed, JobFail, reqVars, Open
<1>4. CASE Crash
  BY <1>4 DEF Crash, Open
<1>5. CASE Restart \/ RestartUnswept \/ UNCHANGED vars
  BY <1>1, <1>5 DEF Restart, RestartUnswept, vars, reqVars, Open
<1>6. CASE Load(r)
  BY <1>6, LoadOpens DEF Load
<1>7. CASE Answers(r)
  BY <1>1, <1>7, HandleKeeps
<1> QED
  BY <1>1, <1>2, <1>3, <1>4, <1>5, <1>6, <1>7, CommitCloses DEF Next, Answers

LEMMA NextCallShape == LockInv /\ CallShape /\ [Next]_vars => CallShape'
<1> SUFFICES ASSUME LockInv, CallShape, [Next]_vars, NEW r \in Requests, Open(r)'
             PROVE  /\ call'[r].op \in Ops
                    /\ call'[r].to \in Status => call'[r].to \in Targets(call'[r].op)
  BY DEF CallShape
<1>1. CASE call'[r] \in Calls
  BY <1>1, CallsShape
<1>2. CASE /\ Open(r) /\ call'[r].op = call[r].op
           /\ \/ call'[r].to \in {call[r].to, Keep, Lines}
              \/ call'[r].to = "VENDOR_BILL_CREATED" /\ call[r].op = "vendor_bill"
  BY <1>2 DEF CallShape, Targets, Status, Keep, Lines
<1> QED
  BY <1>1, <1>2, OpenCalls

(* A job between its read and its commit.                                  *)
Reading(t) == wpc[t] \in {"loaded", "analysing"}

(* After any step it was just reading the row, or keeps what it has read.  *)
LEMMA ReadingJobs ==
  ASSUME LockInv, SwapInv, VerdictInv, [Next]_vars, NEW t \in Tasks, Reading(t)'
  PROVE  /\ taskInv[t] \in Invoices /\ taskInv'[t] = taskInv[t]
         /\ \/ /\ wsnap'[t] = Read(taskInv[t]) /\ status[taskInv[t]] \in Analysable
               /\ UNCHANGED rowVars
            \/ Reading(t) /\ wsnap'[t] = wsnap[t]
<1> USE DEF LockInv, TypeInv, TypeOK
<1>1. wpc[t] # "off" => taskInv[t] \in Invoices
  BY DEF References
<1>2. ASSUME NEW r \in Requests, Load(r) \/ Answers(r) \/ Commit(r) \/ CommitLost(r)
      PROVE  wpc[t] # "off" /\ taskInv'[t] = taskInv[t] /\ Reading(t) /\ wsnap'[t] = wsnap[t]
  <2>1. CASE HandleProcess(r) \/ HandleRetry(r)
    <3>1. PICK u \in Tasks :
            /\ task[u] = "none" /\ taskInv' = [taskInv EXCEPT ![u] = call[r].inv]
            /\ wpc' = [wpc EXCEPT ![u] = "queued"] /\ wsnap' = wsnap
      BY <2>1 DEF HandleProcess, HandleRetry, Submit
    <3>2. u # t
      BY <3>1 DEF Reading, JobTypes
    <3> QED
      BY <3>1, <3>2 DEF Reading, JobTypes
  <2>2. CASE ~(HandleProcess(r) \/ HandleRetry(r))
    BY <1>2, <2>2 DEF Load, Answers, Handle, HandleStatus, HandleDecision, HandleCorrection, HandleAlreadyBilled,
       HandleVendorBill, HandlerRaises, Commit, CommitLost, taskVars, jobVars, Reading
  <2> QED
    BY <2>1, <2>2
<1>3. ASSUME NEW u \in Tasks, u # t, Start(u) \/ Job(u)
      PROVE  wpc[t] # "off" /\ taskInv'[t] = taskInv[t] /\ Reading(t) /\ wsnap'[t] = wsnap[t]
  <2>1. wpc'[t] = wpc[t] /\ taskInv' = taskInv /\ wsnap'[t] = wsnap[t]
    BY <1>3 DEF Start, Job, JobLoad, JobLock, JobCommit, JobRollback, JobSucceed, JobFail, Goto,
                taskVars, JobTypes
  <2> QED
    BY <2>1 DEF Reading
<1>4. CASE JobLoad(t)
  <2>1. /\ wpc[t] = "running" /\ taskInv' = taskInv /\ UNCHANGED rowVars
        /\ wsnap'[t] = Read(taskInv[t])
        /\ wpc'[t] = IF status[taskInv[t]] \in Analysable THEN "loaded" ELSE "failing"
    BY <1>4 DEF JobLoad, Goto, taskVars, JobTypes
  <2> QED
    BY <1>1, <2>1 DEF Reading
<1>5. CASE JobLock(t)
  <2>1. wpc[t] = "loaded" /\ taskInv' = taskInv /\ wsnap' = wsnap
    BY <1>5 DEF JobLock, taskVars
  <2> QED
    BY <1>1, <2>1 DEF Reading
<1>6. ~(Start(t) \/ JobCommit(t) \/ JobRollback(t) \/ JobSucceed(t) \/ JobFail(t))
  <2>1. Start(t) \/ JobCommit(t) \/ JobRollback(t) \/ JobSucceed(t) \/ JobFail(t) => ~Reading(t)'
    BY DEF Start, JobCommit, JobRollback, JobSucceed, JobFail, Goto, Reading, JobTypes
  <2> QED
    BY <2>1
<1>7. CASE Crash
  BY <1>7 DEF Crash, Reading
<1>8. CASE Restart \/ RestartUnswept \/ UNCHANGED vars
  BY <1>1, <1>8 DEF Restart, RestartUnswept, vars, taskVars, jobVars, Reading
<1>9. CASE \E r \in Requests : Load(r) \/ Answers(r) \/ Commit(r) \/ CommitLost(r)
  BY <1>1, <1>2, <1>9
<1>10. CASE \E u \in Tasks : Start(u) \/ Job(u)
  BY <1>1, <1>3, <1>4, <1>5, <1>6, <1>10 DEF Job
<1> QED
  BY <1>7, <1>8, <1>9, <1>10 DEF Next, Answers

(* Only a commit, of a call or of a job, and the sweep write the rows.     *)
LEMMA RowWriters ==
  ASSUME [Next]_vars,
         \A r \in Requests : ~Commit(r), \A t \in Tasks : ~JobCommit(t), ~Restart
  PROVE  UNCHANGED <<rowVars, audit, applied>>
<1>1. ASSUME NEW r \in Requests, Load(r) \/ Answers(r) \/ CommitLost(r)
      PROVE  UNCHANGED <<rowVars, audit, applied>>
  BY <1>1 DEF Load, Answers, Handle, HandleStatus, HandleDecision, HandleCorrection, HandleAlreadyBilled,
       HandleVendorBill, HandlerRaises, HandleProcess, HandleRetry, CommitLost
<1>2. ASSUME NEW t \in Tasks, Start(t) \/ Job(t)
      PROVE  UNCHANGED <<rowVars, audit, applied>>
  BY <1>2 DEF Start, Job, JobLoad, JobLock, JobRollback, JobSucceed, JobFail
<1>3. CASE Crash \/ RestartUnswept \/ UNCHANGED vars
  BY <1>3 DEF Crash, RestartUnswept, vars
<1> QED
  BY <1>1, <1>2, <1>3 DEF Next, Answers

-----------------------------------------------------------------------------
(* Reviews and decisions, through the endpoints of the web interface.  No  *)
(* write of theirs but an analysis moves the version, so what keeps a late *)
(* job off a reviewed invoice is that a review always follows the analysis *)
(* that moved the version past it.                                         *)

Decisions == {"validate", "reject", "correct", "vendor_bill"}

(* A decision in progress is about an invoice under or past its review.    *)
DecisionsReviewed ==
  \A r \in Requests : Open(r) /\ call[r].op \in Decisions =>
    /\ status[call[r].inv] \in Reviewed
    /\ call[r].op = "vendor_bill" => Audited(call[r].inv, "VALIDATED")

(* While the version a job has read is current, its invoice is still one   *)
(* the job may analyse.                                                    *)
ReadsAnalysable ==
  \A t \in Tasks : Reading(t) =>
    /\ wsnap[t].version <= version[taskInv[t]]
    /\ wsnap[t].version = version[taskInv[t]] => status[taskInv[t]] \in Analysable

(* Bills and corrections exist under or past a review only.                *)
WorkReviewed ==
  \A i \in Invoices : billed[i] \/ content[i] = "manual" => status[i] \in Reviewed

(* A job is ANALYZING in its own transaction only.                         *)
NoneAnalyzing == \A i \in Invoices : status[i] # "ANALYZING"

ReviewInv ==
  /\ CallShape /\ DecisionsReviewed /\ ReadsAnalysable
  /\ NoneAnalyzing /\ WorkReviewed /\ DecisionIsAudited

ReviewCtx == LockInv /\ SwapInv /\ VerdictInv /\ ReviewInv

(* What a step may do to the row of an invoice: nothing; a decision, on a  *)
(* reviewed invoice; or an analysis, on one that is not.                   *)
RowKept(i) ==
  status'[i] = status[i] /\ version'[i] = version[i] /\ billed'[i] = billed[i] /\ content'[i] = content[i]

RowDecided(i) ==
  status[i] \in Reviewed /\ status'[i] \in Reviewed /\ version'[i] = version[i]

RowAnalysed(i) ==
  /\ status[i] \in Analysable /\ status'[i] \in {"TO_REVIEW", "SYSTEM_ERROR"}
  /\ version'[i] > version[i]
  /\ billed'[i] = billed[i] /\ content'[i] \in {content[i], "ocr"}

LEMMA CommitRow ==
  ASSUME Ops \subseteq UiOps, ReviewCtx, NEW r \in Requests, Commit(r), NEW i \in Invoices
  PROVE  RowKept(i) \/ RowDecided(i)
<1> USE DEF ReviewCtx, LockInv, TypeInv, TypeOK, RowTypes
<1>1. Open(r) /\ call[r].inv \in Invoices /\ call[r].op # "status"
  BY DEF Commit, Open, References, ReviewInv, CallShape, UiOps
<1>2. CASE i # call[r].inv
  BY <1>1, <1>2 DEF Commit, RowKept
<1>3. CASE i = call[r].inv /\ call[r].op \in Decisions
  <2>1. status[i] \in Reviewed
    BY <1>1, <1>3 DEF ReviewInv, DecisionsReviewed
  <2>2. version' = version
    BY <1>1 DEF Commit
  <2>3. call[r].to \in Status => call[r].to \in Reviewed
    <3>1. call[r].to \in Status => call[r].to \in Targets(call[r].op)
      BY <1>1 DEF ReviewInv, CallShape
    <3> QED
      BY <1>3, <3>1 DEF Targets, Decisions, Reviewed, Status, Keep
  <2>4. status'[i] \in {status[i], call[r].to} /\ (status'[i] # status[i] => call[r].to \in Status)
    BY <1>1, <1>3 DEF Commit
  <2> QED
    BY <2>1, <2>2, <2>3, <2>4 DEF RowDecided
<1>4. CASE call[r].op \notin Decisions
  <2>1. call[r].op \in {"process", "retry"}
    BY <1>1, <1>4 DEF ReviewInv, CallShape, UiOps, AllOps, Decisions
  <2>2. call[r].to \notin Status
    BY <1>1, <2>1 DEF ReviewInv, CallShape, Targets, Status, Keep
  <2> QED
    BY <2>1, <2>2 DEF Commit, RowKept
<1> QED
  BY <1>2, <1>3, <1>4

(* The job that commits still has the current version, hence (see          *)
(* ReadsAnalysable) an invoice that waits for its analysis.                *)
LEMMA JobCommitRow ==
  ASSUME ReviewCtx, NEW t \in Tasks, JobCommit(t), NEW i \in Invoices
  PROVE  RowKept(i) \/ RowAnalysed(i)
<1> USE DEF ReviewCtx, LockInv, TypeInv, TypeOK, RowTypes
<1>1. wpc[t] = "analysing" /\ taskInv[t] \in Invoices
  BY DEF JobCommit, References
<1>2. wsnap[t].version = version[taskInv[t]]
  BY <1>1, LifecycleAssumption DEF SwapInv, LockedRead, Writing, Swaps, SeenBy
<1>3. status[taskInv[t]] \in Analysable
  BY <1>1, <1>2 DEF ReviewInv, ReadsAnalysable, Reading
<1>4. AnalysisEdges(wsnap[t].status) \in {2, 3}
  BY DEF AnalysisEdges
<1>5. CASE i # taskInv[t]
  BY <1>1, <1>5 DEF JobCommit, RowKept
<1>6. CASE i = taskInv[t]
  <2>1. /\ status'[i] \in {"TO_REVIEW", "SYSTEM_ERROR"} /\ content'[i] \in {content[i], "ocr"}
        /\ billed'[i] = billed[i]
    BY <1>1, <1>6 DEF JobCommit
  <2>2. version'[i] = version[i] + AnalysisEdges(wsnap[t].status)
    BY <1>1, <1>6 DEF JobCommit
  <2>3. version'[i] > version[i]
    BY <1>4, <2>2
  <2> QED
    BY <1>3, <1>6, <2>1, <2>3 DEF RowAnalysed
<1> QED
  BY <1>5, <1>6

LEMMA RowStep ==
  ASSUME Ops \subseteq UiOps, ReviewCtx, [Next]_vars, NEW i \in Invoices
  PROVE  RowKept(i) \/ RowDecided(i) \/ RowAnalysed(i)
<1>1. CASE Restart
  <2>1. Stuck = {}
    BY DEF Stuck, ReviewCtx, ReviewInv, NoneAnalyzing
  <2> QED
    BY <1>1, <2>1 DEF Restart, RowKept
<1>2. CASE UNCHANGED <<rowVars, audit, applied>>
  BY <1>2 DEF RowKept, rowVars
<1> QED
  BY <1>1, <1>2, CommitRow, JobCommitRow, RowWriters

-----------------------------------------------------------------------------
(* The audit log only grows, and a call that decides adds its own entry.   *)
LEMMA AuditGrows == [Next]_vars => audit \subseteq audit'
<1>1. ASSUME NEW r \in Requests, Commit(r) PROVE audit \subseteq audit'
  BY <1>1 DEF Commit
<1>2. ASSUME NEW t \in Tasks, JobCommit(t) PROVE audit \subseteq audit'
  BY <1>2 DEF JobCommit
<1>3. CASE Restart
  BY <1>3 DEF Restart
<1> QED
  BY <1>1, <1>2, <1>3, RowWriters

LEMMA DecisionsAudited ==
  ASSUME Ops \subseteq UiOps, ReviewCtx, [Next]_vars, NEW i \in Invoices
  PROVE  /\ status'[i] = "REJECTED" => Audited(i, "REJECTED")'
         /\ status'[i] = "VALIDATED" \/ billed'[i] => Audited(i, "VALIDATED")'
         /\ status'[i] = "VENDOR_BILL_CREATED" => billed'[i] /\ Audited(i, "VENDOR_BILL_CREATED")'
<1> DEFINE Goal == /\ status'[i] = "REJECTED" => Audited(i, "REJECTED")'
                   /\ status'[i] = "VALIDATED" \/ billed'[i] => Audited(i, "VALIDATED")'
                   /\ status'[i] = "VENDOR_BILL_CREATED" =>
                        billed'[i] /\ Audited(i, "VENDOR_BILL_CREATED")'
<1> USE DEF ReviewCtx
<1>1. \A a : Audited(i, a) => Audited(i, a)'
  BY AuditGrows DEF Audited
<1>2. /\ status[i] = "REJECTED" => Audited(i, "REJECTED")
      /\ status[i] = "VALIDATED" \/ billed[i] => Audited(i, "VALIDATED")
      /\ status[i] = "VENDOR_BILL_CREATED" => billed[i] /\ Audited(i, "VENDOR_BILL_CREATED")
  BY DEF ReviewInv, DecisionIsAudited
<1>3. CASE RowKept(i)
  BY <1>1, <1>2, <1>3 DEF RowKept
<1>4. CASE RowAnalysed(i)
  BY <1>1, <1>2, <1>4 DEF RowAnalysed
<1>5. ASSUME NEW r \in Requests, Commit(r), i = call[r].inv PROVE Goal
  <2>1. Open(r)
    BY <1>5 DEF Commit, Open
  <2>2. audit' = audit \cup [inv : {i}, act : Traces(call[r].op), by : {r}]
    BY <1>5 DEF Commit
  <2>3. \A a \in Traces(call[r].op) : Audited(i, a)'
    <3>1. SUFFICES ASSUME NEW a \in Traces(call[r].op) PROVE Audited(i, a)'
      OBVIOUS
    <3>2. [inv |-> i, act |-> a, by |-> r] \in audit'
      BY <2>2, <3>1
    <3> QED
      BY <3>2 DEF Audited
  <2>4. \/ status'[i] = status[i]
        \/ call[r].to \in Status /\ status'[i] = call[r].to
    BY <1>5 DEF Commit, LockInv, TypeInv, TypeOK, RowTypes
  <2>5. call[r].to \in Status => call[r].to \in Targets(call[r].op)
    BY <2>1 DEF ReviewInv, CallShape
  <2>6. billed'[i] = (call[r].op = "vendor_bill" \/ billed[i])
    BY <1>5 DEF Commit, LockInv, TypeInv, TypeOK, RowTypes
  <2>7. call[r].op = "vendor_bill" => Audited(i, "VALIDATED")
    BY <1>5, <2>1 DEF ReviewInv, DecisionsReviewed, Decisions
  <2>8. status'[i] = "REJECTED" => Audited(i, "REJECTED")'
    <3>1. CASE status'[i] = status[i]
      BY <1>1, <1>2, <3>1
    <3>2. CASE call[r].to \in Status /\ status'[i] = call[r].to /\ call[r].to = "REJECTED"
      <4>1. call[r].op = "reject"
        BY <2>1, <2>5, <3>2 DEF Targets, ReviewInv, CallShape, UiOps, Keep
      <4> QED
        BY <2>3, <4>1 DEF Traces
    <3> QED
      BY <2>4, <3>1, <3>2
  <2>9. status'[i] = "VALIDATED" \/ billed'[i] => Audited(i, "VALIDATED")'
    <3>1. billed'[i] => Audited(i, "VALIDATED")'
      BY <1>1, <1>2, <2>6, <2>7
    <3>2. CASE status'[i] = status[i]
      BY <1>1, <1>2, <3>1, <3>2
    <3>3. CASE call[r].to \in Status /\ status'[i] = call[r].to /\ call[r].to = "VALIDATED"
      <4>1. call[r].op = "validate"
        BY <2>1, <2>5, <3>3 DEF Targets, ReviewInv, CallShape, UiOps, Keep
      <4> QED
        BY <2>3, <4>1 DEF Traces
    <3> QED
      BY <2>4, <3>1, <3>2, <3>3
  <2>10. status'[i] = "VENDOR_BILL_CREATED" => billed'[i] /\ Audited(i, "VENDOR_BILL_CREATED")'
    <3>1. CASE status'[i] = status[i]
      BY <1>1, <1>2, <2>6, <3>1
    <3>2. CASE call[r].to \in Status /\ status'[i] = call[r].to /\ call[r].to = "VENDOR_BILL_CREATED"
      <4>1. call[r].op = "vendor_bill"
        BY <2>1, <2>5, <3>2 DEF Targets, ReviewInv, CallShape, UiOps, Keep
      <4> QED
        BY <2>3, <2>6, <4>1 DEF Traces
    <3> QED
      BY <2>4, <3>1, <3>2
  <2> QED
    BY <2>8, <2>9, <2>10
<1>6. ASSUME NEW r \in Requests, Commit(r), i # call[r].inv PROVE RowKept(i)
  BY <1>6 DEF Commit, RowKept, References, LockInv, TypeInv, TypeOK, RowTypes
<1>7. CASE Restart
  <2>1. Stuck = {}
    BY DEF Stuck, ReviewInv, NoneAnalyzing
  <2> QED
    BY <1>3, <1>7, <2>1 DEF Restart, RowKept
<1>8. CASE UNCHANGED <<rowVars, audit, applied>>
  BY <1>3, <1>8 DEF RowKept, rowVars
<1> QED
  BY <1>3, <1>4, <1>5, <1>6, <1>7, <1>8, JobCommitRow, RowWriters

-----------------------------------------------------------------------------
LEMMA NextDecisionsReviewed ==
  Ops \subseteq UiOps /\ ReviewCtx /\ [Next]_vars => DecisionsReviewed'
<1> SUFFICES ASSUME Ops \subseteq UiOps, ReviewCtx, [Next]_vars,
                    NEW r \in Requests, Open(r)', call'[r].op \in Decisions,
                    NEW i, call'[r].inv = i
             PROVE  /\ status'[i] \in Reviewed
                    /\ call'[r].op = "vendor_bill" => Audited(i, "VALIDATED")'
  BY DEF DecisionsReviewed, Audited
<1>1. ASSUME i \in Invoices, status[i] \in Reviewed PROVE status'[i] \in Reviewed
  <2>1. ~RowAnalysed(i)
    BY <1>1 DEF RowAnalysed, Reviewed, Analysable
  <2> QED
    BY <1>1, <2>1, RowStep DEF RowKept, RowDecided
<1>2. Audited(i, "VALIDATED") => Audited(i, "VALIDATED")'
  BY AuditGrows DEF Audited
<1>3. CASE /\ call'[r] \in Calls /\ Accepts(call'[r].op, call'[r].to, Read(call'[r].inv))
           /\ UNCHANGED <<rowVars, audit>>
  <2> DEFINE c == call'[r]
  <2>1. i \in Invoices /\ c.to \in Targets(c.op)
    BY <1>3, CallsShape
  <2>2. status[i] \in Status
    BY <2>1 DEF ReviewCtx, LockInv, TypeInv, TypeOK, RowTypes
  <2>3. \/ status[i] = "TO_REVIEW"
        \/ c.op = "vendor_bill" /\ (status[i] = "VALIDATED" \/ billed[i])
    <3>1. CASE c.op \in {"validate", "reject"}
      <4>1. c.to \in {"VALIDATED", "REJECTED"} /\ c.to \in ValidTransitions[status[i]]
        BY <1>3, <2>1, <3>1 DEF Accepts, Targets, Read
      <4> QED
        BY <2>2, <4>1 DEF ValidTransitions, Status
    <3>2. CASE c.op = "correct"
      BY <1>3, <3>2 DEF Accepts, Read
    <3>3. CASE c.op = "vendor_bill"
      BY <1>3, <3>3 DEF Accepts, Read
    <3> QED
      BY <3>1, <3>2, <3>3 DEF Decisions
  <2>4. status[i] \in Reviewed
    BY <2>1, <2>3 DEF ReviewCtx, ReviewInv, WorkReviewed, Reviewed
  <2>5. c.op = "vendor_bill" => status[i] = "VALIDATED" \/ billed[i]
    BY <1>3 DEF Accepts, Read
  <2>6. c.op = "vendor_bill" => Audited(i, "VALIDATED")
    BY <2>1, <2>5 DEF ReviewCtx, ReviewInv, DecisionIsAudited
  <2> QED
    BY <1>1, <1>2, <2>1, <2>4, <2>6
<1>4. CASE /\ Open(r) /\ call[r].inv \in Invoices
           /\ call'[r].op = call[r].op /\ call'[r].inv = call[r].inv
  BY <1>1, <1>2, <1>4 DEF ReviewCtx, ReviewInv, DecisionsReviewed
<1> QED
  BY <1>3, <1>4, OpenCalls DEF ReviewCtx

LEMMA NextReadsAnalysable ==
  Ops \subseteq UiOps /\ ReviewCtx /\ [Next]_vars => ReadsAnalysable'
<1> SUFFICES ASSUME Ops \subseteq UiOps, ReviewCtx, [Next]_vars, NEW t \in Tasks, Reading(t)'
             PROVE  /\ wsnap'[t].version <= version'[taskInv'[t]]
                    /\ wsnap'[t].version = version'[taskInv'[t]] =>
                         status'[taskInv'[t]] \in Analysable
  BY DEF ReadsAnalysable
<1> DEFINE i == taskInv[t]
<1> USE DEF ReviewCtx
<1>1. i \in Invoices /\ taskInv'[t] = i
  BY ReadingJobs
<1>2. version[i] \in Nat /\ wsnap[t].version \in Nat
  BY <1>1 DEF LockInv, TypeInv, TypeOK, RowTypes, JobTypes, Snapshot
<1>3. CASE wsnap'[t] = Read(i) /\ status[i] \in Analysable /\ UNCHANGED rowVars
  BY <1>1, <1>2, <1>3 DEF Read, rowVars
<1>4. CASE Reading(t) /\ wsnap'[t] = wsnap[t]
  <2>1. /\ wsnap[t].version <= version[i]
        /\ wsnap[t].version = version[i] => status[i] \in Analysable
    BY <1>4 DEF ReviewInv, ReadsAnalysable
  <2>2. CASE RowKept(i)
    BY <1>1, <1>4, <2>1, <2>2 DEF RowKept
  <2>3. CASE RowDecided(i)
    BY <1>1, <1>4, <2>1, <2>3 DEF RowDecided, Reviewed, Analysable
  <2>4. CASE RowAnalysed(i)
    <3>1. version'[i] \in Nat
      BY <1>1, NextTypeInv DEF LockInv, TypeInv, TypeOK, RowTypes
    <3>2. version'[i] > version[i]
      BY <2>4 DEF RowAnalysed
    <3>3. wsnap[t].version < version'[i]
      BY <1>2, <2>1, <3>1, <3>2
    <3> QED
      BY <1>1, <1>2, <1>4, <3>1, <3>3
  <2> QED
    BY <1>1, <2>2, <2>3, <2>4, RowStep
<1> QED
  BY <1>3, <1>4, ReadingJobs

LEMMA NextReviewInv == Ops \subseteq UiOps /\ ReviewCtx /\ [Next]_vars => ReviewInv'
<1> SUFFICES ASSUME Ops \subseteq UiOps, ReviewCtx, [Next]_vars PROVE ReviewInv'
  OBVIOUS
<1>1. NoneAnalyzing' /\ WorkReviewed'
  <2> SUFFICES ASSUME NEW i \in Invoices
               PROVE  /\ status'[i] # "ANALYZING"
                      /\ billed'[i] \/ content'[i] = "manual" => status'[i] \in Reviewed
    BY DEF NoneAnalyzing, WorkReviewed
  <2>1. /\ status[i] # "ANALYZING"
        /\ billed[i] \/ content[i] = "manual" => status[i] \in Reviewed
    BY DEF ReviewCtx, ReviewInv, NoneAnalyzing, WorkReviewed
  <2>2. CASE RowKept(i)
    BY <2>1, <2>2 DEF RowKept
  <2>3. CASE RowDecided(i)
    BY <2>3 DEF RowDecided, Reviewed
  <2>4. CASE RowAnalysed(i)
    <3>1. ~billed[i] /\ content[i] # "manual"
      BY <2>1, <2>4 DEF RowAnalysed, Reviewed, Analysable
    <3> QED
      BY <2>4, <3>1 DEF RowAnalysed
  <2> QED
    BY <2>2, <2>3, <2>4, RowStep
<1>2. DecisionIsAudited'
  BY DecisionsAudited DEF DecisionIsAudited, Audited
<1> QED
  BY <1>1, <1>2, NextCallShape, NextDecisionsReviewed, NextReadsAnalysable DEF ReviewInv, ReviewCtx

(* Through the web interface: open decisions are about reviewed invoices,  *)
(* a job's reading is analysable while current, and decisions are audited. *)
THEOREM ReviewInvariant == ASSUME Ops \subseteq UiOps PROVE Spec => []ReviewCtx
<1>1. Init => ReviewInv
  BY DEF Init, ReviewInv, CallShape, DecisionsReviewed, ReadsAnalysable, Open, Reading,
         NoneAnalyzing, WorkReviewed, DecisionIsAudited
<1>2. LockInv /\ SwapInv /\ VerdictInv /\ ReviewInv /\ [Next]_vars => ReviewInv'
  BY NextReviewInv DEF ReviewCtx
<1>3. LockInv /\ SwapInv /\ VerdictInv /\ ReviewInv => ReviewCtx
  BY DEF ReviewCtx
<1> QED
  BY <1>1, <1>2, <1>3, VerdictInvariant, PTL DEF Spec

(* Whatever decisions, corrections, retries and analyses race on an        *)
(* invoice, the decision in force is in its audit log, and an invoice with *)
(* a Vendor Bill was once validated.                                       *)
THEOREM DecisionsAreAudited ==
  ASSUME Ops \subseteq UiOps PROVE Spec => []DecisionIsAudited
<1>1. ReviewCtx => DecisionIsAudited
  BY DEF ReviewCtx, ReviewInv
<1> QED
  BY <1>1, ReviewInvariant, PTL

(* No queued or running analysis takes a reviewed invoice back, however    *)
(* many of them were asked for and whenever they read the row.             *)
THEOREM ReviewsAreFinal == ASSUME Ops \subseteq UiOps PROVE Spec => ReviewIsFinal
<1>1. ASSUME ReviewCtx, [Next]_vars, NEW i \in Invoices, status[i] \in Reviewed
      PROVE  status'[i] \in Reviewed
  <2>1. ~RowAnalysed(i)
    BY <1>1 DEF RowAnalysed, Reviewed, Analysable
  <2> QED
    BY <1>1, <2>1, RowStep DEF RowKept, RowDecided
<1>2. ReviewCtx /\ [Next]_vars
        => [\A i \in Invoices : status[i] \in Reviewed => status'[i] \in Reviewed]_vars
  BY <1>1
<1> QED
  BY <1>2, ReviewInvariant, PTL DEF Spec, ReviewIsFinal

(* Nor does one overwrite what an accountant has corrected: only a commit  *)
(* of /correct or of an analysis writes the content, and no analysis       *)
(* commits on a reviewed invoice.                                          *)
THEOREM CorrectionsAreKept == ASSUME Ops \subseteq UiOps PROVE Spec => CorrectionKept
<1>1. ASSUME ReviewCtx, [Next]_vars, NEW i \in Invoices, content[i] = "manual"
      PROVE  content'[i] = "manual"
  <2>1. ~RowAnalysed(i)
    BY <1>1 DEF ReviewCtx, ReviewInv, WorkReviewed, RowAnalysed, Reviewed, Analysable
  <2>2. ASSUME NEW r \in Requests, Commit(r) PROVE content'[i] = "manual"
    BY <1>1, <2>2 DEF Commit, ReviewCtx, LockInv, TypeInv, TypeOK, RowTypes
  <2>3. CASE RowKept(i)
    BY <1>1, <2>3 DEF RowKept
  <2>4. CASE Restart \/ UNCHANGED <<rowVars, audit, applied>>
    BY <1>1, <2>4 DEF Restart, rowVars
  <2> QED
    BY <1>1, <2>1, <2>2, <2>3, <2>4, JobCommitRow, RowWriters
<1>2. ReviewCtx /\ [Next]_vars
        => [\A i \in Invoices : content[i] = "manual" => content'[i] = "manual"]_vars
  BY <1>1
<1> QED
  BY <1>2, ReviewInvariant, PTL DEF Spec, CorrectionKept

-----------------------------------------------------------------------------
(* The versioned graph.  When every writer compares and swaps, a version   *)
(* read earlier is current only if the status read with it is, so that the *)
(* edge a writer has checked is the edge its commit walks.                 *)

StatusReads ==
  \A r \in Requests : Open(r) /\ call[r].op = "status" =>
    /\ call[r].to \in ValidTransitions[snap[r].status]
    /\ snap[r].version <= version[call[r].inv]
    /\ snap[r].version = version[call[r].inv] => snap[r].status = status[call[r].inv]

AnalysisReads ==
  \A t \in Tasks : Reading(t) =>
    /\ wsnap[t].status \in Analysable
    /\ wsnap[t].version <= version[taskInv[t]]
    /\ wsnap[t].version = version[taskInv[t]] => wsnap[t].status = status[taskInv[t]]

GraphInv == CallShape /\ StatusReads /\ AnalysisReads

GraphCtx == LockInv /\ SwapInv /\ VerdictInv /\ GraphInv

(* A committed call changes no row, or walks the edge it has checked on    *)
(* the row it has locked.                                                  *)
LEMMA CommitWalks ==
  ASSUME Ops \subseteq CasOps, GraphCtx, NEW r \in Requests, Commit(r)
  PROVE  \/ status' = status /\ version' = version
         \/ /\ call[r].inv \in Invoices
            /\ call[r].to \in ValidTransitions[status[call[r].inv]]
            /\ status'  = [status EXCEPT ![call[r].inv] = call[r].to]
            /\ version' = [version EXCEPT ![call[r].inv] = @ + 1]
<1> USE DEF GraphCtx, GraphInv
<1>1. Open(r) /\ call[r].inv \in Invoices /\ call[r].op \in CasOps /\ pc[r] = "flushed"
  BY DEF Commit, Open, LockInv, TypeInv, References, CallShape
<1>2. CASE call[r].op # "status"
  <2>1. call[r].to \notin Status
    BY <1>1, <1>2 DEF CallShape, CasOps, Targets, Status, Keep
  <2>2. call[r].op \notin {"status", "vendor_bill"}
    BY <1>1, <1>2 DEF CasOps
  <2> QED
    BY <2>1, <2>2 DEF Commit
<1>3. CASE call[r].op = "status"
  <2>1. snap[r].version = version[call[r].inv]
    BY <1>1, <1>3, LifecycleAssumption DEF SwapInv, LockedRead, Writing, Swaps, SeenBy
  <2>2. call[r].to \in ValidTransitions[status[call[r].inv]]
    BY <1>1, <1>3, <2>1 DEF StatusReads
  <2>3. status[call[r].inv] \in Status
    BY <1>1 DEF LockInv, TypeInv, TypeOK, RowTypes
  <2>4. call[r].to \in Status
    BY <2>2, <2>3 DEF ValidTransitions, Status
  <2> QED
    BY <1>1, <1>3, <2>2, <2>4 DEF Commit
<1> QED
  BY <1>2, <1>3

(* A committed analysis starts from the status it has read.                *)
LEMMA AnalysisWalks ==
  ASSUME GraphCtx, NEW t \in Tasks, JobCommit(t)
  PROVE  /\ taskInv[t] \in Invoices /\ status[taskInv[t]] \in Analysable
         /\ \E to \in {"TO_REVIEW", "SYSTEM_ERROR"} : status' = [status EXCEPT ![taskInv[t]] = to]
         /\ version' = [version EXCEPT ![taskInv[t]] = @ + AnalysisEdges(status[taskInv[t]])]
<1> USE DEF GraphCtx, GraphInv
<1>1. wpc[t] = "analysing" /\ taskInv[t] \in Invoices /\ Reading(t)
  BY DEF JobCommit, Reading, LockInv, TypeInv, References
<1>2. wsnap[t].version = version[taskInv[t]]
  BY <1>1, LifecycleAssumption DEF SwapInv, LockedRead, Writing, Swaps, SeenBy
<1>3. wsnap[t].status = status[taskInv[t]] /\ wsnap[t].status \in Analysable
  BY <1>1, <1>2 DEF AnalysisReads
<1> QED
  BY <1>1, <1>3 DEF JobCommit

(* The status of a row stays with its version, or the version grows.       *)
RowMoves(i) ==
  \/ status'[i] = status[i] /\ version'[i] = version[i]
  \/ version'[i] > version[i]

LEMMA RowsMove ==
  ASSUME Ops \subseteq CasOps, GraphCtx, [Next]_vars, NEW i \in Invoices
  PROVE  RowMoves(i)
<1>1. status \in [Invoices -> Status] /\ version \in [Invoices -> Nat]
  BY DEF GraphCtx, LockInv, TypeInv, TypeOK, RowTypes
<1>2. ASSUME NEW r \in Requests, Commit(r) PROVE RowMoves(i)
  BY <1>1, <1>2, CommitWalks DEF RowMoves
<1>3. ASSUME NEW t \in Tasks, JobCommit(t) PROVE RowMoves(i)
  <2>1. AnalysisEdges(status[taskInv[t]]) \in {2, 3}
    BY DEF AnalysisEdges
  <2>2. /\ taskInv[t] \in Invoices
        /\ \E to : status' = [status EXCEPT ![taskInv[t]] = to]
        /\ version' = [version EXCEPT ![taskInv[t]] = @ + AnalysisEdges(status[taskInv[t]])]
    BY <1>3, AnalysisWalks
  <2>3. CASE i # taskInv[t]
    BY <1>1, <2>2, <2>3 DEF RowMoves
  <2>4. CASE i = taskInv[t]
    <3>1. version'[i] = version[i] + AnalysisEdges(status[taskInv[t]])
      BY <1>1, <2>2, <2>4
    <3>2. version[i] \in Nat
      BY <1>1
    <3> QED
      BY <2>1, <3>1, <3>2 DEF RowMoves
  <2> QED
    BY <2>3, <2>4
<1>4. CASE Restart
  BY <1>1, <1>4 DEF Restart, RowMoves
<1>5. CASE UNCHANGED <<rowVars, audit, applied>>
  BY <1>5 DEF RowMoves, rowVars
<1> QED
  BY <1>2, <1>3, <1>4, <1>5, RowWriters

LEMMA NextGraphInv == Ops \subseteq CasOps /\ GraphCtx /\ [Next]_vars => GraphInv'
<1> SUFFICES ASSUME Ops \subseteq CasOps, GraphCtx, [Next]_vars PROVE GraphInv'
  OBVIOUS
<1>1. /\ version \in [Invoices -> Nat] /\ version' \in [Invoices -> Nat]
      /\ snap \in [Requests -> Snapshot] /\ wsnap \in [Tasks -> Snapshot]
  BY NextTypeInv DEF GraphCtx, LockInv, TypeInv, TypeOK, RowTypes, RequestTypes, JobTypes
<1>2. StatusReads'
  <2> SUFFICES ASSUME NEW r \in Requests, Open(r)', call'[r].op = "status",
                      NEW i, call'[r].inv = i
               PROVE  /\ call'[r].to \in ValidTransitions[snap'[r].status]
                      /\ snap'[r].version <= version'[i]
                      /\ snap'[r].version = version'[i] => snap'[r].status = status'[i]
    BY DEF StatusReads
  <2>1. CASE /\ call'[r] \in Calls /\ snap'[r] = Read(i)
             /\ Accepts(call'[r].op, call'[r].to, Read(i)) /\ UNCHANGED <<rowVars, audit>>
    <3>1. i \in Invoices
      BY <2>1, CallsShape
    <3>2. call'[r].to \in ValidTransitions[Read(i).status]
      BY <2>1 DEF Accepts
    <3> QED
      BY <1>1, <2>1, <3>1, <3>2 DEF Read, rowVars
  <2>2. CASE /\ Open(r) /\ snap'[r] = snap[r] /\ i \in Invoices
             /\ call[r].op = "status" /\ call[r].inv = i /\ call'[r].to = call[r].to
    <3>1. /\ call[r].to \in ValidTransitions[snap[r].status]
          /\ snap[r].version <= version[i]
          /\ snap[r].version = version[i] => snap[r].status = status[i]
      BY <2>2 DEF GraphCtx, GraphInv, StatusReads
    <3>2. snap[r].version \in Nat /\ version[i] \in Nat /\ version'[i] \in Nat
      BY <1>1, <2>2 DEF Snapshot
    <3> QED
      BY <2>2, <3>1, <3>2, RowsMove DEF RowMoves
  <2> QED
    BY <2>1, <2>2, OpenCalls DEF GraphCtx
<1>3. AnalysisReads'
  <2> SUFFICES ASSUME NEW t \in Tasks, Reading(t)', NEW i, taskInv'[t] = i
               PROVE  /\ wsnap'[t].status \in Analysable
                      /\ wsnap'[t].version <= version'[i]
                      /\ wsnap'[t].version = version'[i] => wsnap'[t].status = status'[i]
    BY DEF AnalysisReads
  <2>1. taskInv[t] = i /\ i \in Invoices
    BY ReadingJobs DEF GraphCtx
  <2>2. CASE wsnap'[t] = Read(i) /\ status[i] \in Analysable /\ UNCHANGED rowVars
    BY <1>1, <2>1, <2>2 DEF Read, rowVars
  <2>3. CASE Reading(t) /\ wsnap'[t] = wsnap[t]
    <3>1. /\ wsnap[t].status \in Analysable
          /\ wsnap[t].version <= version[i]
          /\ wsnap[t].version = version[i] => wsnap[t].status = status[i]
      BY <2>1, <2>3 DEF GraphCtx, GraphInv, AnalysisReads
    <3>2. wsnap[t].version \in Nat /\ version[i] \in Nat /\ version'[i] \in Nat
      BY <1>1, <2>1 DEF Snapshot
    <3> QED
      BY <2>1, <2>3, <3>1, <3>2, RowsMove DEF RowMoves
  <2> QED
    BY <2>1, <2>2, <2>3, ReadingJobs DEF GraphCtx
<1> QED
  BY <1>2, <1>3, NextCallShape DEF GraphInv, GraphCtx

(* When every writer compares and swaps, the status read with a version is *)
(* the one of the row for as long as that version is current.              *)
THEOREM GraphInvariant == ASSUME Ops \subseteq CasOps PROVE Spec => []GraphCtx
<1>1. Init => GraphInv
  BY DEF Init, GraphInv, CallShape, StatusReads, AnalysisReads, Open, Reading
<1>2. LockInv /\ SwapInv /\ VerdictInv /\ GraphInv /\ [Next]_vars => GraphInv'
  BY NextGraphInv DEF GraphCtx
<1>3. LockInv /\ SwapInv /\ VerdictInv /\ GraphInv => GraphCtx
  BY DEF GraphCtx
<1> QED
  BY <1>1, <1>2, <1>3, VerdictInvariant, PTL DEF Spec

(* The walks of the graph: one edge, and the two or three of an analysis.  *)
LEMMA OneEdge == ASSUME NEW s PROVE Graph!Beyond({s}) = ValidTransitions[s]
  BY DEF Graph!Beyond, Graph!ValidTransitions, ValidTransitions

LEMMA AnalysisPath ==
  ASSUME NEW to \in {"TO_REVIEW", "SYSTEM_ERROR"}
  PROVE  /\ to \in Graph!Beyond(Graph!Beyond({"SUBMITTED"}))
         /\ to \in Graph!Beyond(Graph!Beyond(Graph!Beyond({"SYSTEM_ERROR"})))
<1>1. \A S, a, b : a \in S /\ b \in ValidTransitions[a] => b \in Graph!Beyond(S)
  BY DEF Graph!Beyond, Graph!ValidTransitions, ValidTransitions
<1>2. /\ "ANALYZING" \in ValidTransitions["SUBMITTED"] /\ to \in ValidTransitions["ANALYZING"]
      /\ "SUBMITTED" \in ValidTransitions["SYSTEM_ERROR"]
  BY DEF ValidTransitions
<1> QED
  BY <1>1, <1>2

LEMMA GraphStep == Ops \subseteq CasOps /\ GraphCtx /\ [Next]_vars => [Graph!GNext]_(Graph!gvars)
<1> SUFFICES ASSUME Ops \subseteq CasOps, GraphCtx, [Next]_vars
             PROVE  Graph!GNext \/ UNCHANGED <<status, version>>
  BY DEF Graph!gvars
<1>1. ASSUME NEW r \in Requests, Commit(r)
      PROVE  Graph!GNext \/ UNCHANGED <<status, version>>
  <2> SUFFICES ASSUME call[r].inv \in Invoices,
                      call[r].to \in ValidTransitions[status[call[r].inv]],
                      status'  = [status EXCEPT ![call[r].inv] = call[r].to],
                      version' = [version EXCEPT ![call[r].inv] = @ + 1]
               PROVE  Graph!GNext
    BY <1>1, CommitWalks
  <2>1. Graph!Walk(call[r].inv, Graph!Beyond({status[call[r].inv]}), 1)
    BY OneEdge DEF Graph!Walk
  <2> QED
    BY <2>1 DEF Graph!Move, Graph!GNext
<1>2. ASSUME NEW t \in Tasks, JobCommit(t) PROVE Graph!GNext
  <2> DEFINE i == taskInv[t]
  <2>1. PICK to \in {"TO_REVIEW", "SYSTEM_ERROR"} :
          /\ i \in Invoices /\ status[i] \in Analysable
          /\ status' = [status EXCEPT ![i] = to]
          /\ version' = [version EXCEPT ![i] = @ + AnalysisEdges(status[i])]
    BY <1>2, AnalysisWalks
  <2>2. CASE status[i] = "SUBMITTED"
    <3>1. version' = [version EXCEPT ![i] = @ + 2]
      BY <2>1, <2>2 DEF AnalysisEdges
    <3>2. Graph!Walk(i, Graph!Beyond(Graph!Beyond({status[i]})), 2)
      BY <2>1, <2>2, <3>1, AnalysisPath DEF Graph!Walk
    <3> QED
      BY <2>1, <3>2 DEF Graph!Move, Graph!GNext
  <2>3. CASE status[i] = "SYSTEM_ERROR"
    <3>1. version' = [version EXCEPT ![i] = @ + 3]
      BY <2>1, <2>3 DEF AnalysisEdges
    <3>2. Graph!Walk(i, Graph!Beyond(Graph!Beyond(Graph!Beyond({status[i]}))), 3)
      BY <2>1, <2>3, <3>1, AnalysisPath DEF Graph!Walk
    <3> QED
      BY <2>1, <3>2 DEF Graph!Move, Graph!GNext
  <2> QED
    BY <2>1, <2>2, <2>3 DEF Analysable
<1>3. CASE Restart
  <2>1. Stuck \in SUBSET Invoices /\ \A i \in Stuck : "SYSTEM_ERROR" \in ValidTransitions[status[i]]
    BY DEF Stuck, ValidTransitions
  <2>2. Graph!Sweep(Stuck)
    BY <1>3, <2>1 DEF Restart, Graph!Sweep, Graph!ValidTransitions, ValidTransitions
  <2> QED
    BY <2>1, <2>2 DEF Graph!GNext
<1>4. CASE UNCHANGED <<rowVars, audit, applied>>
  BY <1>4 DEF rowVars
<1> QED
  BY <1>1, <1>2, <1>3, <1>4, RowWriters

(* When every writer compares and swaps, the rows of any number of         *)
(* invoices implement the versioned graph: no status is reached by an edge *)
(* the graph lacks, and every edge walked moves the version by one, through *)
(* races, lost transactions, stops and start-up sweeps.                    *)
THEOREM RowsImplementGraph == ASSUME Ops \subseteq CasOps PROVE Spec => GraphRefined
<1>1. Init => Graph!GInit
  BY DEF Init, Graph!GInit
<1>2. GraphCtx /\ [Next]_vars => [Graph!GNext]_(Graph!gvars)
  BY GraphStep
<1> QED
  BY <1>1, <1>2, GraphInvariant, PTL DEF Spec, GraphRefined, Graph!GSpec

(* The stale write that a validation may make is out of reach of the       *)
(* writers that compare and swap: each of them writes a status on the very *)
(* status it has read.                                                     *)
THEOREM SwappersNeverWriteStale == ASSUME Ops \subseteq CasOps PROVE Spec => NoStaleWrite
<1>1. ASSUME GraphCtx, [Next]_vars, NEW r \in Requests,
             r \in applied' \ applied, call[r].to \in Status
      PROVE  status[call[r].inv] = snap[r].status
  <2>1. Commit(r)
    <3>1. ASSUME NEW q \in Requests, Commit(q) PROVE Commit(r)
      BY <1>1, <3>1 DEF Commit
    <3>2. ASSUME NEW t \in Tasks, JobCommit(t) PROVE Commit(r)
      BY <1>1, <3>2, LifecycleAssumption DEF JobCommit
    <3>3. ~Restart /\ applied' # applied
      BY <1>1 DEF Restart
    <3> QED
      BY <1>1, <3>1, <3>2, <3>3, RowWriters
  <2>2. Open(r) /\ pc[r] = "flushed" /\ call[r].inv \in Invoices /\ call[r].op \in CasOps
    BY <1>1, <2>1 DEF Commit, Open, GraphCtx, GraphInv, LockInv, TypeInv, References, CallShape
  <2>3. call[r].op = "status"
    BY <1>1, <2>2 DEF GraphCtx, GraphInv, CallShape, CasOps, Targets, Status, Keep
  <2>4. snap[r].version = version[call[r].inv]
    BY <1>1, <2>2, <2>3, LifecycleAssumption DEF GraphCtx, SwapInv, LockedRead, Writing, Swaps, SeenBy
  <2> QED
    BY <1>1, <2>2, <2>3, <2>4 DEF GraphCtx, GraphInv, StatusReads
<1>2. GraphCtx /\ [Next]_vars
        => [\A r \in Requests :
              r \in applied' \ applied /\ call[r].to \in Status
                => status[call[r].inv] = snap[r].status]_vars
  BY <1>1
<1> QED
  BY <1>2, GraphInvariant, PTL DEF Spec, NoStaleWrite
=============================================================================
