# SmartInvoice in TLA+

SmartInvoice receives supplier invoices as documents, reads them by OCR in
background jobs, compares them with purchase orders cached from Odoo, lets
accountants correct, validate or reject them, and creates a Vendor Bill in
Odoo. This directory holds TLA+ models of its backend, TLC configurations that
check them on small instances, and TLAPS proofs.

Contents: 1 the system, 2 the modules, 3 the runs, 4 the proofs,
5 what is left out, 6 findings, 7 plan.

## 1. The system

One Uvicorn process serves a FastAPI application over PostgreSQL. Routes
(`app/api/routes`) call services (`app/services`), services use repositories
(`app/repositories`) over one SQLAlchemy session per request. Jobs run in a
thread pool of the same process, each with sessions of its own.

Facts that shape every model:

- **Transactions.** PostgreSQL in READ COMMITTED; sessions have
  `autoflush=False, expire_on_commit=False`. `get_db` (`deps.py:46`) commits
  *after* the response is sent and rolls back on any exception.
  `BaseRepository.update` only sets attributes: the UPDATE, by primary key, is
  emitted by the next `flush` and locks the row to the end of the transaction.
  `update_cas` is an immediate `UPDATE ... WHERE version = :read`.
- **Who compares and swaps.** Only `transition_status` (POST /status, the OCR
  pipeline) and the start-up recovery. `validate`, `reject`, `correct` and
  `create_vendor_bill` write without a version and without incrementing it.
- **Jobs.** The queue lives in the memory of a `ThreadPoolExecutor`; task rows
  are written in short transactions around the job's own transaction.

| Component | State | Operations | What makes it hard | What makes it correct |
|---|---|---|---|---|
| Invoice status machine | `invoices.status, version` | `transition_status`, accountants' decisions | two writers of one row, only some versioned | one edge per version; reviews not taken back |
| Task manager | `tasks`, memory queue, threads | `submit`, phases of a job | three transactions per job, lost writes | truthful and final verdicts; every job settles |
| OCR pipeline | the job's transaction | `process` | runs for minutes beside the users | at most one analysis applies per version |
| Start-up recovery | none | `recover_orphan_tasks` | stop at any point | no orphan left, verdicts untouched |
| Validation | row, lines, `audit_logs` | `validate`, `reject`, `correct` | stale reads | decisions audited |
| Vendor Bill | `vendor_bill_id`, Odoo's moves | `create_vendor_bill` | lost and late answers, retries, rollbacks | duplicates only after a fault or an overlap |
| Deposit and storage | rows, files | `deposit`, `deposit_batch` | files outside the transaction, unique races, deadlocks | rows have files, answers hold |
| Matching | `anomalies`, `matching_score` | `match` | overlapping rewrites of the anomalies; tolerances | idempotence, bounds |
| Buyer confirmation | lines, `anomalies` | `confirm`, `resolve` | no status guard | only confirmable anomalies resolved |
| Odoo synchronisation | local cache | supplier, order, lines, rates | Odoo changes between calls | cache never shows what Odoo refused |
| Extraction | none | `extract`, `group_rows`, `parse` | conventions of numbers, order of rows and tests | a printed invoice is read as printed |
| Authentication | `users`, `refresh_tokens` | login, refresh, logout, deactivate | rotation races | a token is consumed once |
| Rate limiter | hits per key | `allow` | window boundary, limit 0 | never more than the limit per window |
| Browser session and page | tokens in `localStorage`, polls | `request`, `tryRefresh`, `useTaskPolling` | parallel refresh, failed and late polls | a valid session survives; a page at rest tells the truth |

Interactions: requests and jobs meet on the rows of PostgreSQL (row locks,
unique index); `/process` and `/retry` hand jobs to the pool; Odoo is called
synchronously over XML-RPC from requests; the browser polls task rows.

## 2. The modules

### InvoiceStatus
The seven statuses, `VALID_TRANSITIONS`, what the pipeline accepts
(`Analysable`), task states and audit actions. Data only.

### VersionedGraph
The abstract promise of the optimistic lock, in terms of committed rows only:
a row moves along edges of the graph, and its version grows by one per edge
(`Walk`: one edge; `Move`: several edges committed together, as an analysis
does; `Sweep`: several invoices at once, at start-up).

### InvoiceLifecycle
Requests, jobs, stops and restarts over the invoices, tasks and audit log.

| Model | Code |
|---|---|
| `status, version, billed, content, audit, task, taskInv` | committed rows of `invoices`, `audit_logs`, `tasks`; `content` says who last wrote the extracted data |
| `lock` | PostgreSQL's row lock: held from the first UPDATE to the end of the transaction |
| `queue, wpc, wsnap` | pending work of the pool, progress of each job, the row it read |
| `pc, call, snap, reply` | requests: progress, endpoint and target, the row they read, the answer |
| `applied` | history: the requests and jobs whose transaction committed |
| `Load`, then `HandleStatus` / `HandleDecision` / `HandleCorrection` / `HandleVendorBill` / `HandleAlreadyBilled` / `HandleProcess` / `HandleRetry` / `HandlerRaises`, then `Commit` / `CommitLost` | one endpoint call: `get_invoice`, the service, `get_db` |
| `Start`, `JobLoad`, `JobLock`, `JobCommit` / `JobRollback`, `JobSucceed` / `JobFail` | `_execute`, `OcrService.process`, the phases of `TaskManager` |
| `Crash`, `Restart`, `RestartUnswept` | stop of the process, `lifespan` with `recover_orphan_tasks`, the start whose sweep fails |

Abstractions. `Submit` takes the commit of the task row and its hand-over to
the pool as one step (what lies between is only the order of two jobs in the
queue, and a stop there equals a stop with the job queued). Failing to read the
task back after `/retry` submitted it is a rolled-back retry, as `CommitLost`.
A graceful shutdown that drains the pool is a behaviour without `Crash`.
Matching, confirmation and anomalies are in `InvoiceMatching`. Plausible
defects used to test the properties stand before the definition they alter,
under its name and a suffix (`JobLock_Unversioned`); nothing refers to them.

### VendorBill
`create_vendor_bill` against Odoo. `sent` holds the messages on their way to
Odoo, which may execute them long after the caller gave up; `moves` is Odoo's
journal. `dirty` is what the session has set and not committed: `Record` is the
flush that takes the row lock, `Commit` stores it, `Rollback` forgets it. The
read and the post are one step, as a delay between them is a delay of the
message. `ConnectionReset` is the single retry of Python's XML-RPC transport.
The search matches by reference only, so `Ref` may give two invoices (of two
suppliers) one number. Moves entered in Odoo by hand look like those of another
invoice with the same number.

### Deposit
`deposit` and `deposit_batch`. A *key* is a pair (supplier, number); `mine` is
what a request's transaction inserted. `Insert` waits while another open
transaction has inserted the key (PostgreSQL's unique index), meets
`IntegrityError` if it was committed since the check, and then rolls back the
session as the code does. `DeadlockVictim` is PostgreSQL breaking a cycle of
such waits; it reaches the generic `except` of `deposit`, as `InsertFails`
does. Files are named by `FileName` and obey no transaction. `upset` records the
calls that lost a race or met a fault. Unknown supplier, bad number and
illegible document are one refusal: nothing else tells them apart. A single
deposit is a batch of one: a refusal there raises, with nothing to roll back.

### OdooCache
The local cache of suppliers, orders, order lines and rates, filled by the four
operations of `OdooSyncService` while Odoo goes on changing. Odoo's successive
contents are the constant `History`; `cache` remembers, for each record, the
content it was copied from, so that "older" and "newer" have a meaning. A
synchronisation reads Odoo (`SyncRead`, or `SyncRefused` for an ambiguous name
or reference, a cancelled order, an unknown supplier), then stores and commits
(`SyncStore`) what it has read, which Odoo may have changed meanwhile.

### MatchingRules
The comparison of an invoice with an order as operators: the order a match
takes, the one-to-one pairing of lines (reference first, then likeness of the
names), the tolerances, the currencies, the gaps and the score. Likeness of two
texts (`difflib`) is the constant `Ratio`.

### InvoiceMatching
EXTENDS OdooCache. The four writers of an invoice's lines, links, score and
anomalies (`match`, `confirm`, the resolution of one anomaly, the analysis), as
transactions over row locks, beside the synchronisations.

| Model | Code |
|---|---|
| `reading` | `extracted_data` and the amounts the analysis stored |
| `lines, row, anomalies, audit` | rows of `invoice_lines`, the columns of `invoices` that `match` writes, rows of `anomalies` and `audit_logs` |
| `held`, `Needs`, `WaitsFor` | row locks; the rows a call writes next; the open transactions it waits for |
| `MatchOpen`, `MatchReset`, `MatchInvoice`, `MatchCommit` | `match`: the deletion of the earlier anomalies, then the flush (invoice before lines), then the commit |
| `ConfirmOpen`, `Half`, `ConfirmCommit` | `confirm`: lines and anomalies flushed in either order, with the audit entry |
| `AnalyseOpen`, `AnalyseLock`, `AnalyseRead`, `AnalyseCommit` | the analysis: its compare-and-swap locks the invoice first |
| `CallLost`, `DeadlockVictim` | a failure before the commit; PostgreSQL breaking a circle of waits |

A session writes only the columns whose value changed, and no row of which
nothing changed, as SQLAlchemy does: that decides which writes of a stale
reading do harm. An UPDATE of a row deleted meanwhile raises; a DELETE of one
does not.

### OcrText, OcrFields
The extraction, from positioned fragments to fields, totals, lines and doubt.
A text is a sequence of tokens (words, numbers by their groups of digits,
identifiers, dates, percentages): enough to tell the readings of `1.500` or
`1 500,25` apart, without characters. `OcrText` has the amounts, rows and annexes; `OcrFields`
the fields, totals, lines and confidence. The loops of the code are folds over
sequences; those of the amounts and the rows fold named operators (`Shifted`,
`JoinPiece`, `KeepRead`, `JoinFragment`), about which the proofs reason.

### RateLimiter
The sliding window of one key. A call reads the clock before it takes the
limiter's lock (`Arrive`, then `Allow`), so calls may be decided out of the order
of their times; `Rebuilt` is a restart or a change of the limit.

### AuthSessions
Accounts and refresh tokens: registration, login, rotation, logout, password
change, and the administrators' and the command line's account operations.
`request` is what a call was asked and has read (READ COMMITTED: it may be
stale when the call writes), `held` the token rows an open transaction has
written. A token bears the name of the call that issued it. `Abort` is every
failure before a commit. `before` records which calls had ended when one
began, so that the properties can say "overlapped".

### BrowserSession
EXTENDS AuthSessions with `localStorage`, shared by the tabs of one browser
(`api-client.ts`, `tokens.ts`, `auth.tsx`). Calls of the browser are calls of
`AuthSessions`, whose answers may be late or lost; the answer may come before
the commit of its call (`Granted`). A page that loads clears the storage a
second time when its refresh is refused (`clearing`). A logout empties the storage however its
request ends (`LogoutAnswered`): `api.logout` catches every error, and `auth.tsx`
clears the tokens after it.

### InvoicePage
The OCR page of one invoice: `useAsyncData` (`view`, `seen`), the two buttons of
`OcrPanel` (`Click`, `CallEnds`, `CallFails`) and `useTaskPolling` (`watched`,
`timer`, `shown`, `polls`). The first poll of a task and those of the interval
may be under way together and be answered in any order. `Reload` shows the
spinner in place of the panel, whose state is lost. The server is reduced to
what these calls see.

### MC modules
`MCLifecycle`, `MCVendorBill`, `MCDeposit`, `MCMatching`, `MCSessions` give the
constants their instances and the symmetry of requests (never used in a run
with a liveness property). `MCAlgorithms` makes each input of the pure
operators an initial state, and puts beside them, apart from each other, the
behaviours of `RateLimiter` and `InvoicePage`; it builds the printed documents
that the extraction is asked to read.

### Proof modules
Each `X_proofs` EXTENDS the component it is about and `TLAPS`: `VendorBill_proofs`,
`Deposit_proofs`, `InvoiceLifecycle_proofs`, `MatchingRules_proofs`,
`InvoiceMatching_proofs` (which also EXTENDS the latter, and has the theorems about
the cache), `Sessions_proofs` (about `AuthSessions` and `BrowserSession`, and about
`RateLimiter` and `InvoicePage`, which stand beside them), `MCAlgorithms_proofs`
(about `OcrText` and the inputs of the run Algorithms, with the theorems of
`MatchingRules_proofs`). `Folding` has what the library's fold over a sequence
computes, for any operator. They define nothing that the models or the runs use.

How they compose: `InvoiceMatching` EXTENDS `OdooCache` EXTENDS `MatchingRules`;
`BrowserSession` EXTENDS `AuthSessions`; `InvoiceLifecycle` is shown to implement
`VersionedGraph` (`Graph == INSTANCE VersionedGraph WITH ...`, property
`GraphRefined`), its history of requests and jobs being forgotten.

## 3. The runs

All runs set `CHECK_DEADLOCK FALSE`: the clients may stop calling, and the
bounded instances end. "Bounds" names the constants; each counter that would
grow is bounded by a guard that names its constant.

| Run | Bounds | Shows |
|---|---|---|
| LifecycleUi | the endpoints of the web interface, 1 invoice, 4 calls, 2 tasks, 2 threads, 1 stop, 1 lost database write | `RowLockDiscipline`, `EachVersionConsumedOnce`, `RunningHasJob`, `VerdictIsTruthful`, `VerdictIsFinal`, `DecisionIsAudited`, `ReviewIsFinal`, `CorrectionKept` (`TypeOK` is proved) |
| LifecycleCas | the endpoints whose status writes all compare and swap, 1 invoice, 3 calls, 2 tasks, 1 thread, 1 stop | `EachVersionConsumedOnce`; the rows implement `VersionedGraph`; `JobsSettle`, `RunningSettles`, `WritersProceed` |
| LifecycleStale (violation) | process, validate, reject | two decisions on one reading: the second overwrites |
| LifecycleGuard (violation) | process, 2 calls | a second analysis is accepted while the first runs |
| VendorBill | 2 invoices with one number, 2 + 1 calls, 2 faults | `CreatedHasItsMove`, `MovesAccountedFor`, `SuccessIsLinked`, `LinkIsStable` |
| VendorBillAttempts (violation) | same | the counted attempt is rolled back |
| Deposit | 3 calls, batches of up to 2 documents over 2 keys, 1 fault | `RowHasFile`, `OneRowPerKey`, `OrphansExplained`, `AnswersHold`, `DepositsEnd` |
| DepositBatch (violation) | same, no fault | a lost race undoes earlier documents of the batch |
| Matching | 1 invoice with 2 lines, 3 calls of any kind, 2 readings, an Odoo that changes twice, a supplier whose name becomes ambiguous | `TypeOK`, `PassesApplyWhole`, `DuplicatesExplained`, `ConfirmationKept`, `PassesNeverDeadlock`, `CacheNeverGoesBack` |
| Algorithms | comparisons of up to 2 lines with an order of 2, repeated orders of 3 lines in every order and 3 currencies, 16 printed amounts in 6 styles, printed invoices in every combination of layout and totals; limiter: 4 attempts, limits 0 and 2, window 2, 5 instants; page: 2 analyses, 3 polls | `FullScoreIffNoGap`, `RepeatedOrderMatches`, `AmountsReadAsPrinted`, `InvoiceReadAsPrinted`, `WindowBound`, `RestingPageTellsTheEnd` |
| Thousands (violation) | the documents of Algorithms | totals printed with unbreakable thousands are read as other amounts |
| Sessions | 2 accounts, 3 calls of administrators, users, command line and tabs | `OneHeir`, `ShutOut`, `AdministratorRemains`, `SessionKept` |

Why the bounds are enough to meet the interesting cases: two writers of one row
plus a third that reads what they left, two jobs of one invoice in a pool of
two threads, a stop between any two transactions of a job, and a lost write at
any of them all occur; for bills, a retry after a lost answer while a third
call finds the other invoice's move; for deposits, a race, a deadlock of two
batches and a third call waiting on either; for the anomalies, a confirmation or an
analysis between the reading and the writing of a match, a circle of two
waiting calls and a third that begins meanwhile; for the sessions, two calls
with one token while an administrator shuts its user out; for the page, a poll
that sees each state of a task, with an older one still to come. The proofs (below) lift
the main invariants to any number of invoices, requests, tasks and faults.

Statements that need their condition. `RunningHasJob` holds while no database
write was lost: a failure that cannot be written leaves the task "en cours"
until the next start. `VerdictIsTruthful` lets "échoué" stand for a committed
analysis only after a stop or a lost write. `JobsSettle` excludes stops: the
queue is in memory, and tasks "en attente" are not swept.

`DuplicatesExplained`, `OneHeir` and `ShutOut` speak of calls that did not
overlap: between overlapping ones the code has no protection, and the
properties say that nothing else is needed for the harm. `AdministratorRemains`
stops once an account was deactivated or demoted, or made by the command line
without being an administrator's. `ConfirmationKept`
lets another confirmation or a new analysis replace the buyer's values.
`PassesNeverDeadlock` excepts circles with a confirmation, a resolution or an
analysis, which do occur. `WindowBound` leaves out calls overtaken on the way
to the lock. `SessionKept` and `RestingPageTellsTheEnd` name every cause for which a session
ends or a page misleads: those exceptions are the weaknesses of the code
found while modelling, and the properties say that there is no other.
`CacheNeverGoesBack` supposes that the synchronisations of one record do not
overlap. `AmountsReadAsPrinted` is about the search for amounts alone, on the
text as it is printed; in the pipeline every row is cleaned first, which
`InvoiceReadAsPrinted` includes, and therefore leaves out the styles whose
thousands are unbreakable spaces: those are what `Thousands` shows.
`SuccessIsLinked` lets a fault on the invoice undo what a success announced, and
has no exception the other way: a bill stands only where a call has answered
success.

Fairness (`FairSpec`). Weak fairness of a thread taking the next job, of
`Commit` and of the restart (a supervisor restarts the container); strong
fairness of handlers that go on (`Handle`) and of job steps, because a writer that
waits for a row lock is enabled again and again and PostgreSQL serves waiters in
order. Exceptions (`HandlerRaises`) are owed by nobody: `db/session.py` sets no
limit to the time a statement or a lock may take, so a writer whose row stays
locked has no other way out, and `WritersProceed` has to come from the release of
the lock. Clients owe no call and faults owe no occurrence. In `Deposit`, weak fairness of the steps
of a call and of PostgreSQL's deadlock detection.

## 4. The proofs

Every invariant and action property that the passing runs check is proved, but
for `InvoiceReadAsPrinted`, for every value of the constants that satisfies the
named assumptions: any number of invoices, calls, tasks, accounts, lines and
faults, any readings, contents of Odoo, tolerances and likeness of texts. The
proofs about a component with state exhibit an inductive invariant, as a
conjunction of named parts; TLC checked each of them on the instance of the run
before it was proved. The proofs about an algorithm are for any input, by
induction over its length. The assumptions are the ASSUMEs of the models. They
say that values standing for "none" or "before the start" are not calls,
tokens or tasks, that bounds are naturals, and what the inputs are:

| Assumption | Besides that, it says |
|---|---|
| `LifecycleAssumption` | endpoints are among `AllOps` |
| `VendorBillAssumption` | each call is about an invoice |
| `DepositAssumption` | batches are non-empty sequences of documents |
| `LimiterAssumption` | the calls are a finite set |
| `OdooAssumption` | Odoo has a first content; an order's identifier is unique in a content, a line has a position, there are finitely many lines |
| `AlgorithmsAssumption` | a missing amount is not an integer; the likeness of the names of the run's inputs is a percentage, and tells them apart but for two that are nearly the same |
| `MatchingAssumption` | a reading has the columns that are compared and a sequence of lines; likeness is a percentage; a payload confirms only quantity, price and reference |

### InvoiceLifecycle_proofs

- `TypeCorrect`: inductive `TypeInv` adds to `TypeOK` what calls and tasks
  point to (`References`) and that the queue holds each waiting job once
  (`QueueInv`), because `Start` takes the head of the queue as a task.
- `RowLocksCorrect`: inductive `LockInv` adds `Down` (a stopped server has no
  open call, job or lock), which makes `Restart` keep the discipline.
- `OptimisticLockCorrect`: inductive `SwapInv` adds `AppliedDone` (what
  committed never acts again), `LockedRead` (an open compare-and-swap writer
  that holds the lock has read the row's current version) and `VersionsSeen`
  (what committed has read an older version than the row now has). A commit
  increments the version, so that no later writer can hold the lock with the
  same reading.
- `VerdictsAreTruthful`, `RunningTasksHaveJobs`, `VerdictsAreFinal`: inductive
  `VerdictInv`. `Stage` says, for each phase of a job, what its task's row shows
  and whether its analysis is committed; only a lost write sends a committed
  job to its failure path.
- `DecisionsAreAudited`, `ReviewsAreFinal`, `CorrectionsAreKept`, for `Ops \subseteq UiOps`: inductive `ReviewInv`. No
  decision increments the version, so it is not the version that tells a late
  job of a review. What protects the review is that it follows an analysis,
  which moved the version on: while the version a job has read is current, its
  invoice still waits for an analysis (`ReadsAnalysable`). With POST /status this
  is false, which is why the hypothesis is there.
- `RowsImplementGraph`, for `Ops \subseteq CasOps`: the refinement of
  `VersionedGraph`. Inductive `GraphInv`: a version read earlier is current only
  if the status read with it is. Each step then maps to an edge of the graph,
  the two or three edges of an analysis, a sweep, or a stutter.
  `SwappersNeverWriteStale` is the counterpart of finding 1: what `LifecycleStale`
  refutes holds for the writers that compare and swap.

### VendorBill_proofs

Inductive `BillInv`: `Drafts` says what a session holds before its commit (a
call about to succeed has an identifier, one about to declare the bill created
has a move in Odoo); `Overlaps` says that two open calls on one invoice, or a
row linked under an open call, have been counted as an overlap: that is why a
lone call never replaces a link. `MovesAreAccountedFor` counts: `Accounts` says
that the moves of an invoice, with the messages that may still create one,
number at most its faults, its overlaps, and one (`Pledge`) once the invoice is
linked or a call is committed to create its move. `SuccessesAreLinked` needs, for
its second half, that a session about to declare a bill has already answered
success (`AnswerInv`): the commit comes after the response, so a link that is
committed was announced by the call that made it.

### Deposit_proofs

Inductive `DepositInv`. `Place` ties a call to its position in the batch and to
the file it is about to use; `Ownership` gives each row's file to a document
already dealt with, so that the file a failed INSERT deletes is nobody's;
`Unique` extends the unique constraint to the rows of all open transactions,
which is what the wait of an INSERT preserves; `Answers` is what `AnswersHold`
becomes while a call is still running.

### MatchingRules_proofs

What the comparison computes, for lines of any number.

- `FullScoreTellsGaps`: the score is full exactly when no gap but that of a
  duplicate is found. It is stated for fewer than 3000 lines, and the bound
  is exact: the score is rounded to four digits, and from 3000 lines on a
  single wrong quantity (15 % of the weight shared among the lines) is at most
  half of the last one.
- `LinesFindTheirOwn`: the greedy pairing gives each line its own when each line
  tells its order line from the others (`FindsOwn`), in whatever order they come.
- `RepeatedOrderIsMatched`: an invoice that repeats its order is paired as it
  should be, without gaps, with the full score, in any currency. That the sum of
  the order's amounts is a whole number (`SumIsWhole`) is proved by induction
  over the subsets the library's fold runs through. `RepetitionIsMatched` (below)
  proves that the repetitions of the run Algorithms satisfy the hypotheses.

The first and the last are the general forms of `FullScoreIffNoGap` and
`RepeatedOrderMatches`, which `MCAlgorithms_proofs` derives from them. The pairing
is a recursive function over the lines; what is proved of it by induction uses
sets of numbers (`NatSet`, from the library's well-founded minimum) in place of
the induction theorems, whose operator parameter the provers cannot instantiate.

### InvoiceMatching_proofs

- `CachesNeverGoBack`: inductive `CacheInv`. A call that has read Odoo overlaps
  every other that has, and those that stored something newer (`Meetings`).
- `DuplicatesAreExplained`, `PassesDoNotDeadlock`: inductive `CallInv`. What a
  call is going to delete covers every anomaly of its categories, but for those
  of calls it overlaps (`Covers`). Matches flush anomalies, then the invoice,
  then lines: a circle of matches would need one that holds the invoice's row
  while it waits for an anomaly.
- `ConfirmationsAreKept`: inductive `KeepInv`. A session writes only the columns it
  has changed; what an edit under way was given and found in place is still in
  place (`Agrees`), unless it met another confirmation, so its commit takes no
  confirmed value back.
- `TypesAreRespected`: inductive `MatchTypes`, with the bounds of the score and of
  the pairing from `MatchingRules_proofs`.
- `PassesAreAppliedWhole`: inductive `PassInv`. Until its commit, what a pass that
  met nobody has read is still so. That a repeated pass judges the same needs
  that the order it linked is found again (`JudgeOrder`, `CompareAgain`).

### Sessions_proofs

`TokensHaveOneHeir`, `SessionsAreShutOut`, `AdministratorStays` from the inductive
`AuthInv`, of the server alone and beside a browser. `Heirs`: a token that was
exchanged is revoked at the same commit, and a call that may still exchange one
found it live, so that no call that had ended before has exchanged it. `Roots`:
an open registration or creation either makes an active administrator or was
opened when there were accounts already, so that the first commit of all leaves
one, whatever registers meanwhile. `ShutOuts1` follows the pattern of `Heirs` for the
list of live tokens, which are read before they are acted upon.
`SessionsAreKept` from `BrowserInv`: `Causes` traces each revoked token to a call;
`Storage` and `Spent` say that a tab presents only tokens that were given to it
and forgets them with the answer; hence two calls that present one token were
awaited together (`Apart`), which is one of the named causes. `Farewell` says what
may still be stored once a logout is over.

`PageTellsTheEnd` from the inductive `PageInv` with `Truth`: an answer about a
settled task stays true, and polls are ordered by the turn in which they were
served, which says which answer is the late one.

`LimiterBound` from `RInv`. `Remembered` says that an accepted call the limiter
has forgotten is older than the window of some call decided since; so a timely
call counts everything accepted in any interval of the window's length that
holds its own time, and is accepted only below the limit.

### Folding

`FoldLeft` is a fold over sets of positions, the greatest taken last, and the
library's theorems about folds take the operator as a parameter, which the
provers cannot instantiate. A module can be instantiated where a theorem
cannot: `Folding` has the operator as a CONSTANT, proves by induction over the
length that the fold runs through its sequence from left to right (`FoldRuns`,
`FoldAppend`), and is instantiated with each named operator that `OcrText` folds.

### MCAlgorithms_proofs

- `PrintedIsRead`: every integer, printed in any of the six styles with one, two
  or no decimals and however many groups, is found and read as it was meant, or
  not at all above `MaxAmount`. The groups of a number are its digits in base
  1000 (`DigitsOfReads`), they are worth the number (`GroupsAreWorth`), dropping
  unbreakable spaces keeps what they are worth (`UnspacedLumps`) or changes
  nothing when there are none (`UnspacedSame`), and what is left has one kind of
  separator or two, each read by its rule (`WholeIsRead`, `DecimalIsRead`).
- `RowIsRead`: a row is read amount by amount. After any text, a printed amount
  adds its value at the end of what is found, and so does the year of a date with
  slashes (the pattern looks for a letter, a digit, a dot or a dash before the
  digits, not for a slash); words, identifiers, percentages and the dates with
  dashes or dots add nothing. About `find_amounts` alone, as `PrintedIsRead`.
- `FragmentsAreGrouped`: the rows are pieces of the sequence of fragments, and a
  fragment follows in a row exactly when it overlaps the band of those before
  it in that row. Inductive `Grouping`, of the fold's partial results.
- `TotalsAreGiven`: over any rows and whatever is read in them, each total is the
  amount of the first row that names it and gives it one, and no row gives two;
  a row that names a field and was passed by announces columns, has no amount,
  gave it to a field that is tried earlier, or is a total excluding tax. `Given`
  is inductive over the rows; `TotalsExist` gives the recursive function of
  `ExtractFinancial` its values.
- `AmountsRead`, `FullScoreOnlyWithoutGap`, `RepetitionIsMatched`: the run's
  properties as theorems of `MCSpec`. `InputStays` says that the input of a
  behaviour is an input of its kind; the general theorems then hold of it, once
  its lines, orders and names are shown to satisfy their hypotheses, for every
  likeness and every value standing for a missing amount or order.

### What stays with TLC

- Liveness (`JobsSettle`, `RunningSettles`, `WritersProceed`, `DepositsEnd`):
  fairness and ENABLED are out of reach of the prover.
- `InvoiceReadAsPrinted`: what the extraction makes of a whole printed document.
  Its parts that are general are proved (amounts, rows of amounts, rows of
  fragments, totals); the general fields, the lines and the texts of rows are
  compared with what was printed on each document of the run.
- The violation runs, which are counterexamples.

## 5. What is left out

`PROJECT.json` lists every component with its status.

Not modelled:

- The OCR engines, Odoo, PostgreSQL and the browser are external: what they may
  do is a choice of the environment.
- Run-time settings: rows written one at a time and read when a service is
  built. The limits, tolerances and base currency are constants; only the
  limiter's change is an action (`Rebuilt`).
- Permissions are a constant table. `AuthSessions` keeps the one that decides who
  manages accounts.
- Expiry, signature and hashing of tokens, rotation of the secret; reactivation
  of an account with sessions that were never revoked (`UpdateCommit` with
  `active` keeps tokens, and `PATCH is_active=false` does not revoke any).
- Parsing of dates, detection of the currency, rendering of pages, the layout
  kept as evidence.
- `ValidationService.correct` as a third writer of invoice lines beside
  `InvoiceMatching` (it is a writer of the row in `InvoiceLifecycle`).
- Read-only views, metrics, catalogue, schemas, other pages, migrations,
  sample data, containers.

## 6. Findings

Each is a violation run whose counterexample TLC prints.

1. `LifecycleStale`: decisions of accountants are written without the version
   check that `models/invoice.py:125` and the manual promise.
2. `VendorBillAttempts`: `vendor_bill_attempts` and `vendor_bill_error` are
   rolled back with the request that failed.
3. `DepositBatch`: a document that loses the uniqueness race undoes the
   documents of its batch already reported as deposited.
4. `LifecycleGuard`: `/process` promises a 409 while an analysis runs
   (`routes/invoices.py:300`, the manual), but the status it looks for is
   committed only with the end of the analysis; a second job is accepted, and
   fails later on the version. The start-up recovery (`startup_recovery.py:8`)
   describes invoices left in that status, which the pipeline never leaves.
5. `Thousands`: `clean_text` makes the unbreakable spaces of a row plain ones before
   any amount is searched, so the French thousands the pattern is written for
   (`cleaners.py:32`) never reach it: 2 480,00 is read as 2 and 480,00.

Also met while modelling, and covered by hypotheses or exceptions of the
properties:

- *Lifecycle.* A stop loses queued jobs whose tasks stay "en attente".
- *Vendor Bill.* A reconciled bill may belong to another supplier with the same
  number, and leaves the invoice "Validée".
- *Matching.* Two overlapping matches leave each anomaly twice. `match` and
  `confirm` (or an analysis) take their rows in opposite orders and may
  deadlock. Two order lines with one reference are paired greedily and may give
  gaps where an exchange would give none. A cancelled order never reaches the
  cache, so the guard of `matching_service.py:315` cannot fire after a
  synchronisation.
- *Accounts.* `change-password` says it revokes the other sessions
  (`routes/auth.py:101`) and revokes all, the caller's included. Registration
  takes the role from the payload. Two first registrations, or two refreshes of
  one token, may both succeed.
- *Browser.* A refresh refused by the rate limiter, or lost by the network, ends
  the session; parallel tabs end it for each other. The response leaves before
  the commit, so a token may be presented before it exists.
- *Page.* One failed poll stops the polling silently, and leaves the button
  disabled if it was the first; an older answer replaces a verdict; the page
  reloads when an analysis is accepted, not when it ends, and does not watch it.
- *Rate limiter.* The clock is read outside the lock; a limit of zero raises
  `IndexError`; the counters are lost on a restart.
- *Extraction.* A number with three decimals is read as thousands ("0.500" is
  500). The comment on the pattern of amounts (`cleaners.py:39`) says that it
  leaves out dates like 15/01/2026; it leaves out those with dots and dashes, and
  reads 2026 in the others, so that "livraison 15/01/2026" names a shipping cost of
  2026 (`RowIsRead` states it). "Rabais" is a label of the discount (`extractor.py`) but no total for
  `lines.py`, which reads it as an item. `confidence.py:4-5` announces the rule of
  the extractor and takes the first row with a label, whether or not it has a
  value. A row "Commande n°" before the invoice's number gives its own number. A
  page that mentions a delivery note is dropped as an annex.

## 7. Plan

The components of section 1 are modelled, and the safety properties of their runs
are proved but for one. What would come next, in this order:

1. `ValueAfterLabel`, `ExtractSupplier` and `ParseLines` over any rows: each field
   from the first place that has it, each line from a row that is no total.
2. The safety half of liveness: what `WritersProceed` and `DepositsEnd` rest on (a
   waiting call waits for an open one, and no circle but those PostgreSQL breaks).
3. `ValidationService.correct` as a third writer of lines in `InvoiceMatching`.
