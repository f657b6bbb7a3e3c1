----------------------------- MODULE InvoicePage -----------------------------
(***************************************************************************)
(* The OCR page of one invoice in a browser: what it loads, the analyses   *)
(* it asks for, and the polling of their tasks.  Polls are sent every two  *)
(* seconds without waiting for the earlier ones, so that their answers may *)
(* arrive in any order, or not at all.  Of the server it keeps what the    *)
(* calls of the page see: InvoiceLifecycle has the rest.                   *)
(***************************************************************************)
EXTENDS InvoiceStatus, Integers, FiniteSets

CONSTANTS
  Tasks,      \* the analyses the user asks for, each with its task
  NoTask,     \* no task
  MaxPolls    \* bound of the polls sent

VARIABLES
  status,     \* invoices.status
  task,       \* tasks.state
  analysed,   \* tasks whose transaction committed
  view,       \* what useAsyncData is doing, or shows
  seen,       \* the status in the page's copy of the invoice
  call,       \* the POST that asks for each analysis
  live,       \* calls whose panel is still mounted
  watched,    \* retryTaskId
  timer,      \* whether setInterval runs for it
  shown,      \* the task the panel displays
  polls,      \* GETs of a task under way
  sent,       \* how many were sent
  turns,      \* history: polls the server has served
  latest,     \* history: the last served among those the page received
  upset       \* history: what happened that may mislead the page

serverVars == <<status, task, analysed>>
panelVars  == <<live, watched, timer, shown, polls, sent, turns, latest>>
pvars      == <<serverVars, view, seen, call, panelVars, upset>>

Settled == {"SUCCEEDED", "FAILED"}

(* The absence of a task is neither a task nor what the page shows of one. *)
ASSUME PageAssumption ==
  NoTask \notin Tasks \cup [task : Tasks, state : TaskState \cup {"none"}]

Poll(n, t, first) == [n |-> n, task |-> t, first |-> first, state |-> "none", turn |-> 0]

(* At rest: the panel is displayed and awaits nothing.                     *)
Resting ==
  /\ view = "panel" /\ ~timer /\ polls = {}
  /\ \A t \in Tasks : call[t].at \in {"idle", "done"}

PInit ==
  /\ status \in Analysable
  /\ task = [t \in Tasks |-> "none"]
  /\ analysed = {}
  /\ view = "asked" /\ seen = "SUBMITTED"
  /\ call = [t \in Tasks |-> [at |-> "idle", op |-> "none"]]
  /\ live = {} /\ watched = NoTask /\ timer = FALSE /\ shown = NoTask
  /\ polls = {} /\ sent = 0 /\ turns = 0 /\ latest = 0
  /\ upset = {}

(***************************************************************************)
(* The server.                                                             *)
(***************************************************************************)
JobStarts(t) ==
  /\ task[t] = "PENDING"
  /\ task' = [task EXCEPT ![t] = "RUNNING"]
  /\ UNCHANGED <<status, analysed, view, seen, call, panelVars, upset>>

Analyse(t) ==
  /\ task[t] = "RUNNING" /\ t \notin analysed
  /\ status \in Analysable
  /\ status' \in {"TO_REVIEW", "SYSTEM_ERROR"}
  /\ analysed' = analysed \cup {t}
  /\ UNCHANGED <<task, view, seen, call, panelVars, upset>>

JobSucceeds(t) ==
  /\ task[t] = "RUNNING" /\ t \in analysed
  /\ task' = [task EXCEPT ![t] = "SUCCEEDED"]
  /\ UNCHANGED <<status, analysed, view, seen, call, panelVars, upset>>

(* A job that was refused, raised, or could not write its success.         *)
JobFails(t) ==
  /\ task[t] = "RUNNING"
  /\ task' = [task EXCEPT ![t] = "FAILED"]
  /\ upset' = IF t \in analysed THEN upset \cup {"untold"} ELSE upset
  /\ UNCHANGED <<status, analysed, view, seen, call, panelVars>>

(* POST /process refuses an invoice under analysis, which no transaction   *)
(* ever shows; POST /retry one that is not in error.                       *)
Accepted(t) == call[t].op = "process" \/ status = "SYSTEM_ERROR"

CallServed(t) ==
  /\ call[t].at = "sent"
  /\ call' = [call EXCEPT ![t].at = IF Accepted(t) THEN "accepted" ELSE "refused"]
  /\ task' = IF Accepted(t) THEN [task EXCEPT ![t] = "PENDING"] ELSE task
  /\ UNCHANGED <<status, analysed, view, seen, panelVars, upset>>

LoadServed ==
  /\ view = "asked"
  /\ view' = "answered" /\ seen' = status
  /\ UNCHANGED <<serverVars, call, panelVars, upset>>

PollServed(p) ==
  /\ p.state = "none"
  /\ turns' = turns + 1
  /\ polls' = (polls \ {p}) \cup {[p EXCEPT !.state = task[p.task], !.turn = turns + 1]}
  /\ UNCHANGED <<serverVars, view, seen, call, live, watched, timer, shown, sent, latest, upset>>

(***************************************************************************)
(* The page.                                                               *)
(***************************************************************************)
LoadEnds ==
  /\ view = "answered" /\ view' = "panel"
  /\ UNCHANGED <<serverVars, seen, call, panelVars, upset>>

LoadFails ==
  /\ view \in {"asked", "answered"} /\ view' = "error"
  /\ upset' = upset \cup {"failure"}
  /\ UNCHANGED <<serverVars, seen, call, panelVars>>

(* Reloading shows a spinner in place of the panel, which loses its state: *)
(* answers still to come find no one.                                      *)
Reload ==
  /\ view' = "asked"
  /\ live' = {} /\ watched' = NoTask /\ timer' = FALSE /\ shown' = NoTask /\ polls' = {}

(* One button or the other, by the status on the page.  "Lancer" is        *)
(* disabled during its call, "Réanalyser" until the first answer of a poll.*)
Click(t) ==
  /\ view = "panel" /\ seen \in Analysable
  /\ call[t].at = "idle"
  /\ IF seen = "SUBMITTED" THEN live = {} ELSE watched = NoTask \/ shown # NoTask
  /\ call' = [call EXCEPT ![t] = [at |-> "sent",
                                  op |-> IF seen = "SUBMITTED" THEN "process" ELSE "retry"]]
  /\ live' = live \cup {t}
  /\ upset' = IF Resting THEN upset ELSE upset \cup {"overlap"}
  /\ UNCHANGED <<serverVars, view, seen, watched, timer, shown, polls, sent, turns, latest>>

(* The task of a retry is watched, from a first poll on; that of a first   *)
(* analysis is not, and the page reloads at once.                          *)
CallEnds(t) ==
  /\ call[t].at \in {"accepted", "refused"}
  /\ call' = [call EXCEPT ![t].at = "done"]
  /\ \/ /\ t \notin live \/ call[t].at = "refused"
        /\ live' = live \ {t}
        /\ UNCHANGED <<view, watched, timer, shown, polls, sent, upset>>
     \/ /\ t \in live /\ call[t].at = "accepted" /\ call[t].op = "retry"
        /\ live' = live \ {t}
        /\ watched' = t /\ timer' = FALSE
        /\ polls' = polls \cup {Poll(sent + 1, t, TRUE)} /\ sent' = sent + 1
        /\ UNCHANGED <<view, shown, upset>>
     \/ /\ t \in live /\ call[t].at = "accepted" /\ call[t].op = "process"
        /\ Reload
        /\ upset' = upset \cup {"unwatched"}
        /\ UNCHANGED sent
  /\ UNCHANGED <<serverVars, seen, turns, latest>>

CallFails(t) ==
  /\ call[t].at \in {"sent", "accepted", "refused"}
  /\ call' = [call EXCEPT ![t].at = "done"]
  /\ live' = live \ {t}
  /\ upset' = upset \cup {"failure"}
  /\ UNCHANGED <<serverVars, view, seen, watched, timer, shown, polls, sent, turns, latest>>

NextPoll ==
  /\ timer /\ sent < MaxPolls
  /\ polls' = polls \cup {Poll(sent + 1, watched, FALSE)} /\ sent' = sent + 1
  /\ UNCHANGED <<serverVars, view, seen, call, live, watched, timer, shown, turns, latest, upset>>

(* A plausible defect: the polling goes on only while the task runs, and   *)
(* one that still waits for a thread is taken for settled.                 *)
Continues_OnlyRunning(p) ==
  /\ p.state = "RUNNING"
  /\ p.first \/ timer

(* Whether the timer runs after the answer p about the watched task.       *)
Continues(p) ==
  /\ p.state \notin Settled
  /\ p.first \/ timer

(* Every answer is displayed, even one that is older than what is shown or *)
(* about another task; a success reloads the invoice.                      *)
PollEnds(p) ==
  /\ p.state # "none"
  /\ latest' = IF p.turn > latest THEN p.turn ELSE latest
  /\ upset' = IF p.turn < latest \/ p.task # watched THEN upset \cup {"late"} ELSE upset
  /\ \/ p.state = "SUCCEEDED" /\ Reload
     \/ /\ p.state # "SUCCEEDED"
        /\ shown' = [task |-> p.task, state |-> p.state]
        /\ timer' = IF p.task = watched THEN Continues(p) ELSE timer
        /\ polls' = polls \ {p}
        /\ UNCHANGED <<view, live, watched>>
  /\ UNCHANGED <<serverVars, seen, call, sent, turns>>

(* One failure ends the polling of its task for good.                      *)
PollFails(p) ==
  /\ polls' = polls \ {p}
  /\ timer' = (timer /\ p.task # watched)
  /\ upset' = upset \cup {"failure"}
  /\ UNCHANGED <<serverVars, view, seen, call, live, watched, shown, sent, turns, latest>>

PNext ==
  \/ \E t \in Tasks :
       \/ JobStarts(t) \/ Analyse(t) \/ JobSucceeds(t) \/ JobFails(t)
       \/ Click(t) \/ CallServed(t) \/ CallEnds(t) \/ CallFails(t)
  \/ LoadServed \/ LoadEnds \/ LoadFails \/ NextPoll
  \/ \E p \in polls : PollServed(p) \/ PollEnds(p) \/ PollFails(p)

PSpec == PInit /\ [][PNext]_pvars

(***************************************************************************)
(* Properties.                                                             *)
(***************************************************************************)
(* A page at rest tells the end of the story: the analyses it asked for    *)
(* are over, its invoice is as the server's, and a task it still displays  *)
(* is the last asked for, with its final state.  Excepted are pages that   *)
(* met a failure (the polling stops silently), an answer overtaken by a    *)
(* later one (it is displayed), a retry asked during another, a first      *)
(* analysis (not watched) or a task whose success was not written.  About  *)
(* useTaskPolling, OcrPanel and useAsyncData.                              *)
RestingPageTellsTheEnd ==
  Resting /\ upset = {} =>
    /\ seen = status
    /\ \A t \in Tasks : task[t] \in {"none"} \cup Settled
    /\ watched # NoTask => shown = [task |-> watched, state |-> task[watched]]
=============================================================================
