---------------------------- MODULE BrowserSession ----------------------------
(***************************************************************************)
(* The session of one browser, whose tabs share localStorage, beside the   *)
(* other callers of the server: api-client.ts, auth.tsx and tokens.ts.  A  *)
(* tab whose access token is refused exchanges the refresh token it then   *)
(* finds in the storage, and stores or clears what all the tabs share when *)
(* the answer comes.  An access token may be refused at any time.          *)
(***************************************************************************)
EXTENDS AuthSessions

VARIABLES
  stored,     \* the refresh token in localStorage
  waiting,    \* calls whose answer a tab awaits
  starting,   \* refreshes made by a page that loads (AuthProvider)
  clearing,   \* such pages, refused, that are about to clear the storage
  lost,       \* calls whose answer never came
  answered,   \* history: the answers that had come when a call was sent
  emptied     \* history: refreshes whose end took the tokens away

bvars == <<stored, waiting, starting, clearing, lost, answered, emptied>>
vars  == <<avars, bvars>>

Init ==
  /\ AInit
  /\ stored = IF Origin \in DOMAIN tokens THEN Origin ELSE NoToken
  /\ waiting = {} /\ starting = {} /\ clearing = {} /\ lost = {} /\ emptied = {}
  /\ answered = [c \in Calls |-> {}]

Sent == {d \in Calls : pc[d] # "idle" /\ request[d].op \in {"refresh", "logout", "login"}}

Await(c) ==
  /\ waiting' = waiting \cup {c}
  /\ answered' = [answered EXCEPT ![c] = {d \in Sent : d \notin waiting}]
  /\ UNCHANGED <<stored, clearing, lost, emptied>>

(* request and fetchFile, met with a 401.  The storage is read when the    *)
(* refresh leaves, whatever other tab is refreshing.                       *)
TryRefresh(c) ==
  /\ stored # NoToken
  /\ Send(c, "refresh", stored) /\ Await(c)
  /\ starting' \in {starting, starting \cup {c}}

Login(c, u) ==
  /\ LoginOpen(c, u) /\ Await(c) /\ UNCHANGED starting

Logout(c) ==
  /\ stored # NoToken
  /\ Send(c, "logout", stored) /\ Await(c) /\ UNCHANGED starting

(* The answer leaves when the handler returns, and the commit follows.     *)
Granted(c) ==
  pc[c] \in IF request[c].op = "refresh" THEN {"flushed", "done"} ELSE {"open", "done"}

(* setTokens and clearTokens, by call c.                                   *)
Store(t) == stored' = t /\ UNCHANGED emptied
Clear(c) ==
  /\ stored' = NoToken
  /\ emptied' = IF stored = NoToken THEN emptied ELSE emptied \cup {c}

(* A page that loads clears the storage when its call stays refused.       *)
ThenClear(c, refused) ==
  clearing' = IF refused /\ c \in starting THEN clearing \cup {c} ELSE clearing

Stop(c) == waiting' = waiting \ {c} /\ UNCHANGED <<avars, starting, answered>>

RefreshGranted_OldKept(c) ==
  /\ c \in waiting /\ request[c].op = "refresh" /\ Granted(c)
  /\ UNCHANGED <<stored, emptied>>
  /\ ThenClear(c, ~Active(tokens[request[c].token].user))
  /\ Stop(c) /\ UNCHANGED lost

RefreshGranted(c) ==
  /\ c \in waiting /\ request[c].op = "refresh" /\ Granted(c)
  /\ Store(c)
  /\ ThenClear(c, ~Active(tokens[request[c].token].user))
  /\ Stop(c) /\ UNCHANGED lost

(* Refused, failed, or never answered: the tokens go, all the same.        *)
RefreshDenied(c) ==
  /\ c \in waiting /\ request[c].op = "refresh"
  /\ \/ pc[c] \in {"refused", "failed"} /\ UNCHANGED lost
     \/ lost' = lost \cup {c}
  /\ Clear(c)
  /\ ThenClear(c, TRUE)
  /\ Stop(c)

ClearAgain(c) ==
  /\ c \in clearing
  /\ Clear(c)
  /\ clearing' = clearing \ {c}
  /\ UNCHANGED <<avars, waiting, starting, lost, answered>>

LoginAnswered(c) ==
  /\ c \in waiting /\ request[c].op = "login"
  /\ \/ Granted(c) /\ Store(c) /\ UNCHANGED lost
     \/ pc[c] = "failed" /\ UNCHANGED <<stored, emptied, lost>>
     \/ lost' = lost \cup {c} /\ UNCHANGED <<stored, emptied>>
  /\ Stop(c) /\ UNCHANGED clearing

(* api.logout swallows every error, and AuthProvider then takes the tokens *)
(* away whatever has come of the call.                                     *)
LogoutAnswered(c) ==
  /\ c \in waiting /\ request[c].op = "logout"
  /\ \/ (Granted(c) \/ pc[c] = "failed") /\ UNCHANGED lost
     \/ lost' = lost \cup {c}
  /\ Store(NoToken)
  /\ Stop(c) /\ UNCHANGED clearing

BrowserStep(c) ==
  \/ TryRefresh(c) \/ Logout(c)
  \/ \E u \in Users : Login(c, u)
  \/ RefreshGranted(c) \/ RefreshDenied(c) \/ ClearAgain(c)
  \/ LoginAnswered(c) \/ LogoutAnswered(c)

Next ==
  \E c \in Calls :
    \/ BrowserStep(c)
    \/ (AccountStep(c) \/ SessionStep(c)) /\ UNCHANGED bvars

Spec == Init /\ [][Next]_vars

(***************************************************************************)
(* Properties.                                                             *)
(***************************************************************************)
(* What may end the session of a browser beside its user: an answer lost,  *)
(* a call that failed, an account shut out or made inactive, two calls of  *)
(* the browser that presented one token and were awaited together, or a    *)
(* token whose call had answered, and failed or had still to commit.       *)
Faulty(c) == c \in lost \/ pc[c] = "failed"

ShutOutMeanwhile(c) ==
  LET t == request[c].token
  IN t \in DOMAIN tokens /\ \E d \in Calls :
       /\ pc[d] # "idle" /\ request[d].op \in ShutOuts \cup {"activate"}
       /\ request[d].user = tokens[t].user

Raced(c) ==
  \E d \in Calls \ {c} :
    /\ pc[d] # "idle" /\ request[d].op \in {"refresh", "logout"}
    /\ request[d].token = request[c].token
    /\ c \notin answered[d] /\ d \notin answered[c]

Hurried(c) ==
  LET t == request[c].token IN t \in Calls /\ (t \notin before[c] \/ pc[t] = "failed")

Explained(c) == Faulty(c) \/ Raced(c) \/ ShutOutMeanwhile(c) \/ Hurried(c)

(* The comment of tryRefresh promises a transparent refresh: a session     *)
(* disappears only for one of the reasons above.  And once a logout is no  *)
(* longer awaited, answered, failed or lost, the storage holds none of the *)
(* tokens whose call had been answered when it left, whatever refreshes    *)
(* and logins of other tabs were under way.                                *)
SessionKept ==
  /\ \A c \in emptied : Explained(c)
  /\ \A d \in Calls :
       pc[d] # "idle" /\ request[d].op = "logout" /\ d \notin waiting =>
         stored \notin answered[d] \cup {Origin}

=============================================================================
