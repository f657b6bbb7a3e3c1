--------------------------- MODULE Sessions_proofs ---------------------------
(***************************************************************************)
(* Theorems about what a user meets before and around the invoices:        *)
(*  - accounts and refresh tokens, for any number of calls and users: what *)
(*    a rotation, a shut-out and the registrations guarantee whatever      *)
(*    overlaps with them, of the server alone and beside the tabs of a     *)
(*    browser;                                                             *)
(*  - the limiter of log-ins, for any calls, limits and window;            *)
(*  - the page of one invoice, for any number of analyses and of polls.    *)
(***************************************************************************)
EXTENDS BrowserSession, RateLimiter, InvoicePage, FiniteSetTheorems, TLAPS

(* A step of one call on the server.  A browser may send a token whose row *)
(* is not committed yet: any name of a token is allowed here.              *)
ServerStep(c) ==
  \/ AccountStep(c) \/ SessionStep(c)
  \/ \E u \in Users : LoginOpen(c, u)
  \/ \E op \in {"refresh", "logout"} : \E t : Send(c, op, t)

ServerNext == (\E c \in Calls : ServerStep(c)) \/ UNCHANGED avars

LEMMA ServerMoves == [ANext]_avars => ServerNext
  BY DEF ANext, ServerNext, ServerStep

LEMMA BrowserMoves == [Next]_vars => ServerNext
<1>1. ASSUME NEW c \in Calls, BrowserStep(c) PROVE ServerNext
  BY <1>1 DEF BrowserStep, TryRefresh, Logout, Login, RefreshGranted, RefreshDenied, ClearAgain,
              LoginAnswered, LogoutAnswered, Stop, ServerNext, ServerStep
<1>2. ASSUME NEW c \in Calls, AccountStep(c) \/ SessionStep(c) PROVE ServerNext
  BY <1>2 DEF ServerNext, ServerStep
<1>3. CASE UNCHANGED vars
  BY <1>3 DEF vars, ServerNext
<1> QED
  BY <1>1, <1>2, <1>3 DEF Next

-----------------------------------------------------------------------------
(* Types.                                                                  *)
Phases == {"idle", "sent", "open", "revoking", "flushed", "done", "refused", "failed"}

AuthTypes ==
  /\ accounts \in [Users -> Account \cup {NoAccount}]
  /\ DOMAIN tokens \subseteq Names /\ tokens \in [DOMAIN tokens -> Token]
  /\ pc \in [Calls -> Phases]
  /\ request = [c \in Calls |-> request[c]]
  /\ held \in [Calls -> SUBSET Names]
  /\ before \in [Calls -> SUBSET Calls]

ShutOutRequest == [op : ShutOuts, user : Users, was : BOOLEAN, rows : SUBSET Names]

Creations == {"register", "create", "script"}

(* What a call has been asked, and what it has found to be so.             *)
Asked(c) ==
  LET r == request[c] IN
  /\ r.op \in Creations => r.user \in Users /\ r.active \in BOOLEAN /\ r.role \in Roles
  /\ r.op \in {"activate", "role"} => r.user \in Users /\ Known(r.user)
  /\ r.op = "activate" => r.active \in BOOLEAN
  /\ r.op = "role" => r.role \in Roles
  /\ r.op \in ShutOuts => r \in ShutOutRequest /\ Known(r.user)
  /\ pc[c] = "revoking" => r.op \in ShutOuts
  /\ r.op = "login" => r.user \in Users
  /\ r.op = "refresh" /\ pc[c] \in {"open", "flushed"} => r.token \in DOMAIN tokens
  /\ r.op = "refresh" /\ pc[c] = "flushed" => held[c] = {r.token}

(* The calls that a call remembers as ended have ended, and a token is     *)
(* committed when the call that issued it is done.                         *)
History ==
  /\ \A c \in Calls : before[c] \subseteq Ended
  /\ \A t \in DOMAIN tokens : t \in Calls => pc[t] = "done"

AuthBase == AuthTypes /\ (\A c \in Calls : pc[c] # "idle" => Asked(c)) /\ History

(* A step moves one call, which has not ended.                             *)
LEMMA StepFrame ==
  ASSUME AuthTypes, NEW c \in Calls, ServerStep(c)
  PROVE  /\ pc[c] \in {"idle", "sent", "open", "revoking", "flushed"} /\ pc'[c] \in Phases \ {"idle"}
         /\ \A d \in Calls \ {c} : /\ pc'[d] = pc[d] /\ request'[d] = request[d]
                                   /\ held'[d] = held[d] /\ before'[d] = before[d]
         /\ pc' \in [Calls -> Phases] /\ request' = [d \in Calls |-> request'[d]]
<1> USE DEF AuthTypes, Phases
<1>1. CASE AccountStep(c)
  BY <1>1 DEF AccountStep, RegisterOpen, CreateOpen, CliCreateOpen, UpdateOpen, DeactivateOpen, PasswordOpen,
       CliPasswordOpen, CreateCommit, UpdateCommit, RevokeAll, RevokeDone, ShutOutCommit, Begin, Go, End
<1>2. CASE SessionStep(c)
  BY <1>2 DEF SessionStep, RefreshOpen, RefreshRefused, RefreshLimited, RefreshFlush, RefreshCommit, LogoutOpen,
       LogoutCommit, LoginCommit, Abort, Go, End
<1>3. CASE (\E u \in Users : LoginOpen(c, u)) \/ \E op \in {"refresh", "logout"} : \E t : Send(c, op, t)
  BY <1>3 DEF LoginOpen, Send, Begin
<1> QED
  BY <1>1, <1>2, <1>3 DEF ServerStep

(* A call begins with what it has found when it opens...                   *)
Begins(c) ==
  /\ pc[c] = "idle" /\ pc'[c] \in {"open", "sent"} /\ before'[c] = Ended
  /\ accounts' = accounts /\ tokens' = tokens /\ held' = held

(* ... or goes on, and remembers the same.                                 *)
GoesOn(c) == pc[c] # "idle" /\ before' = before

LEMMA BeginsOrGoesOn ==
  ASSUME AuthTypes, NEW c \in Calls, ServerStep(c)
  PROVE  Begins(c) \/ GoesOn(c)
<1> USE DEF AuthTypes, Begins, GoesOn
<1>1. CASE AccountStep(c)
  BY <1>1 DEF AccountStep, RegisterOpen, CreateOpen, CliCreateOpen, UpdateOpen, DeactivateOpen, PasswordOpen,
       CliPasswordOpen, CreateCommit, UpdateCommit, RevokeAll, RevokeDone, ShutOutCommit, Begin, Go, End
<1>2. CASE SessionStep(c)
  BY <1>2 DEF SessionStep, RefreshOpen, RefreshRefused, RefreshLimited, RefreshFlush, RefreshCommit, LogoutOpen,
       LogoutCommit, LoginCommit, Abort, Go, End
<1>3. CASE (\E u \in Users : LoginOpen(c, u)) \/ \E op \in {"refresh", "logout"} : \E t : Send(c, op, t)
  BY <1>3 DEF LoginOpen, Send, Begin
<1> QED
  BY <1>1, <1>2, <1>3 DEF ServerStep

(* The two writes of the token table.                                      *)
Issued(c, u, p, W) ==
  /\ DOMAIN tokens' = DOMAIN tokens \cup {c} /\ tokens' \in [DOMAIN tokens' -> Token]
  /\ tokens'[c].parent = p /\ tokens'[c].user = u /\ tokens'[c].revoked = FALSE
  /\ \A t \in DOMAIN tokens :
       /\ tokens'[t].user = tokens[t].user /\ tokens'[t].parent = tokens[t].parent
       /\ tokens'[t].revoked <=> (tokens[t].revoked \/ t \in W)

LEMMA IssueEffect ==
  ASSUME AuthTypes, NEW c \in Calls, c \notin DOMAIN tokens, NEW u \in Users,
         NEW p \in Names \cup {NoToken}, NEW W, Issue(c, u, p, W)
  PROVE  Issued(c, u, p, W)
<1>1. \A t \in DOMAIN tokens : tokens[t] \in Token
  BY DEF AuthTypes
<1>2. tokens' = [t \in DOMAIN tokens \cup {c} |->
                   IF t = c THEN [user |-> u, parent |-> p, revoked |-> FALSE]
                   ELSE [tokens[t] EXCEPT !.revoked = tokens[t].revoked \/ t \in W]]
  BY DEF Issue
<1>3. [user |-> u, parent |-> p, revoked |-> FALSE] \in Token
  BY DEF Token
<1>4. DOMAIN tokens' = DOMAIN tokens \cup {c} /\ tokens'[c] = [user |-> u, parent |-> p, revoked |-> FALSE]
  BY <1>2
<1>5. \A t \in DOMAIN tokens :
        tokens'[t] = [tokens[t] EXCEPT !.revoked = tokens[t].revoked \/ t \in W]
  BY <1>2
<1>6. ASSUME NEW t \in DOMAIN tokens
      PROVE  /\ tokens'[t] \in Token
             /\ tokens'[t].user = tokens[t].user /\ tokens'[t].parent = tokens[t].parent
             /\ tokens'[t].revoked <=> (tokens[t].revoked \/ t \in W)
  <2>1. tokens[t] \in Token /\ tokens'[t] = [tokens[t] EXCEPT !.revoked = tokens[t].revoked \/ t \in W]
    BY <1>1, <1>5
  <2>2. tokens'[t].revoked <=> (tokens[t].revoked \/ t \in W)
    BY <2>1 DEF Token
  <2> QED
    BY <2>1, <2>2 DEF Token
<1>7. /\ tokens'[c].parent = p /\ tokens'[c].user = u /\ tokens'[c].revoked = FALSE
      /\ tokens' \in [DOMAIN tokens' -> Token]
  BY <1>2, <1>3, <1>4, <1>6
<1> QED
  BY <1>4, <1>6, <1>7 DEF Issued

LEMMA RevokeEffect ==
  ASSUME AuthTypes, NEW W, Revoke(W)
  PROVE  /\ DOMAIN tokens' = DOMAIN tokens /\ tokens' \in [DOMAIN tokens' -> Token]
         /\ \A t \in DOMAIN tokens :
              /\ tokens'[t].user = tokens[t].user /\ tokens'[t].parent = tokens[t].parent
              /\ tokens'[t].revoked <=> (tokens[t].revoked \/ t \in W)
<1>1. \A t \in DOMAIN tokens : tokens[t] \in Token
  BY DEF AuthTypes
<1>2. tokens' = [t \in DOMAIN tokens |-> [tokens[t] EXCEPT !.revoked = tokens[t].revoked \/ t \in W]]
  BY DEF Revoke
<1>3. \A t \in DOMAIN tokens :
        /\ tokens'[t] \in Token
        /\ tokens'[t].user = tokens[t].user /\ tokens'[t].parent = tokens[t].parent
        /\ tokens'[t].revoked <=> (tokens[t].revoked \/ t \in W)
  BY <1>1, <1>2 DEF Token
<1> QED
  BY <1>2, <1>3

(* The token table only grows: a row keeps its user and its parent, and    *)
(* once revoked stays so.  The call that adds a row ends with it, and the  *)
(* row it was exchanged for is revoked at the same commit.                 *)
TokensGrow ==
  /\ DOMAIN tokens \subseteq DOMAIN tokens'
  /\ \A t \in DOMAIN tokens :
       /\ tokens'[t].user = tokens[t].user /\ tokens'[t].parent = tokens[t].parent
       /\ tokens[t].revoked => tokens'[t].revoked

NewToken(c) ==
  \A t \in DOMAIN tokens' \ DOMAIN tokens :
    /\ t = c /\ pc[c] \in {"open", "flushed"} /\ pc'[c] = "done" /\ request'[c] = request[c]
    /\ ~tokens'[t].revoked
    /\ \/ /\ tokens'[t].parent = NoToken
          /\ request[c].op \in Creations \cup {"login"} /\ tokens'[t].user = request[c].user
       \/ /\ request[c].op = "refresh" /\ pc[c] = "flushed" /\ tokens'[t].parent = request[c].token
          /\ request[c].token \in DOMAIN tokens /\ tokens'[request[c].token].revoked
          /\ tokens'[t].user = tokens[request[c].token].user

LEMMA TokensStep ==
  ASSUME AuthBase, NEW c \in Calls, ServerStep(c)
  PROVE  /\ TokensGrow /\ NewToken(c)
         /\ DOMAIN tokens' \subseteq Names /\ tokens' \in [DOMAIN tokens' -> Token]
<1> USE DEF AuthBase, TokensGrow, NewToken, Creations
<1>1. pc[c] \in {"open", "flushed"} => c \notin DOMAIN tokens
  BY DEF History
<1>2. DOMAIN tokens \subseteq Names /\ c \in Names
  BY DEF AuthTypes, Names
<1>3. CASE tokens' = tokens
  BY <1>3 DEF AuthTypes
<1>4. CASE (CreateCommit(c) /\ tokens' # tokens) \/ LoginCommit(c)
  <2>1. /\ pc[c] = "open" /\ pc'[c] = "done" /\ request' = request /\ request[c].user \in Users
        /\ Issue(c, request[c].user, NoToken, {}) /\ request[c].op \in Creations \cup {"login"}
    BY <1>4 DEF CreateCommit, LoginCommit, End, Go, AuthTypes, Asked
  <2>2. AuthTypes /\ c \notin DOMAIN tokens /\ NoToken \in Names \cup {NoToken}
    BY <1>1, <2>1
  <2> HIDE DEF AuthBase
  <2>3. Issued(c, request[c].user, NoToken, {})
    BY <2>1, <2>2, IssueEffect
  <2> QED
    BY <1>2, <2>1, <2>2, <2>3 DEF Issued
<1>5. CASE RefreshCommit(c)
  <2> DEFINE p == request[c].token
  <2>1. /\ pc[c] = "flushed" /\ pc'[c] = "done" /\ request' = request /\ request[c].op = "refresh"
        /\ p \in DOMAIN tokens /\ held[c] = {p}
        /\ Issue(c, tokens[p].user, p, held[c])
    BY <1>5 DEF RefreshCommit, End, Go, AuthTypes, Asked
  <2>2. /\ AuthTypes /\ c \notin DOMAIN tokens
        /\ tokens[p].user \in Users /\ p \in Names \cup {NoToken}
    BY <1>1, <1>2, <2>1 DEF AuthTypes, Token
  <2> HIDE DEF AuthBase
  <2>3. Issued(c, tokens[p].user, p, held[c])
    BY <2>1, <2>2, IssueEffect
  <2> QED
    BY <1>2, <2>1, <2>2, <2>3 DEF Issued
<1>6. CASE ShutOutCommit(c) \/ LogoutCommit(c)
  <2>1. PICK W : Revoke(W)
    BY <1>6 DEF ShutOutCommit, LogoutCommit
  <2>2. DOMAIN tokens' = DOMAIN tokens /\ tokens' \in [DOMAIN tokens' -> Token]
        /\ \A t \in DOMAIN tokens :
             /\ tokens'[t].user = tokens[t].user /\ tokens'[t].parent = tokens[t].parent
             /\ tokens[t].revoked => tokens'[t].revoked
    BY <2>1, RevokeEffect
  <2> QED
    BY <1>2, <2>2
<1>7. \/ tokens' = tokens \/ CreateCommit(c) \/ LoginCommit(c) \/ RefreshCommit(c)
      \/ ShutOutCommit(c) \/ LogoutCommit(c)
  BY DEF ServerStep, AccountStep, RegisterOpen, CreateOpen, CliCreateOpen, UpdateOpen, DeactivateOpen, PasswordOpen,
       CliPasswordOpen, UpdateCommit, RevokeAll, RevokeDone, Begin, Go, End,
       SessionStep, RefreshOpen, RefreshRefused, RefreshLimited, RefreshFlush, LogoutOpen,
       Abort, LoginOpen, Send
<1> QED
  BY <1>3, <1>4, <1>5, <1>6, <1>7

(* Accounts are never deleted.                                             *)
AccountsKept == \A u \in Users : Known(u) => Known(u)'

LEMMA AccountsStep ==
  ASSUME AuthBase, NEW c \in Calls, ServerStep(c)
  PROVE  AccountsKept /\ accounts' \in [Users -> Account \cup {NoAccount}]
<1> USE DEF AuthBase, AccountsKept, Known
<1>1. accounts \in [Users -> Account \cup {NoAccount}] /\ NoAccount \notin Account
  BY AuthAssumption DEF AuthTypes
<1>2. CASE accounts' = accounts
  BY <1>1, <1>2
<1>3. CASE CreateCommit(c) /\ accounts' # accounts
  <2> DEFINE r == request[c]
  <2>1. /\ pc[c] = "open" /\ r.op \in Creations /\ accounts[r.user] = NoAccount
        /\ accounts' = [accounts EXCEPT ![r.user] = [active |-> r.active, role |-> r.role]]
    BY <1>3 DEF CreateCommit, Creations
  <2>2. r.user \in Users /\ [active |-> r.active, role |-> r.role] \in Account
    BY <2>1 DEF Asked, Account
  <2> QED
    BY <1>1, <2>1, <2>2
<1>4. ASSUME NEW u \in Users, Known(u), NEW b \in Account, accounts' = [accounts EXCEPT ![u] = b]
      PROVE  AccountsKept /\ accounts' \in [Users -> Account \cup {NoAccount}]
  BY <1>1, <1>4
<1>5. ASSUME NEW u \in Users, Known(u), NEW x \in BOOLEAN
      PROVE  [accounts[u] EXCEPT !.active = x] \in Account
  BY <1>1, <1>5 DEF Account
<1>6. ASSUME NEW u \in Users, Known(u), NEW x \in Roles
      PROVE  [accounts[u] EXCEPT !.role = x] \in Account
  BY <1>1, <1>6 DEF Account
<1>7. CASE UpdateCommit(c)
  <2> DEFINE r == request[c]
  <2>1. pc[c] = "open" /\ r.user \in Users /\ Known(r.user)
    BY <1>7 DEF UpdateCommit, Asked
  <2>2. CASE r.op = "activate"
    <3>1. accounts' = [accounts EXCEPT ![r.user] = [accounts[r.user] EXCEPT !.active = r.active]]
      BY <1>7, <2>2 DEF UpdateCommit
    <3>2. r.active \in BOOLEAN
      BY <2>1, <2>2 DEF Asked
    <3> QED
      BY <1>4, <1>5, <2>1, <3>1, <3>2
  <2>3. CASE r.op = "role"
    <3>1. accounts' = [accounts EXCEPT ![r.user] = [accounts[r.user] EXCEPT !.role = r.role]]
      BY <1>7, <2>3 DEF UpdateCommit
    <3>2. r.role \in Roles
      BY <2>1, <2>3 DEF Asked
    <3> QED
      BY <1>4, <1>6, <2>1, <3>1, <3>2
  <2> QED
    BY <1>7, <2>2, <2>3 DEF UpdateCommit
<1>8. CASE ShutOutCommit(c) /\ accounts' # accounts
  <2> DEFINE r == request[c]
  <2>1. pc[c] = "flushed" /\ r.user \in Users /\ Known(r.user)
    BY <1>8 DEF ShutOutCommit, Asked, ShutOutRequest
  <2>2. accounts' = [accounts EXCEPT ![r.user] = [accounts[r.user] EXCEPT !.active = FALSE]]
    BY <1>8 DEF ShutOutCommit
  <2> QED
    BY <1>4, <1>5, <2>1, <2>2
<1>9. accounts' = accounts \/ CreateCommit(c) \/ UpdateCommit(c) \/ ShutOutCommit(c)
  BY DEF ServerStep, AccountStep, RegisterOpen, CreateOpen, CliCreateOpen, UpdateOpen, DeactivateOpen, PasswordOpen,
       CliPasswordOpen, RevokeAll, RevokeDone, Begin, Go, End,
       SessionStep, RefreshOpen, RefreshRefused, RefreshLimited, RefreshFlush, RefreshCommit, LogoutOpen, LogoutCommit,
       LoginCommit, Abort, LoginOpen, Send
<1> QED
  BY <1>2, <1>3, <1>7, <1>8, <1>9

LEMMA EndedStays ==
  ASSUME AuthTypes, NEW c \in Calls, ServerStep(c)
  PROVE  Ended \subseteq Ended' /\ c \notin Ended
  BY StepFrame DEF Ended

LEMMA StepHistory ==
  ASSUME AuthBase, NEW c \in Calls, ServerStep(c)
  PROVE  /\ History' /\ before' \in [Calls -> SUBSET Calls]
         /\ \A d \in Calls : before'[d] \subseteq Ended
<1> USE DEF AuthBase
<1>1. Ended \subseteq Calls /\ \A d \in Calls : before[d] \subseteq Ended
  BY DEF Ended, History
<1>2. before' \in [Calls -> SUBSET Calls]
  <2>1. before' = before \/ before' = [before EXCEPT ![c] = Ended]
    BY DEF ServerStep, AccountStep, RegisterOpen, CreateOpen, CliCreateOpen, UpdateOpen, DeactivateOpen, PasswordOpen,
         CliPasswordOpen, CreateCommit, UpdateCommit, RevokeAll, RevokeDone, ShutOutCommit, Begin, Go, End,
         SessionStep, RefreshOpen, RefreshRefused, RefreshLimited, RefreshFlush, RefreshCommit, LogoutOpen,
         LogoutCommit, LoginCommit, Abort, LoginOpen, Send
  <2> QED
    BY <1>1, <2>1 DEF AuthTypes
<1>3. \A d \in Calls : before'[d] \subseteq Ended
  BY <1>1, StepFrame, BeginsOrGoesOn DEF Begins, GoesOn
<1>4. \A t \in DOMAIN tokens' : t \in Calls => pc'[t] = "done"
  <2>1. \A t \in DOMAIN tokens : t \in Calls => pc[t] = "done"
    BY DEF History
  <2> QED
    BY <2>1, TokensStep, StepFrame DEF NewToken
<1> QED
  BY <1>2, <1>3, <1>4, EndedStays DEF History

(* What the other calls have found to be so stays so.                      *)
LEMMA AskedByOthers ==
  ASSUME AuthBase, NEW c \in Calls, ServerStep(c), NEW d \in Calls \ {c}, pc'[d] # "idle"
  PROVE  Asked(d)'
<1>1. pc'[d] = pc[d] /\ request'[d] = request[d] /\ held'[d] = held[d] /\ Asked(d)
  BY StepFrame DEF AuthBase
<1>2. DOMAIN tokens \subseteq DOMAIN tokens' /\ \A u \in Users : Known(u) => Known(u)'
  BY TokensStep, AccountsStep DEF TokensGrow, AccountsKept
<1>3. request[d].op \in ShutOuts => request[d].user \in Users
  BY <1>1 DEF Asked, ShutOutRequest
<1> QED
  BY <1>1, <1>2, <1>3 DEF Asked

LEMMA RevokedRows ==
  ASSUME NEW r \in ShutOutRequest, NEW rows \in SUBSET Names
  PROVE  /\ [r EXCEPT !.rows = rows] \in ShutOutRequest
         /\ [r EXCEPT !.rows = rows].op = r.op /\ [r EXCEPT !.rows = rows].user = r.user
         /\ [r EXCEPT !.rows = rows].was = r.was /\ [r EXCEPT !.rows = rows].rows = rows
  BY DEF ShutOutRequest

(* The call that moves asks for the same, or begins, or lists the live     *)
(* tokens that it is going to revoke.                                      *)
LEMMA RevokeAllEffect ==
  ASSUME AuthBase, NEW c \in Calls, RevokeAll(c)
  PROVE  /\ request'[c] \in ShutOutRequest
         /\ request'[c].op = request[c].op /\ request'[c].user = request[c].user
         /\ request'[c].was = request[c].was /\ request'[c].rows = LiveOf(request[c].user)
<1>1. request[c] \in ShutOutRequest /\ LiveOf(request[c].user) \in SUBSET Names
  BY DEF RevokeAll, AuthBase, Asked, AuthTypes, LiveOf
<1>2. request'[c] = [request[c] EXCEPT !.rows = LiveOf(request[c].user)]
  BY DEF RevokeAll, AuthBase, AuthTypes
<1> QED
  BY <1>1, <1>2, RevokedRows

LEMMA AskedByItself ==
  ASSUME AuthBase, NEW c \in Calls, ServerStep(c)
  PROVE  Asked(c)' /\ held' \in [Calls -> SUBSET Names]
<1> USE DEF AuthBase, AuthTypes, Creations
<1>1. \A u \in Users : Known(u) => Known(u)'
  BY AccountsStep DEF AccountsKept
<1>2. DOMAIN tokens \subseteq DOMAIN tokens' /\ DOMAIN tokens \subseteq Names
  BY TokensStep DEF TokensGrow
<1>3. pc[c] # "idle" => Asked(c)
  OBVIOUS
<1>4. \A u : Known(u)' <=> accounts'[u] # NoAccount
  BY DEF Known
<1>5. held \in [Calls -> SUBSET Names]
  OBVIOUS
<1>6. ASSUME NEW u \in Users, RegisterOpen(c, u) \/ CreateOpen(c, u) \/ CliCreateOpen(c, u)
      PROVE  Asked(c)' /\ held' \in [Calls -> SUBSET Names]
  <2>1. Admin \in Roles
    BY DEF Roles
  <2>2. PICK op \in Creations, active \in BOOLEAN, role \in Roles :
          Begin(c, "open", [op |-> op, user |-> u, active |-> active, role |-> role])
    BY <1>6, <2>1 DEF RegisterOpen, CreateOpen, CliCreateOpen, Creations
  <2>3. /\ request'[c] = [op |-> op, user |-> u, active |-> active, role |-> role]
        /\ held' = held /\ pc'[c] = "open"
    BY <2>2 DEF Begin
  <2> HIDE DEF AuthBase, AuthTypes
  <2> QED
    BY <2>3, <1>5 DEF Asked, ShutOuts
<1>7. ASSUME NEW u \in Users, UpdateOpen(c, u)
      PROVE  Asked(c)' /\ held' \in [Calls -> SUBSET Names]
  <2>1. CASE Begin(c, "open", [op |-> "activate", user |-> u, active |-> ~accounts[u].active])
    <3>1. request'[c] = [op |-> "activate", user |-> u, active |-> ~accounts[u].active]
          /\ held' = held /\ pc'[c] = "open"
      BY <2>1 DEF Begin
    <3>2. (~accounts[u].active) \in BOOLEAN /\ Known(u)'
      BY <1>1, <1>7 DEF UpdateOpen
    <3> HIDE DEF AuthBase, AuthTypes
    <3> QED
      BY <3>1, <3>2, <1>5 DEF Asked, ShutOuts, Known
  <2>2. ASSUME NEW role \in Roles, Begin(c, "open", [op |-> "role", user |-> u, role |-> role])
        PROVE  Asked(c)' /\ held' \in [Calls -> SUBSET Names]
    <3>1. request'[c] = [op |-> "role", user |-> u, role |-> role] /\ held' = held /\ pc'[c] = "open"
      BY <2>2 DEF Begin
    <3>2. Known(u)'
      BY <1>1, <1>7 DEF UpdateOpen
    <3> HIDE DEF AuthBase, AuthTypes
    <3> QED
      BY <3>1, <3>2, <1>5 DEF Asked, ShutOuts, Known
  <2> QED
    BY <1>7, <2>1, <2>2 DEF UpdateOpen
<1>8. ASSUME NEW u \in Users, DeactivateOpen(c, u) \/ PasswordOpen(c, u) \/ CliPasswordOpen(c, u)
      PROVE  Asked(c)' /\ held' \in [Calls -> SUBSET Names]
  <2>1. Known(u)
    BY <1>8 DEF DeactivateOpen, PasswordOpen, CliPasswordOpen, Active
  <2>2. accounts[u].active \in BOOLEAN
    BY <2>1 DEF Known, Account
  <2>3. PICK op \in ShutOuts, was \in BOOLEAN :
          Begin(c, "open", [op |-> op, user |-> u, was |-> was, rows |-> {}])
    BY <1>8, <2>2 DEF DeactivateOpen, PasswordOpen, CliPasswordOpen, ShutOuts
  <2>4. request'[c] = [op |-> op, user |-> u, was |-> was, rows |-> {}] /\ held' = held /\ pc'[c] = "open"
    BY <2>3 DEF Begin
  <2>5. request'[c] \in ShutOutRequest
    BY <2>4 DEF ShutOutRequest
  <2> QED
    BY <1>1, <2>1, <2>4, <2>5 DEF Asked, ShutOuts
<1>9. ASSUME NEW u \in Users, LoginOpen(c, u)
      PROVE  Asked(c)' /\ held' \in [Calls -> SUBSET Names]
  <2>1. request'[c] = [op |-> "login", user |-> u] /\ held' = held /\ pc'[c] = "open"
    BY <1>9 DEF LoginOpen, Begin
  <2> HIDE DEF AuthBase, AuthTypes
  <2> QED
    BY <2>1, <1>5 DEF Asked, ShutOuts
<1>10. ASSUME NEW op \in {"refresh", "logout"}, NEW t, Send(c, op, t)
      PROVE  Asked(c)' /\ held' \in [Calls -> SUBSET Names]
  <2>1. request'[c] = [op |-> op, token |-> t] /\ held' = held /\ pc'[c] = "sent"
    BY <1>10 DEF Send, Begin
  <2> HIDE DEF AuthBase, AuthTypes
  <2> QED
    BY <2>1, <1>5 DEF Asked, ShutOuts
<1>11. CASE RevokeAll(c)
  <2>1. request'[c] \in ShutOutRequest /\ accounts'[request'[c].user] # NoAccount /\ held' = held
    <3>1. Known(request[c].user) /\ request[c].user \in Users
      BY <1>11 DEF RevokeAll, Asked, ShutOutRequest
    <3> QED
      BY <1>1, <1>11, <3>1, RevokeAllEffect DEF RevokeAll, Known
  <2>2. request'[c].op \in ShutOuts
    BY <2>1 DEF ShutOutRequest
  <2> HIDE DEF AuthBase, AuthTypes
  <2> QED
    BY <2>1, <2>2, <1>5 DEF Asked, ShutOuts, ShutOutRequest, Known
<1>12. ASSUME pc[c] # "idle", request' = request,
              request[c].op = "refresh" /\ pc'[c] \in {"open", "flushed"}
                => request[c].token \in DOMAIN tokens,
              pc'[c] # "revoking",
              request[c].op = "refresh" /\ pc'[c] = "flushed" => held'[c] = {request[c].token},
              held' \in [Calls -> SUBSET Names]
       PROVE  Asked(c)' /\ held' \in [Calls -> SUBSET Names]
  <2>1. request[c].op \in ShutOuts => request[c].user \in Users
    BY <1>3, <1>12 DEF Asked, ShutOutRequest
  <2> QED
    BY <1>1, <1>2, <1>3, <1>12, <2>1 DEF Asked
<1>13. CASE \/ CreateCommit(c) \/ UpdateCommit(c) \/ ShutOutCommit(c) \/ RefreshRefused(c) \/ RefreshLimited(c)
            \/ RefreshCommit(c) \/ LogoutCommit(c) \/ LoginCommit(c) \/ Abort(c)
  <2>1. /\ pc[c] # "idle" /\ request' = request /\ pc'[c] \in {"done", "failed", "refused"}
        /\ held' = [held EXCEPT ![c] = {}]
    BY <1>13 DEF CreateCommit, UpdateCommit, ShutOutCommit, RefreshRefused, RefreshLimited, RefreshCommit,
                 LogoutCommit, LoginCommit, Abort, End, Go
  <2> QED
    BY <1>12, <2>1
<1>14. CASE RevokeDone(c)
  <2>1. /\ pc[c] = "revoking" /\ request' = request /\ pc'[c] = "flushed"
        /\ held' = [held EXCEPT ![c] = {t \in request[c].rows : Live(t)}]
    BY <1>14 DEF RevokeDone, Go
  <2>2. {t \in request[c].rows : Live(t)} \subseteq Names
    BY <1>2 DEF Live
  <2>3. request[c].op # "refresh"
    BY <1>3, <1>14 DEF RevokeDone, Asked, ShutOuts
  <2> QED
    BY <1>12, <2>1, <2>2, <2>3
<1>15. CASE RefreshOpen(c)
  <2>1. /\ pc[c] = "sent" /\ request' = request /\ held' = held /\ pc'[c] = "open"
        /\ request[c].token \in DOMAIN tokens
    BY <1>15 DEF RefreshOpen, Go, Valid, Live
  <2> QED
    BY <1>12, <2>1
<1>16. CASE RefreshFlush(c)
  <2>1. /\ pc[c] = "open" /\ request' = request /\ pc'[c] = "flushed"
        /\ request[c].token \in DOMAIN tokens
        /\ held' = [held EXCEPT ![c] = {request[c].token}]
    BY <1>3, <1>16 DEF RefreshFlush, Go, Asked
  <2> QED
    BY <1>2, <1>12, <2>1
<1>17. CASE LogoutOpen(c)
  <2>1. /\ pc[c] = "sent" /\ request' = request /\ held' = held /\ request[c].op = "logout"
        /\ pc'[c] \in {"open", "done"}
    BY <1>17 DEF LogoutOpen, Go
  <2> QED
    BY <1>12, <2>1
<1> QED
  BY <1>6, <1>7, <1>8, <1>9, <1>10, <1>11, <1>13, <1>14, <1>15, <1>16, <1>17
     DEF ServerStep, AccountStep, SessionStep

LEMMA AuthBaseStep ==
  ASSUME AuthBase, ServerNext
  PROVE  AuthBase'
<1>1. ASSUME NEW c \in Calls, ServerStep(c)
      PROVE  AuthBase'
  <2>1. AuthTypes
    BY DEF AuthBase
  <2>2. AuthTypes'
    BY <1>1, <2>1, StepFrame, TokensStep, AccountsStep, StepHistory, AskedByItself DEF AuthTypes
  <2>3. ASSUME NEW d \in Calls, pc'[d] # "idle"
        PROVE  Asked(d)'
    BY <1>1, <2>3, AskedByOthers, AskedByItself
  <2> QED
    BY <1>1, <2>2, <2>3, StepHistory DEF AuthBase
<1>2. CASE UNCHANGED avars
  BY <1>2 DEF avars, AuthBase, AuthTypes, Asked, History, Known, Ended
<1> QED
  BY <1>1, <1>2 DEF ServerNext

LEMMA AuthBaseInit == AInit => AuthBase
<1> SUFFICES ASSUME AInit PROVE AuthBase
  OBVIOUS
<1>1. /\ pc = [c \in Calls |-> "idle"] /\ request = [c \in Calls |-> NoRequest]
      /\ held = [c \in Calls |-> {}] /\ before = [c \in Calls |-> {}]
  BY DEF AInit
<1>2. accounts \in [Users -> Account \cup {NoAccount}]
  <2>1. CASE accounts = [u \in Users |-> NoAccount]
    BY <2>1
  <2>2. ASSUME NEW a \in Users,
               accounts = [u \in Users |->
                             IF u = a THEN [active |-> TRUE, role |-> Admin]
                             ELSE NoAccount]
        PROVE  accounts \in [Users -> Account \cup {NoAccount}]
    <3>1. [active |-> TRUE, role |-> Admin] \in Account
      BY DEF Account, Roles
    <3> QED
      BY <2>2, <3>1
  <2> QED
    BY <2>1, <2>2 DEF AInit
<1>3. DOMAIN tokens \subseteq {Origin} /\ tokens \in [DOMAIN tokens -> Token]
  <2> DEFINE K == {v \in Users : accounts[v] # NoAccount}
             owner == CHOOSE u \in Users : accounts[u] # NoAccount
  <2>1. tokens = [t \in {Origin : u \in K} |-> [user |-> owner, parent |-> NoToken, revoked |-> FALSE]]
    BY DEF AInit
  <2>2. K # {} => owner \in Users
    OBVIOUS
  <2>3. K # {} => [user |-> owner, parent |-> NoToken, revoked |-> FALSE] \in Token
    BY <2>2 DEF Token
  <2> HIDE DEF owner, K
  <2> QED
    BY <2>1, <2>3
<1>4. AuthTypes
  BY <1>1, <1>2, <1>3 DEF AuthTypes, Phases, Names
<1>5. History
  BY <1>1, <1>3, AuthAssumption DEF History
<1> QED
  BY <1>1, <1>4, <1>5 DEF AuthBase

-----------------------------------------------------------------------------
(* Rotation.  A token that has been exchanged is revoked, and a call that  *)
(* still may exchange a token has found it live: no call that had ended    *)
(* before has exchanged it.                                                *)
Exchanges(t) ==
  \/ pc[t] \in {"open", "flushed"} /\ request[t].op = "refresh"
  \/ t \in DOMAIN tokens /\ tokens[t].parent # NoToken

Heirs ==
  /\ \A s \in DOMAIN tokens : tokens[s].parent # NoToken =>
       /\ s \in Calls /\ tokens[s].parent = request[s].token
       /\ tokens[s].parent \in DOMAIN tokens /\ tokens[tokens[s].parent].revoked
  /\ \A t \in Calls : Exchanges(t) =>
       \A s \in before[t] \cap DOMAIN tokens : tokens[s].parent # request[t].token

LEMMA ExchangesStep ==
  ASSUME AuthBase, NEW c \in Calls, ServerStep(c), Exchanges(c)'
  PROVE  /\ request'[c] = request[c] /\ before'[c] = before[c]
         /\ Exchanges(c) \/ RefreshOpen(c)
<1> USE DEF AuthBase
<1>1. CASE pc'[c] \in {"open", "flushed"} /\ request'[c].op = "refresh"
  <2>1. RefreshOpen(c) \/ RefreshFlush(c)
    <3>1. CASE AccountStep(c)
      <4>1. ~RevokeAll(c) /\ ~RevokeDone(c)
        BY <1>1, RevokeAllEffect DEF RevokeAll, RevokeDone, Go, Asked, AuthTypes, ShutOuts
      <4>2. \/ request'[c].op # "refresh"
            \/ pc'[c] \in {"done", "failed"}
        BY <3>1, <4>1 DEF AccountStep, RegisterOpen, CreateOpen, CliCreateOpen, UpdateOpen, DeactivateOpen,
           PasswordOpen, CliPasswordOpen, CreateCommit, UpdateCommit, ShutOutCommit, Begin, Go, End, AuthTypes
      <4> QED
        BY <1>1, <4>2
    <3>2. CASE SessionStep(c)
      BY <1>1, <3>2 DEF SessionStep, RefreshOpen, RefreshRefused, RefreshLimited, RefreshFlush, RefreshCommit,
         LogoutOpen, LogoutCommit, LoginCommit, Abort, Go, End, AuthTypes
    <3>3. CASE (\E u \in Users : LoginOpen(c, u)) \/ \E op \in {"refresh", "logout"} : \E t : Send(c, op, t)
      BY <1>1, <3>3 DEF LoginOpen, Send, Begin, AuthTypes
    <3> QED
      BY <3>1, <3>2, <3>3 DEF ServerStep
  <2> QED
    BY <2>1 DEF RefreshOpen, RefreshFlush, Go, Exchanges
<1>2. CASE c \in DOMAIN tokens' /\ tokens'[c].parent # NoToken
  <2>1. c \notin DOMAIN tokens
    BY StepFrame DEF History
  <2> QED
    BY <1>2, <2>1, TokensStep, BeginsOrGoesOn DEF NewToken, GoesOn, Begins, Exchanges
<1> QED
  BY <1>1, <1>2 DEF Exchanges

LEMMA HeirsStep ==
  ASSUME AuthBase, Heirs, ServerNext
  PROVE  Heirs'
<1>1. ASSUME NEW c \in Calls, ServerStep(c)
      PROVE  Heirs'
  <2> USE <1>1
  <2>1. TokensGrow /\ NewToken(c) /\ c \notin Ended
    BY TokensStep, EndedStays DEF AuthBase
  <2>2. ASSUME NEW s \in DOMAIN tokens', tokens'[s].parent # NoToken
        PROVE  /\ s \in Calls /\ tokens'[s].parent = request'[s].token
               /\ tokens'[s].parent \in DOMAIN tokens' /\ tokens'[tokens'[s].parent].revoked
    <3>1. CASE s \in DOMAIN tokens
      <4>1. /\ s \in Calls /\ tokens[s].parent = request[s].token /\ tokens'[s].parent = tokens[s].parent
            /\ tokens[s].parent \in DOMAIN tokens /\ tokens[tokens[s].parent].revoked
        BY <2>1, <2>2, <3>1 DEF Heirs, TokensGrow
      <4>2. s # c
        BY <2>1, <3>1 DEF AuthBase, History, Ended
      <4> QED
        BY <2>1, <4>1, <4>2, StepFrame DEF TokensGrow, AuthBase
    <3>2. CASE s \notin DOMAIN tokens
      BY <2>1, <2>2, <3>2 DEF NewToken, TokensGrow
    <3> QED
      BY <3>1, <3>2
  <2>3. ASSUME NEW t \in Calls, Exchanges(t)', NEW s \in before'[t] \cap DOMAIN tokens'
        PROVE  tokens'[s].parent # request'[t].token
    <3>1. s \in DOMAIN tokens /\ tokens'[s].parent = tokens[s].parent
      BY <2>1, <2>3, StepHistory DEF NewToken, TokensGrow
    <3>2. CASE t = c /\ RefreshOpen(c)
      <4>1. Live(request[c].token)
        BY <3>2 DEF RefreshOpen, Valid
      <4>2. request'[t] = request[t]
        BY <2>3, <3>2, ExchangesStep
      <4> QED
        BY <3>1, <3>2, <4>1, <4>2, AuthAssumption DEF Heirs, Live, AuthBase, AuthTypes
    <3>3. CASE t = c /\ Exchanges(c)
      BY <2>3, <3>1, <3>3, ExchangesStep DEF Heirs
    <3>4. CASE t # c
      <4>1. Exchanges(t) /\ before'[t] = before[t] /\ request'[t] = request[t]
        BY <2>1, <2>3, <3>4, StepFrame DEF Exchanges, NewToken, TokensGrow, AuthBase
      <4> QED
        BY <2>3, <3>1, <4>1 DEF Heirs
    <3> QED
      BY <2>3, <3>2, <3>3, <3>4, ExchangesStep
  <2> QED
    BY <2>2, <2>3 DEF Heirs
<1>2. CASE UNCHANGED avars
  BY <1>2 DEF avars, Heirs, Exchanges
<1> QED
  BY <1>1, <1>2 DEF ServerNext

-----------------------------------------------------------------------------
(* The administrator.  A registration that will not make one found an      *)
(* account, and so did an administrator who creates one.                   *)
Inhabited == \E u \in Users : Known(u)

Founded(c) ==
  /\ request[c].op = "register" => request[c].active = TRUE /\ (request[c].role = Admin \/ Inhabited)
  /\ request[c].op = "create" => Inhabited

Roots == (\A c \in Calls : pc[c] = "open" => Founded(c)) /\ AdministratorRemains

LEMMA CreationOpens ==
  ASSUME AuthBase, NEW c \in Calls, ServerStep(c), pc'[c] = "open", request'[c].op \in {"register", "create"}
  PROVE  \E u \in Users : RegisterOpen(c, u) \/ CreateOpen(c, u)
<1> USE DEF AuthBase, AuthTypes
<1>1. CASE AccountStep(c)
  BY <1>1, RevokeAllEffect DEF AccountStep, RegisterOpen, CreateOpen, CliCreateOpen, UpdateOpen, DeactivateOpen,
     PasswordOpen, CliPasswordOpen, CreateCommit, UpdateCommit, RevokeAll, RevokeDone, ShutOutCommit,
     Begin, Go, End
<1>2. CASE SessionStep(c)
  BY <1>2 DEF SessionStep, RefreshOpen, RefreshRefused, RefreshLimited, RefreshFlush, RefreshCommit,
     LogoutOpen, LogoutCommit, LoginCommit, Abort, Go, End, Asked
<1>3. CASE (\E u \in Users : LoginOpen(c, u)) \/ \E op \in {"refresh", "logout"} : \E t : Send(c, op, t)
  BY <1>3 DEF LoginOpen, Send, Begin
<1> QED
  BY <1>1, <1>2, <1>3 DEF ServerStep

LEMMA CreationFounded ==
  ASSUME AuthBase, NEW c \in Calls, ServerStep(c), pc'[c] = "open"
  PROVE  Founded(c)'
<1>1. CASE request'[c].op \notin {"register", "create"}
  BY <1>1 DEF Founded
<1>2. ASSUME NEW u \in Users, RegisterOpen(c, u)
      PROVE  Founded(c)'
  <2>1. PICK role \in Roles :
          /\ request'[c] = [op |-> "register", user |-> u, active |-> TRUE,
                            role |-> IF FirstAccount THEN Admin ELSE role]
          /\ accounts' = accounts
    BY <1>2 DEF RegisterOpen, Begin, AuthBase, AuthTypes
  <2>2. ~FirstAccount => Inhabited
    BY DEF FirstAccount, Inhabited
  <2> QED
    BY <2>1, <2>2 DEF Founded, Inhabited, Known
<1>3. ASSUME NEW u \in Users, CreateOpen(c, u)
      PROVE  Founded(c)'
  <2>1. /\ request'[c].op = "create" /\ accounts' = accounts
    BY <1>3 DEF CreateOpen, Begin, AuthBase, AuthTypes
  <2>2. Inhabited
    BY <1>3 DEF CreateOpen, AdminCalls, Active, Inhabited
  <2> QED
    BY <2>1, <2>2 DEF Founded, Inhabited, Known
<1> QED
  BY <1>1, <1>2, <1>3, CreationOpens

(* What the calls that write an account write in it.                       *)
Administers(u) == Known(u) /\ accounts[u].active = TRUE /\ accounts[u].role = Admin

LEMMA AdministersStep ==
  ASSUME AuthBase, NEW c \in Calls, ServerStep(c), ~Demotion(c)', NEW u \in Users, Administers(u)
  PROVE  Administers(u)'
<1> USE DEF AuthBase, AuthTypes, Administers, Known
<1>1. accounts[u] \in Account
  OBVIOUS
<1>2. CASE accounts'[u] = accounts[u]
  BY <1>2
<1>3. CASE CreateCommit(c) /\ accounts'[u] # accounts[u]
  BY <1>3 DEF CreateCommit
<1>4. CASE UpdateCommit(c) /\ accounts'[u] # accounts[u]
  <2>1. /\ request' = request /\ pc'[c] = "done" /\ request[c].user = u /\ request[c].op \in {"activate", "role"}
        /\ accounts'[u] = IF request[c].op = "activate" THEN [accounts[u] EXCEPT !.active = request[c].active]
                          ELSE [accounts[u] EXCEPT !.role = request[c].role]
    BY <1>4 DEF UpdateCommit, End, Go
  <2>2. /\ request[c].op = "activate" => request[c].active
        /\ request[c].op = "role" => request[c].role = Admin
    BY <2>1 DEF Demotion
  <2>3. request[c].op = "activate" => request[c].active = TRUE
    BY <1>4, <2>2 DEF UpdateCommit, Asked
  <2>4. accounts'[u] \in Account
    BY AccountsStep DEF AccountsKept
  <2> HIDE DEF AuthBase, AuthTypes
  <2>5. accounts'[u].active = TRUE /\ accounts'[u].role = Admin
    BY <1>1, <2>1, <2>2, <2>3 DEF Account
  <2> QED
    BY <2>4, <2>5, AuthAssumption
<1>5. CASE ShutOutCommit(c) /\ accounts'[u] # accounts[u]
  <2>1. request' = request /\ pc'[c] = "done" /\ request[c].op = "deactivate"
    BY <1>5 DEF ShutOutCommit, End, Go
  <2> QED
    BY <2>1 DEF Demotion
<1>6. accounts' = accounts \/ CreateCommit(c) \/ UpdateCommit(c) \/ ShutOutCommit(c)
  BY DEF ServerStep, AccountStep, RegisterOpen, CreateOpen, CliCreateOpen, UpdateOpen, DeactivateOpen, PasswordOpen,
       CliPasswordOpen, RevokeAll, RevokeDone, Begin, Go, End,
       SessionStep, RefreshOpen, RefreshRefused, RefreshLimited, RefreshFlush, RefreshCommit, LogoutOpen, LogoutCommit,
       LoginCommit, Abort, LoginOpen, Send
<1> QED
  BY <1>2, <1>3, <1>4, <1>5, <1>6

(* The call that makes an account where there was none.                    *)
LEMMA FirstMade ==
  ASSUME AuthBase, Roots, NEW c \in Calls, ServerStep(c), ~Demotion(c)', ~Inhabited, Inhabited'
  PROVE  \E u \in Users : Administers(u)'
<1> USE DEF AuthBase, AuthTypes
<1>1. CreateCommit(c) /\ accounts' # accounts
  <2>1. accounts' # accounts
    BY DEF Inhabited, Known
  <2>2. ~UpdateCommit(c) /\ ~ShutOutCommit(c)
    BY DEF UpdateCommit, ShutOutCommit, Asked, ShutOutRequest, Inhabited
  <2> QED
    BY <2>1, <2>2 DEF ServerStep, AccountStep, RegisterOpen, CreateOpen, CliCreateOpen, UpdateOpen, DeactivateOpen,
       PasswordOpen, CliPasswordOpen, RevokeAll, RevokeDone, Begin, Go, End,
       SessionStep, RefreshOpen, RefreshRefused, RefreshLimited, RefreshFlush, RefreshCommit, LogoutOpen, LogoutCommit,
       LoginCommit, Abort, LoginOpen, Send
<1> DEFINE r == request[c]
           a == [active |-> r.active, role |-> r.role]
<1>2. /\ pc[c] = "open" /\ pc'[c] = "done" /\ request' = request /\ r.op \in Creations
      /\ accounts' = [accounts EXCEPT ![r.user] = a]
  BY <1>1 DEF CreateCommit, Creations, End, Go
<1>3. r.user \in Users /\ r.active \in BOOLEAN /\ r.role \in Roles
  BY <1>2 DEF Asked
<1>4. r.active = TRUE /\ r.role = Admin
  <2>1. Founded(c)
    BY <1>2 DEF Roots
  <2>2. CASE r.op = "register"
    BY <2>1, <2>2 DEF Founded
  <2>3. CASE r.op = "create"
    BY <2>1, <2>3 DEF Founded
  <2>4. CASE r.op = "script"
    BY <1>2, <1>3, <2>4 DEF Demotion
  <2> QED
    BY <1>2, <2>2, <2>3, <2>4 DEF Creations
<1>5. a \in Account /\ a.active = TRUE /\ a.role = Admin
  BY <1>3, <1>4 DEF Account
<1>6. accounts'[r.user] = a
  BY <1>2, <1>3
<1> HIDE DEF a
<1>7. ASSUME NEW u \in Users, u = r.user PROVE Administers(u)'
  BY <1>2, <1>5, <1>6, <1>7, AuthAssumption DEF Administers, Known
<1> QED
  BY <1>3, <1>7

LEMMA RootsStep ==
  ASSUME AuthBase, Roots, ServerNext
  PROVE  Roots'
<1>1. ASSUME NEW c \in Calls, ServerStep(c)
      PROVE  Roots'
  <2> USE <1>1
  <2>1. Inhabited => Inhabited'
    BY AccountsStep DEF AccountsKept, Inhabited
  <2>2. ASSUME NEW d \in Calls, pc'[d] = "open"
        PROVE  Founded(d)'
    <3>1. CASE d = c
      BY <2>2, <3>1, CreationFounded
    <3>2. CASE d # c
      BY <2>1, <2>2, <3>2, StepFrame DEF Founded, Roots, AuthBase
    <3> QED
      BY <3>1, <3>2
  <2>3. ASSUME Inhabited', \A d \in Calls : ~Demotion(d)'
        PROVE  AdminCalls'
    <3>1. ASSUME NEW d \in Calls, Demotion(d) PROVE FALSE
      <4>1. d # c
        BY <3>1, StepFrame DEF Demotion, AuthBase
      <4>2. Demotion(d)'
        BY <3>1, <4>1, StepFrame DEF Demotion, AuthBase
      <4> QED
        BY <2>3, <4>2
    <3>2. CASE Inhabited
      <4>1. AdminCalls
        BY <3>1, <3>2 DEF Roots, AdministratorRemains, Inhabited
      <4>2. PICK u \in Users : Active(u) /\ accounts[u].role = Admin
        BY <4>1 DEF AdminCalls
      <4>3. accounts[u].active \in BOOLEAN
        BY <4>2 DEF Active, Known, AuthBase, AuthTypes, Account
      <4>4. Administers(u)'
        BY <2>3, <4>2, <4>3, AdministersStep DEF Administers, Active
      <4> QED
        BY <4>4 DEF Administers, AdminCalls, Active
    <3>3. CASE ~Inhabited
      BY <2>3, <3>3, FirstMade DEF Administers, AdminCalls, Active
    <3> QED
      BY <3>2, <3>3
  <2>4. AdministratorRemains'
    BY <2>3 DEF AdministratorRemains, Inhabited
  <2> QED
    BY <2>2, <2>4 DEF Roots
<1>2. CASE UNCHANGED avars
  BY <1>2 DEF avars, Roots, Founded, Inhabited, AdministratorRemains, Demotion, AdminCalls, Active, Known
<1> QED
  BY <1>1, <1>2 DEF ServerNext

-----------------------------------------------------------------------------
(* Shutting out.  Until its commit, a call that shuts an account out holds *)
(* or has listed every live token of an ended call; from then on there is  *)
(* none.                                                                   *)
OutOf(d, t) ==
  \/ t # Origin /\ t \notin before[d]
  \/ pc[d] = "revoking" /\ t \in request[d].rows
  \/ pc[d] = "flushed" /\ t \in held[d]

LoggedOut(d) ==
  pc[d] = "done" /\ request[d].op = "logout" /\ request[d].token \in before[d] \cup {Origin}
    => ~Live(request[d].token)

ShutOuts1 ==
  \A d \in Calls :
    /\ pc[d] \in {"revoking", "flushed", "done"} /\ request[d].op \in ShutOuts =>
         \A t \in LiveOf(request[d].user) : OutOf(d, t)
    /\ LoggedOut(d)

LEMMA ShuttingOut ==
  ASSUME AuthBase, NEW c \in Calls, ServerStep(c),
         pc'[c] \in {"revoking", "flushed", "done"}, request'[c].op \in ShutOuts
  PROVE  RevokeAll(c) \/ RevokeDone(c) \/ ShutOutCommit(c)
<1> USE DEF AuthBase, AuthTypes
<1>1. CASE AccountStep(c)
  BY <1>1 DEF AccountStep, RegisterOpen, CreateOpen, CliCreateOpen, UpdateOpen, DeactivateOpen,
     PasswordOpen, CliPasswordOpen, CreateCommit, UpdateCommit, Begin, Go, End, ShutOuts
<1>2. CASE SessionStep(c)
  BY <1>2 DEF SessionStep, RefreshOpen, RefreshRefused, RefreshLimited, RefreshFlush, RefreshCommit,
     LogoutOpen, LogoutCommit, LoginCommit, Abort, Go, End, ShutOuts
<1>3. CASE (\E u \in Users : LoginOpen(c, u)) \/ \E op \in {"refresh", "logout"} : \E t : Send(c, op, t)
  BY <1>3 DEF LoginOpen, Send, Begin
<1> QED
  BY <1>1, <1>2, <1>3 DEF ServerStep

LEMMA LoggingOut ==
  ASSUME AuthBase, NEW c \in Calls, ServerStep(c), pc'[c] = "done", request'[c].op = "logout"
  PROVE  LogoutOpen(c) \/ LogoutCommit(c)
<1> USE DEF AuthBase, AuthTypes
<1>1. CASE AccountStep(c)
  BY <1>1 DEF AccountStep, RegisterOpen, CreateOpen, CliCreateOpen, UpdateOpen, DeactivateOpen, RevokeAll, RevokeDone,
     PasswordOpen, CliPasswordOpen, CreateCommit, UpdateCommit, ShutOutCommit, Begin, Go, End, ShutOuts
<1>2. CASE SessionStep(c)
  BY <1>2 DEF SessionStep, RefreshOpen, RefreshRefused, RefreshLimited, RefreshFlush, RefreshCommit,
     LoginCommit, Abort, Go, End
<1>3. CASE (\E u \in Users : LoginOpen(c, u)) \/ \E op \in {"refresh", "logout"} : \E t : Send(c, op, t)
  BY <1>3 DEF LoginOpen, Send, Begin
<1> QED
  BY <1>1, <1>2, <1>3 DEF ServerStep

LEMMA ShutOutsStep ==
  ASSUME AuthBase, ShutOuts1, ServerNext
  PROVE  ShutOuts1'
<1>1. ASSUME NEW c \in Calls, ServerStep(c)
      PROVE  ShutOuts1'
  <2> USE <1>1
  <2>1. TokensGrow /\ NewToken(c) /\ c \notin Ended /\ c # Origin
    BY TokensStep, EndedStays, AuthAssumption DEF AuthBase
  <2>2. \A d \in Calls : before'[d] \subseteq Ended
    BY StepHistory
  <2>3. \A t \in DOMAIN tokens' \ DOMAIN tokens : t # Origin /\ \A d \in Calls : t \notin before'[d]
    BY <2>1, <2>2 DEF NewToken
  <2>4. \A t \in DOMAIN tokens' :
          Live(t)' => t \notin DOMAIN tokens \/ (Live(t) /\ tokens'[t].user = tokens[t].user)
    BY <2>1 DEF Live, TokensGrow
  <2>5. ASSUME NEW d \in Calls \ {c}
        PROVE  pc'[d] = pc[d] /\ request'[d] = request[d] /\ held'[d] = held[d] /\ before'[d] = before[d]
    BY <2>5, StepFrame DEF AuthBase
  <2>6. ASSUME NEW d \in Calls, pc'[d] \in {"revoking", "flushed", "done"}, request'[d].op \in ShutOuts,
               NEW u, u = request'[d].user, NEW t \in LiveOf(u)'
        PROVE  OutOf(d, t)'
    <3>1. t \in DOMAIN tokens' /\ Live(t)' /\ tokens'[t].user = request'[d].user
      BY <2>6 DEF LiveOf
    <3>2. CASE t \notin DOMAIN tokens
      BY <2>3, <3>1, <3>2 DEF OutOf
    <3>3. CASE t \in DOMAIN tokens /\ d # c
      <4>1. t \in LiveOf(request[d].user)
        BY <2>4, <2>5, <3>1, <3>3 DEF LiveOf
      <4> QED
        BY <2>5, <2>6, <3>3, <4>1 DEF ShutOuts1, OutOf
    <3>4. CASE t \in DOMAIN tokens /\ d = c /\ RevokeAll(c)
      <4>1. pc'[c] = "revoking" /\ tokens' = tokens /\ request'[c].rows = LiveOf(request[c].user)
            /\ request'[c].user = request[c].user
        BY <3>4, RevokeAllEffect DEF RevokeAll, AuthBase, AuthTypes
      <4> QED
        BY <3>1, <3>4, <4>1 DEF OutOf, LiveOf, Live
    <3>5. CASE t \in DOMAIN tokens /\ d = c /\ RevokeDone(c)
      <4>1. /\ pc[c] = "revoking" /\ pc'[c] = "flushed" /\ request' = request /\ tokens' = tokens /\ before' = before
            /\ held'[c] = {s \in request[c].rows : Live(s)}
        BY <3>5 DEF RevokeDone, Go, AuthBase, AuthTypes
      <4>2. t \in LiveOf(request[c].user) /\ Live(t)
        BY <2>4, <3>1, <3>5, <4>1 DEF LiveOf
      <4> QED
        BY <2>6, <3>5, <4>1, <4>2 DEF ShutOuts1, OutOf
    <3>6. CASE t \in DOMAIN tokens /\ d = c /\ ShutOutCommit(c)
      <4>1. pc[c] = "flushed" /\ pc'[c] = "done" /\ request' = request /\ before' = before /\ Revoke(held[c])
        BY <3>6 DEF ShutOutCommit, End, Go, AuthBase, AuthTypes
      <4>2. t \notin held[c]
        BY <3>1, <3>6, <4>1, RevokeEffect DEF Live, AuthBase
      <4>3. t \in LiveOf(request[c].user)
        BY <2>4, <3>1, <3>6, <4>1 DEF LiveOf
      <4> QED
        BY <2>6, <3>6, <4>1, <4>2, <4>3 DEF ShutOuts1, OutOf
    <3> QED
      BY <2>6, <3>2, <3>3, <3>4, <3>5, <3>6, ShuttingOut
  <2>7. ASSUME NEW d \in Calls, pc'[d] = "done", request'[d].op = "logout",
               NEW t, t = request'[d].token, t \in before'[d] \cup {Origin}
        PROVE  ~Live(t)'
    <3>1. CASE d # c
      <4>1. ~Live(t)
        BY <2>5, <2>7, <3>1 DEF ShutOuts1, LoggedOut
      <4>2. t \in before[d] \cup {Origin}
        BY <2>5, <2>7, <3>1
      <4>3. Live(t)' => t \in DOMAIN tokens'
        BY DEF Live
      <4> QED
        BY <2>3, <2>4, <2>7, <4>1, <4>3
    <3>2. CASE d = c /\ LogoutOpen(c)
      BY <2>7, <3>2 DEF LogoutOpen, Go, Live, AuthBase, AuthTypes
    <3>3. CASE d = c /\ LogoutCommit(c)
      <4>1. Revoke({t})
        BY <2>7, <3>3 DEF LogoutCommit, End, Go
      <4> QED
        BY <2>7, <3>3, <4>1, RevokeEffect DEF Live, AuthBase
    <3> QED
      BY <2>7, <3>1, <3>2, <3>3, LoggingOut
  <2>8. ASSUME NEW d \in Calls PROVE LoggedOut(d)'
    BY <2>7, <2>8 DEF LoggedOut
  <2> QED
    BY <2>6, <2>8 DEF ShutOuts1
<1>2. CASE UNCHANGED avars
  BY <1>2 DEF avars, ShutOuts1, LoggedOut, OutOf, LiveOf, Live
<1> QED
  BY <1>1, <1>2 DEF ServerNext

-----------------------------------------------------------------------------
AuthInv == AuthBase /\ Heirs /\ Roots /\ ShutOuts1

LEMMA AuthInvInit == AInit => AuthInv
<1> SUFFICES ASSUME AInit PROVE AuthInv
  OBVIOUS
<1>1. AuthBase
  BY AuthBaseInit
<1>2. pc = [c \in Calls |-> "idle"]
  BY DEF AInit
<1>3. DOMAIN tokens \subseteq {Origin} /\ \A t \in DOMAIN tokens : tokens[t].parent = NoToken
  BY DEF AInit
<1>4. Heirs /\ ShutOuts1
  BY <1>2, <1>3, AuthAssumption DEF Heirs, Exchanges, ShutOuts1, LoggedOut
<1>5. ASSUME NEW u \in Users, Known(u) PROVE AdminCalls
  <2>1. PICK a \in Users :
          accounts = [v \in Users |-> IF v = a THEN [active |-> TRUE, role |-> Admin] ELSE NoAccount]
    BY <1>5 DEF AInit, Known
  <2>2. accounts[a] = [active |-> TRUE, role |-> Admin]
    BY <2>1
  <2> QED
    BY <1>1, <1>5, <2>1, <2>2 DEF AdminCalls, Active, Known
<1>6. Roots
  BY <1>2, <1>5 DEF Roots, AdministratorRemains
<1> QED
  BY <1>1, <1>4, <1>6 DEF AuthInv

(* The inductive invariant is kept by the server alone, and beside the     *)
(* tabs of a browser.                                                      *)
LEMMA AuthInvStep == AuthInv /\ ServerNext => AuthInv'
  BY AuthBaseStep, HeirsStep, RootsStep, ShutOutsStep DEF AuthInv

(* Whatever calls the server has open: their requests, the rows they hold, *)
(* the heirs of tokens, the administrator and the sessions shut out.       *)
THEOREM AuthInvariant == ASpec => []AuthInv
<1>1. AInit => AuthInv
  BY AuthInvInit
<1>2. AuthInv /\ [ANext]_avars => AuthInv'
  BY ServerMoves, AuthInvStep
<1> QED
  BY <1>1, <1>2, PTL DEF ASpec

LEMMA AuthBesideTabs == Spec => []AuthInv
<1>1. Init => AuthInv
  BY AuthInvInit DEF Init
<1>2. AuthInv /\ [Next]_vars => AuthInv'
  BY BrowserMoves, AuthInvStep
<1> QED
  BY <1>1, <1>2, PTL DEF Spec

(* Only calls that ran at the same time, for a part of each, exchange the  *)
(* same refresh token (AuthService.refresh).                               *)
THEOREM TokensHaveOneHeir == Spec => []OneHeir
<1>1. AuthInv => OneHeir
  BY DEF AuthInv, Heirs, Exchanges, OneHeir, Overlapped
<1> QED
  BY <1>1, AuthBesideTabs, PTL

(* Once a password is changed, an account deactivated or a token logged    *)
(* out, only a token of an overlapping or a later call lives on.           *)
THEOREM SessionsAreShutOut == Spec => []ShutOut
<1>1. AuthInv => ShutOut
  BY DEF AuthInv, ShutOuts1, LoggedOut, OutOf, ShutOut
<1> QED
  BY <1>1, AuthBesideTabs, PTL

(* Whatever registrations, creations and updates overlap, a system that    *)
(* has accounts has an active administrator until a call takes one away,   *)
(* or starts without one (AuthService.register and UserService).           *)
THEOREM AdministratorStays == Spec => []AdministratorRemains
<1>1. AuthInv => AdministratorRemains
  BY DEF AuthInv, Roots
<1> QED
  BY <1>1, AuthBesideTabs, PTL

-----------------------------------------------------------------------------
(* The browser.  What has been asked stays, and what has ended.            *)
SameRequest(d) ==
  \/ request'[d] = request[d]
  \/ /\ request[d].op \in ShutOuts /\ request'[d].op = request[d].op
     /\ request'[d].user = request[d].user

LEMMA Remembers ==
  ASSUME AuthBase, ServerNext, NEW d \in Calls, pc[d] # "idle"
  PROVE  /\ pc'[d] # "idle" /\ SameRequest(d) /\ before'[d] = before[d]
         /\ d \in Ended => pc'[d] = pc[d]
<1>1. ASSUME NEW c \in Calls, ServerStep(c)
      PROVE  /\ pc'[d] # "idle" /\ SameRequest(d) /\ before'[d] = before[d]
             /\ d \in Ended => pc'[d] = pc[d]
  <2>1. CASE d # c
    BY <1>1, <2>1, StepFrame DEF AuthBase, SameRequest, AuthTypes
  <2>2. CASE d = c
    <3>1. pc'[c] # "idle" /\ before'[c] = before[c] /\ c \notin Ended
      BY <1>1, <2>2, StepFrame, BeginsOrGoesOn, EndedStays DEF AuthBase, Begins, GoesOn
    <3>2. CASE RevokeAll(c)
      BY <1>1, <2>2, <3>1, <3>2, RevokeAllEffect DEF RevokeAll, SameRequest
    <3>3. CASE ~RevokeAll(c)
      <4>1. request' = request
        BY <1>1, <2>2, <3>3 DEF ServerStep, AccountStep, RegisterOpen, CreateOpen, CliCreateOpen, UpdateOpen,
           DeactivateOpen, PasswordOpen, CliPasswordOpen, CreateCommit, UpdateCommit, RevokeDone, ShutOutCommit,
           Begin, Go, End, SessionStep, RefreshOpen, RefreshRefused, RefreshLimited, RefreshFlush, RefreshCommit,
           LogoutOpen, LogoutCommit, LoginCommit, Abort, LoginOpen, Send
      <4> QED
        BY <2>2, <3>1, <4>1 DEF SameRequest
    <3> QED
      BY <3>2, <3>3
  <2> QED
    BY <2>1, <2>2
<1>2. CASE UNCHANGED avars
  BY <1>2 DEF avars, SameRequest
<1> QED
  BY <1>1, <1>2 DEF ServerNext

(* An account that has been shut out, or made active or inactive, maybe in *)
(* vain; and the reason why a token is revoked, or an owner inactive.      *)
Shut(u) ==
  \E d \in Calls : /\ pc[d] # "idle" /\ request[d].op \in ShutOuts \cup {"activate"}
                   /\ request[d].user = u

Presents(c) == pc[c] # "idle" /\ request[c].op \in {"refresh", "logout"}

Causes ==
  /\ \A t \in Calls : pc[t] = "done" /\ request[t].op \in {"login", "refresh"} => t \in DOMAIN tokens
  /\ \A t \in Calls : pc[t] = "done" /\ request[t].op = "refresh" => request[t].token \in DOMAIN tokens
  /\ \A t \in DOMAIN tokens : tokens[t].revoked =>
       \/ Shut(tokens[t].user)
       \/ \E d \in Calls : pc[d] = "done" /\ Presents(d) /\ request[d].token = t
  /\ \A t \in DOMAIN tokens : Active(tokens[t].user) \/ Shut(tokens[t].user)
  /\ \A c \in Calls : pc[c] # "idle" /\ request[c].op = "login" =>
       Active(request[c].user) \/ Shut(request[c].user)
  /\ \A c \in Calls : pc[c] # "idle" /\ request[c].op = "register" => request[c].active = TRUE
  /\ \A d \in Calls : pc[d] = "revoking" =>
       request[d].rows \subseteq {t \in DOMAIN tokens : tokens[t].user = request[d].user}
  /\ \A d \in Calls : pc[d] = "flushed" /\ request[d].op \in ShutOuts =>
       held[d] \subseteq {t \in DOMAIN tokens : tokens[t].user = request[d].user}

LEMMA ShutStays ==
  ASSUME AuthBase, ServerNext, NEW u, Shut(u)
  PROVE  Shut(u)'
<1>1. PICK d \in Calls : /\ pc[d] # "idle" /\ request[d].op \in ShutOuts \cup {"activate"}
                         /\ request[d].user = u
  BY DEF Shut
<1> QED
  BY <1>1, Remembers DEF Shut, SameRequest

LEMMA ActiveOrShutStays ==
  ASSUME AuthBase, ServerNext, NEW u \in Users, Active(u) \/ Shut(u)
  PROVE  (Active(u) \/ Shut(u))'
<1>1. ASSUME NEW c \in Calls, ServerStep(c), Active(u), ~Shut(u)
      PROVE  Active(u)'
  <2> DEFINE r == request[c]
  <2>1. accounts \in [Users -> Account \cup {NoAccount}] /\ accounts[u] \in Account /\ accounts[u] # NoAccount
    BY <1>1 DEF AuthBase, AuthTypes, Active, Known
  <2>2. CASE accounts' = accounts
    BY <1>1, <2>2 DEF Active, Known
  <2>3. CASE CreateCommit(c) /\ accounts' # accounts
    <3>1. PICK a : accounts[r.user] = NoAccount /\ accounts' = [accounts EXCEPT ![r.user] = a]
      BY <2>3 DEF CreateCommit, Known
    <3> QED
      BY <1>1, <2>1, <3>1 DEF Active, Known
  <2>4. CASE UpdateCommit(c) /\ r.op = "activate"
    <3>1. r.user # u
      BY <1>1, <2>4 DEF UpdateCommit, Shut
    <3> QED
      BY <1>1, <2>1, <2>4, <3>1 DEF UpdateCommit, Active, Known
  <2>5. CASE UpdateCommit(c) /\ r.op # "activate"
    <3>1. accounts' = [accounts EXCEPT ![r.user] = [accounts[r.user] EXCEPT !.role = r.role]]
          /\ r.role \in Roles
      BY <2>5 DEF UpdateCommit, AuthBase, Asked
    <3>2. /\ [accounts[u] EXCEPT !.role = r.role] \in Account
          /\ [accounts[u] EXCEPT !.role = r.role].active = accounts[u].active
      BY <2>1, <3>1 DEF Account
    <3> HIDE DEF r
    <3> QED
      BY <1>1, <2>1, <3>1, <3>2, AuthAssumption DEF Active, Known
  <2>6. CASE ShutOutCommit(c)
    <3>1. r.user # u
      BY <1>1, <2>6 DEF ShutOutCommit, Shut
    <3> QED
      BY <1>1, <2>1, <2>6, <3>1 DEF ShutOutCommit, Active, Known
  <2>7. accounts' = accounts \/ CreateCommit(c) \/ UpdateCommit(c) \/ ShutOutCommit(c)
    BY <1>1 DEF ServerStep, AccountStep, RegisterOpen, CreateOpen, CliCreateOpen, UpdateOpen, DeactivateOpen,
         PasswordOpen, CliPasswordOpen, RevokeAll, RevokeDone, Begin, Go, End,
         SessionStep, RefreshOpen, RefreshRefused, RefreshLimited, RefreshFlush, RefreshCommit, LogoutOpen,
         LogoutCommit, LoginCommit, Abort, LoginOpen, Send
  <2> QED
    BY <2>2, <2>3, <2>4, <2>5, <2>6, <2>7
<1>2. CASE UNCHANGED avars
  BY <1>2, ShutStays DEF avars, Active, Known
<1> QED
  BY <1>1, <1>2, ShutStays DEF ServerNext

(* The commits that revoke a row.                                          *)
LEMMA Revokes ==
  ASSUME AuthBase, NEW c \in Calls, ServerStep(c),
         NEW t \in DOMAIN tokens, ~tokens[t].revoked, tokens'[t].revoked
  PROVE  /\ pc[c] # "idle" /\ pc'[c] = "done" /\ request' = request
         /\ \/ request[c].op \in {"refresh", "logout"} /\ request[c].token = t
            \/ pc[c] = "flushed" /\ request[c].op \in ShutOuts /\ t \in held[c]
<1>1. AuthTypes /\ (pc[c] # "idle" => Asked(c)) /\ (pc[c] \in {"open", "flushed"} => c \notin DOMAIN tokens)
  BY DEF AuthBase, History
<1>2. t # c
  BY StepFrame DEF AuthBase, History
<1>3. CASE CreateCommit(c) \/ LoginCommit(c)
  <2>1. Issue(c, request[c].user, NoToken, {}) /\ request[c].user \in Users /\ c \notin DOMAIN tokens
    BY <1>1, <1>3 DEF CreateCommit, LoginCommit, Asked, Creations
  <2>2. Issued(c, request[c].user, NoToken, {})
    BY <1>1, <2>1, IssueEffect
  <2> QED
    BY <2>2 DEF Issued
<1>4. CASE RefreshCommit(c)
  <2> DEFINE p == request[c].token
  <2>1. /\ pc[c] = "flushed" /\ pc'[c] = "done" /\ request' = request /\ request[c].op = "refresh"
        /\ p \in DOMAIN tokens /\ held[c] = {p} /\ Issue(c, tokens[p].user, p, held[c])
    BY <1>1, <1>4 DEF RefreshCommit, End, Go, AuthTypes, Asked
  <2>2. tokens[p].user \in Users /\ p \in Names \cup {NoToken} /\ c \notin DOMAIN tokens
    BY <1>1, <2>1 DEF AuthTypes, Token
  <2>3. Issued(c, tokens[p].user, p, held[c])
    BY <1>1, <2>1, <2>2, IssueEffect
  <2> QED
    BY <2>1, <2>3 DEF Issued
<1>5. CASE ShutOutCommit(c)
  <2>1. /\ pc[c] = "flushed" /\ pc'[c] = "done" /\ request' = request /\ request[c].op \in ShutOuts
        /\ Revoke(held[c])
    BY <1>1, <1>5 DEF ShutOutCommit, End, Go, AuthTypes
  <2> QED
    BY <1>1, <2>1, RevokeEffect
<1>6. CASE LogoutCommit(c)
  <2>1. /\ pc[c] = "open" /\ pc'[c] = "done" /\ request' = request /\ request[c].op = "logout"
        /\ Revoke({request[c].token})
    BY <1>1, <1>6 DEF LogoutCommit, End, Go, AuthTypes
  <2> QED
    BY <1>1, <2>1, RevokeEffect
<1>7. \/ tokens' = tokens \/ CreateCommit(c) \/ LoginCommit(c) \/ RefreshCommit(c)
      \/ ShutOutCommit(c) \/ LogoutCommit(c)
  BY DEF ServerStep, AccountStep, RegisterOpen, CreateOpen, CliCreateOpen, UpdateOpen, DeactivateOpen, PasswordOpen,
       CliPasswordOpen, UpdateCommit, RevokeAll, RevokeDone, Begin, Go, End,
       SessionStep, RefreshOpen, RefreshRefused, RefreshLimited, RefreshFlush, LogoutOpen,
       Abort, LoginOpen, Send
<1> QED
  BY <1>3, <1>4, <1>5, <1>6, <1>7

(* What the call that moves brings about.                                  *)
LEMMA CauseMade ==
  ASSUME AuthBase, Causes, NEW c \in Calls, ServerStep(c)
  PROVE  /\ pc'[c] = "done" /\ request'[c].op \in {"login", "refresh"} => c \in DOMAIN tokens'
         /\ pc'[c] = "done" /\ request'[c].op = "refresh" => request'[c].token \in DOMAIN tokens
         /\ pc[c] = "idle" /\ request'[c].op = "login" => Active(request'[c].user)
         /\ request'[c].op = "register" => request'[c].active = TRUE
         /\ pc'[c] = "revoking" => RevokeAll(c)
         /\ pc'[c] = "flushed" /\ request'[c].op \in ShutOuts =>
              pc[c] = "revoking" /\ held'[c] \subseteq request[c].rows /\ request'[c].user = request[c].user
<1> USE DEF AuthBase, AuthTypes, Asked, ShutOuts
<1>1. CASE RevokeAll(c)
  BY <1>1, RevokeAllEffect DEF RevokeAll
<1>2. CASE AccountStep(c) /\ ~RevokeAll(c)
  BY <1>2 DEF AccountStep, RegisterOpen, CreateOpen, CliCreateOpen, UpdateOpen, DeactivateOpen,
     PasswordOpen, CliPasswordOpen, CreateCommit, UpdateCommit, RevokeDone, ShutOutCommit,
     Begin, Go, End, Causes
<1>3. CASE SessionStep(c)
  <2>1. request' = request /\ pc[c] # "idle"
    BY <1>3 DEF SessionStep, RefreshOpen, RefreshRefused, RefreshLimited, RefreshFlush, RefreshCommit,
     LogoutOpen, LogoutCommit, LoginCommit, Abort, Go, End
  <2>2. pc'[c] = "done" /\ request[c].op \in {"login", "refresh"} => RefreshCommit(c) \/ LoginCommit(c)
    BY <1>3 DEF SessionStep, RefreshOpen, RefreshRefused, RefreshLimited, RefreshFlush,
     LogoutOpen, LogoutCommit, Abort, Go, End
  <2>3. RefreshCommit(c) \/ LoginCommit(c) => c \in DOMAIN tokens'
    BY DEF RefreshCommit, LoginCommit, Issue
  <2>4. RefreshCommit(c) \/ LoginCommit(c) => (request[c].op = "refresh" => request[c].token \in DOMAIN tokens)
    BY DEF RefreshCommit, LoginCommit
  <2>5. pc'[c] # "revoking" /\ (pc'[c] = "flushed" => request[c].op = "refresh")
    BY <1>3 DEF SessionStep, RefreshOpen, RefreshRefused, RefreshLimited, RefreshFlush, RefreshCommit,
     LogoutOpen, LogoutCommit, LoginCommit, Abort, Go, End
  <2> QED
    BY <2>1, <2>2, <2>3, <2>4, <2>5 DEF Causes
<1>4. CASE (\E u \in Users : LoginOpen(c, u)) \/ \E op \in {"refresh", "logout"} : \E t : Send(c, op, t)
  BY <1>4 DEF LoginOpen, Send, Begin
<1> QED
  BY <1>1, <1>2, <1>3, <1>4 DEF ServerStep

LEMMA CausesStep ==
  ASSUME AuthBase, Causes, ServerNext
  PROVE  Causes'
<1>1. ASSUME NEW c \in Calls, ServerStep(c)
      PROVE  Causes'
  <2> USE <1>1
  <2>1. /\ DOMAIN tokens \subseteq DOMAIN tokens' /\ NewToken(c)
        /\ \A t \in DOMAIN tokens : tokens'[t].user = tokens[t].user /\ tokens[t].user \in Users
        /\ \A t \in DOMAIN tokens : tokens[t].revoked \in BOOLEAN
    BY TokensStep DEF TokensGrow, AuthBase, AuthTypes, Token
  <2>2. ASSUME NEW d \in Calls \ {c}
        PROVE  pc'[d] = pc[d] /\ request'[d] = request[d] /\ held'[d] = held[d]
    BY <2>2, StepFrame DEF AuthBase
  <2>3. ASSUME NEW t \in Calls, pc'[t] = "done", request'[t].op \in {"login", "refresh"}
        PROVE  t \in DOMAIN tokens' /\ (request'[t].op = "refresh" => request'[t].token \in DOMAIN tokens')
    <3>1. CASE t # c
      BY <2>1, <2>2, <2>3, <3>1 DEF Causes
    <3>2. CASE t = c
      BY <2>1, <2>3, <3>2, CauseMade
    <3> QED
      BY <3>1, <3>2
  <2>4. ASSUME NEW t \in DOMAIN tokens', tokens'[t].revoked, NEW u, u = tokens'[t].user
        PROVE  Shut(u)' \/ \E d \in Calls : pc'[d] = "done" /\ Presents(d)' /\ request'[d].token = t
    <3>1. t \in DOMAIN tokens /\ u = tokens[t].user
      BY <2>1, <2>4 DEF NewToken
    <3>2. CASE tokens[t].revoked /\ Shut(u)
      BY <3>2, ShutStays DEF ServerNext
    <3>3. ASSUME NEW d \in Calls, pc[d] = "done", Presents(d), request[d].token = t
          PROVE  pc'[d] = "done" /\ Presents(d)' /\ request'[d].token = t
      BY <3>3, Remembers DEF Presents, SameRequest, Ended, ServerNext, ShutOuts
    <3>4. CASE ~tokens[t].revoked
      <4>1. /\ pc[c] # "idle" /\ pc'[c] = "done" /\ request' = request
            /\ \/ request[c].op \in {"refresh", "logout"} /\ request[c].token = t
               \/ pc[c] = "flushed" /\ request[c].op \in ShutOuts /\ t \in held[c]
        BY <2>4, <3>1, <3>4, Revokes
      <4>2. CASE request[c].op \in {"refresh", "logout"} /\ request[c].token = t
        BY <4>1, <4>2 DEF Presents
      <4>3. CASE pc[c] = "flushed" /\ request[c].op \in ShutOuts /\ t \in held[c]
        <5>1. request[c].user = u
          BY <3>1, <4>3 DEF Causes
        <5> QED
          BY <4>1, <4>3, <5>1 DEF Shut
      <4> QED
        BY <4>1, <4>2, <4>3
    <3> QED
      BY <3>1, <3>2, <3>3, <3>4 DEF Causes
  <2>5. ASSUME NEW u \in Users, Active(u) \/ Shut(u)
        PROVE  Active(u)' \/ Shut(u)'
    BY <2>5, ActiveOrShutStays DEF ServerNext
  <2>6. ASSUME NEW t \in DOMAIN tokens', NEW u, u = tokens'[t].user
        PROVE  Active(u)' \/ Shut(u)'
    <3>1. CASE t \in DOMAIN tokens
      BY <2>1, <2>5, <2>6, <3>1 DEF Causes
    <3>2. CASE t \notin DOMAIN tokens /\ request[c].op = "refresh"
      <4>1. request[c].token \in DOMAIN tokens /\ u = tokens[request[c].token].user
        BY <2>1, <2>6, <3>2 DEF NewToken, Creations
      <4> QED
        BY <2>1, <2>5, <4>1 DEF Causes
    <3>3. CASE t \notin DOMAIN tokens /\ request[c].op = "login" /\ tokens'[t].user = request[c].user
      <4>1. (Active(u) \/ Shut(u)) /\ u \in Users
        BY <2>1, <2>6, <3>3 DEF Causes, NewToken, AuthBase, Asked
      <4> QED
        BY <2>5, <4>1
    <3>4. CASE t \notin DOMAIN tokens /\ request[c].op \in Creations /\ tokens'[t].user = request[c].user
      <4>1. tokens' # tokens
        BY <2>6, <3>4
      <4>2. CreateCommit(c)
        BY <3>4, <4>1 DEF ShutOuts, Creations, ServerStep, AccountStep, RegisterOpen, CreateOpen, CliCreateOpen, UpdateOpen,
           DeactivateOpen, PasswordOpen, CliPasswordOpen, UpdateCommit, RevokeAll, RevokeDone, ShutOutCommit,
           Begin, Go, End, SessionStep, RefreshOpen, RefreshRefused, RefreshLimited, RefreshFlush, RefreshCommit,
           LogoutOpen, LogoutCommit, LoginCommit, Abort, LoginOpen, Send
      <4>3. request[c].op = "register" /\ request[c].active = TRUE /\ u \in Users
        BY <2>6, <3>4, <4>1, <4>2 DEF CreateCommit, Causes, AuthBase, Asked
      <4>4. accounts' = [accounts EXCEPT ![u] = [active |-> request[c].active, role |-> request[c].role]]
        BY <2>6, <3>4, <4>1, <4>2 DEF CreateCommit, End, Go
      <4>5. accounts'[u].active /\ accounts'[u] # NoAccount
        <5> DEFINE a == [active |-> request[c].active, role |-> request[c].role]
        <5>1. a \in Account
          BY <4>2, <4>3 DEF CreateCommit, Account, AuthBase, Asked, Creations
        <5>2. a.active
          BY <4>3
        <5>3. accounts'[u] = a
          BY <4>3, <4>4 DEF AuthBase, AuthTypes
        <5> QED
          BY <5>1, <5>2, <5>3, AuthAssumption
      <4> QED
        BY <4>5 DEF Active, Known
    <3> QED
      BY <2>1, <2>6, <3>1, <3>2, <3>3, <3>4 DEF NewToken
  <2>7. ASSUME NEW d \in Calls, pc'[d] # "idle", request'[d].op = "login", NEW u, u = request'[d].user
        PROVE  Active(u)' \/ Shut(u)'
    <3>1. CASE pc[d] # "idle"
      <4>1. request'[d] = request[d] /\ u \in Users
        BY <2>7, <3>1, Remembers DEF SameRequest, ShutOuts, ServerNext, AuthBase, Asked
      <4> QED
        BY <2>5, <2>7, <3>1, <4>1 DEF Causes
    <3>2. CASE pc[d] = "idle"
      <4>1. d = c /\ Active(u) /\ u \in Users
        BY <2>2, <2>7, <3>2, CauseMade, AskedByItself DEF Asked
      <4> QED
        BY <2>5, <4>1
    <3> QED
      BY <3>1, <3>2
  <2>8. ASSUME NEW d \in Calls, pc'[d] # "idle", request'[d].op = "register"
        PROVE  request'[d].active = TRUE
    BY <2>2, <2>8, CauseMade DEF Causes
  <2>9. ASSUME NEW d \in Calls, pc'[d] = "revoking"
        PROVE  request'[d].rows \subseteq {t \in DOMAIN tokens' : tokens'[t].user = request'[d].user}
    <3>1. CASE d # c
      BY <2>1, <2>2, <2>9, <3>1 DEF Causes
    <3>2. CASE d = c
      <4>1. RevokeAll(c)
        BY <2>9, <3>2, CauseMade
      <4>2. /\ request'[c].rows = LiveOf(request[c].user) /\ request'[c].user = request[c].user
            /\ tokens' = tokens
        BY <4>1, RevokeAllEffect DEF RevokeAll
      <4> QED
        BY <3>2, <4>2 DEF LiveOf
    <3> QED
      BY <3>1, <3>2
  <2>10. ASSUME NEW d \in Calls, pc'[d] = "flushed", request'[d].op \in ShutOuts
         PROVE  held'[d] \subseteq {t \in DOMAIN tokens' : tokens'[t].user = request'[d].user}
    <3>1. CASE d # c
      BY <2>1, <2>2, <2>10, <3>1 DEF Causes
    <3>2. CASE d = c
      <4>1. pc[c] = "revoking" /\ held'[c] \subseteq request[c].rows /\ request'[c].user = request[c].user
        BY <2>10, <3>2, CauseMade
      <4>2. request[c].rows \subseteq {t \in DOMAIN tokens : tokens[t].user = request[c].user}
        BY <4>1 DEF Causes
      <4> QED
        BY <2>1, <3>2, <4>1, <4>2
    <3> QED
      BY <3>1, <3>2
  <2> QED
    BY <2>3, <2>4, <2>6, <2>7, <2>8, <2>9, <2>10 DEF Causes
<1>2. CASE UNCHANGED avars
  BY <1>2 DEF avars, Causes, Shut, Presents, Active, Known
<1> QED
  BY <1>1, <1>2 DEF ServerNext

LEMMA CausesInit == AInit => Causes
<1> SUFFICES ASSUME AInit PROVE Causes
  OBVIOUS
<1>1. pc = [c \in Calls |-> "idle"]
  BY DEF AInit
<1>2. \A u \in Users : accounts[u] # NoAccount => accounts[u].active
  BY DEF AInit
<1>3. \A t \in DOMAIN tokens : /\ ~tokens[t].revoked /\ tokens[t].user \in Users
                              /\ accounts[tokens[t].user] # NoAccount
  <2> DEFINE K == {v \in Users : accounts[v] # NoAccount}
             owner == CHOOSE u \in Users : accounts[u] # NoAccount
  <2>1. tokens = [t \in {Origin : u \in K} |-> [user |-> owner, parent |-> NoToken, revoked |-> FALSE]]
    BY DEF AInit
  <2>2. K # {} => owner \in Users /\ accounts[owner] # NoAccount
    OBVIOUS
  <2> HIDE DEF owner, K
  <2> QED
    BY <2>1, <2>2
<1> QED
  BY <1>1, <1>2, <1>3 DEF Causes, Active, Known

-----------------------------------------------------------------------------
(* What a tab holds and presents is a token that the server has given and  *)
(* whose answer has come.  A token presented in a call that was answered   *)
(* is no longer in the storage, except after a logout that has failed; so  *)
(* that two calls that present one token were awaited together.            *)
Given(t) ==
  \/ t = Origin /\ Origin \in DOMAIN tokens
  \/ /\ t \in Sent \ waiting
     /\ request[t].op \in {"refresh", "login"} /\ pc[t] \in {"open", "flushed", "done", "failed"}

Storage ==
  /\ waiting \subseteq Sent /\ lost \subseteq Sent \ waiting
  /\ answered \in [Calls -> SUBSET (Sent \ waiting)]
  /\ stored # NoToken => Given(stored)
  /\ \A c \in Calls : Presents(c) => Given(request[c].token)

Spent ==
  \A c \in Calls : Presents(c) /\ c \notin waiting => stored # request[c].token

Apart ==
  \A c, d \in Calls :
     /\ c # d /\ Presents(c) /\ Presents(d)
     /\ request[c].op = "refresh" /\ request[c].token = request[d].token
     => c \notin answered[d] /\ d \notin answered[c]

(* A refresh that is refused, or whose page clears the storage, has its    *)
(* reason; and a logout leaves nothing older behind.                       *)
Reasons ==
  /\ clearing \cup emptied \subseteq Calls
  /\ \A c \in Calls : c \in clearing \cup emptied \/ (pc[c] = "refused" /\ request[c].op = "refresh") =>
       Presents(c) /\ request[c].op = "refresh" /\ Explained(c)

Farewell ==
  \A d \in Calls : pc[d] # "idle" /\ request[d].op = "logout" /\ d \notin waiting =>
    stored \notin answered[d] \cup {Origin}

BrowserInv == Causes /\ Storage /\ Spent /\ Apart /\ Reasons /\ Farewell

(* The steps: a call of the server, a tab that sends, an answer.           *)
ServerMove(c) == (AccountStep(c) \/ SessionStep(c)) /\ UNCHANGED bvars

Sends(c) == TryRefresh(c) \/ Logout(c) \/ \E u \in Users : Login(c, u)

Answered(c) == RefreshGranted(c) \/ RefreshDenied(c) \/ LoginAnswered(c) \/ LogoutAnswered(c)

LEMMA SendsEffect ==
  ASSUME AuthBase, Storage, NEW c \in Calls, Sends(c)
  PROVE  /\ pc[c] = "idle" /\ pc'[c] \in {"sent", "open"}
         /\ waiting' = waiting \cup {c} /\ Sent' = Sent \cup {c} /\ c \notin Sent
         /\ answered' \in [Calls -> SUBSET (Sent \ waiting)] /\ answered'[c] = Sent \ waiting
         /\ \A d \in Calls \ {c} : /\ answered'[d] = answered[d] /\ pc'[d] = pc[d]
                                   /\ request'[d] = request[d]
         /\ tokens' = tokens
         /\ stored' = stored /\ clearing' = clearing /\ lost' = lost /\ emptied' = emptied
         /\ request'[c].op \in {"refresh", "logout", "login"}
         /\ request'[c].op \in {"refresh", "logout"} => stored # NoToken /\ request'[c].token = stored
<1>1. /\ pc[c] = "idle" /\ pc'[c] \in {"sent", "open"}
      /\ request'[c].op \in {"refresh", "logout", "login"}
      /\ request'[c].op \in {"refresh", "logout"} => stored # NoToken /\ request'[c].token = stored
      /\ \A d \in Calls \ {c} : pc'[d] = pc[d] /\ request'[d] = request[d]
      /\ tokens' = tokens
  BY DEF Sends, TryRefresh, Logout, Login, Send, LoginOpen, Begin, AuthBase, AuthTypes
<1>2. /\ waiting' = waiting \cup {c} /\ answered' = [answered EXCEPT ![c] = {d \in Sent : d \notin waiting}]
      /\ stored' = stored /\ clearing' = clearing /\ lost' = lost /\ emptied' = emptied
  BY DEF Sends, TryRefresh, Logout, Login, Await
<1>3. Sent' = Sent \cup {c} /\ c \notin Sent
  BY <1>1 DEF Sent
<1>4. answered \in [Calls -> SUBSET (Sent \ waiting)] /\ {d \in Sent : d \notin waiting} = Sent \ waiting
  BY DEF Storage
<1> QED
  BY <1>1, <1>2, <1>3, <1>4

(* Only a tab sends a refresh, a logout or a login.                        *)
LEMMA MoveEffect ==
  ASSUME AuthBase, NEW c \in Calls, ServerMove(c)
  PROVE  /\ Sent' = Sent
         /\ c \in Sent => /\ request'[c] = request[c]
                          /\ request[c].op \in {"refresh", "login"} /\ pc[c] \in {"open", "flushed"} =>
                               pc'[c] \in {"flushed", "done", "failed"}
                          /\ request[c].op = "logout" /\ pc[c] = "open" => pc'[c] \in {"done", "failed"}
                          /\ pc'[c] = "refused" => RefreshRefused(c)
<1>1. ServerStep(c) /\ ServerNext
  BY DEF ServerMove, ServerStep, ServerNext
<1>2. pc[c] = "idle" => request'[c].op \notin {"refresh", "logout", "login"}
  BY DEF ServerMove, AccountStep, RegisterOpen, CreateOpen, CliCreateOpen, UpdateOpen, DeactivateOpen,
     PasswordOpen, CliPasswordOpen, CreateCommit, UpdateCommit, RevokeAll, RevokeDone, ShutOutCommit, Begin, Go, End,
     SessionStep, RefreshOpen, RefreshRefused, RefreshLimited, RefreshFlush, RefreshCommit, LogoutOpen,
     LogoutCommit, LoginCommit, Abort, AuthBase, AuthTypes
<1>3. \A d \in Calls : pc[d] # "idle" => pc'[d] # "idle" /\ request'[d].op = request[d].op
  BY <1>1, Remembers DEF SameRequest
<1>4. \A d \in Calls \ {c} : pc'[d] = pc[d] /\ request'[d] = request[d]
  BY <1>1, StepFrame DEF AuthBase
<1>5. Sent' = Sent
  BY <1>2, <1>3, <1>4 DEF Sent
<1>6. ASSUME c \in Sent
      PROVE  /\ request'[c] = request[c]
             /\ request[c].op \in {"refresh", "login"} /\ pc[c] \in {"open", "flushed"} =>
                  pc'[c] \in {"flushed", "done", "failed"}
             /\ request[c].op = "logout" /\ pc[c] = "open" => pc'[c] \in {"done", "failed"}
             /\ pc'[c] = "refused" => RefreshRefused(c)
  <2>1. pc[c] # "idle" /\ request[c].op \in {"refresh", "logout", "login"} /\ request[c].op \notin ShutOuts
    BY <1>6 DEF Sent, ShutOuts
  <2>2. request'[c] = request[c]
    BY <1>1, <2>1, Remembers DEF SameRequest
  <2>3. pc[c] # "revoking"
    BY <2>1 DEF AuthBase, Asked
  <2>4. ~AccountStep(c)
    BY <2>1, <2>3 DEF AccountStep, RegisterOpen, CreateOpen, CliCreateOpen, UpdateOpen, DeactivateOpen,
       PasswordOpen, CliPasswordOpen, CreateCommit, UpdateCommit, RevokeAll, RevokeDone, ShutOutCommit, Begin
  <2>5. SessionStep(c)
    BY <2>4 DEF ServerMove
  <2> QED
    BY <2>1, <2>2, <2>5 DEF SessionStep, RefreshOpen, RefreshRefused, RefreshLimited, RefreshFlush, RefreshCommit,
       LogoutOpen, LogoutCommit, LoginCommit, Abort, Go, End, AuthBase, AuthTypes
<1> QED
  BY <1>5, <1>6

LEMMA AnsweredEffect ==
  ASSUME NEW c \in Calls, Answered(c)
  PROVE  /\ UNCHANGED avars /\ answered' = answered /\ c \in waiting /\ waiting' = waiting \ {c}
         /\ Sent' = Sent /\ \A d : Presents(d)' = Presents(d)
         /\ lost' \in {lost, lost \cup {c}}
         /\ \/ stored' \in {stored, NoToken}
            \/ stored' = c /\ request[c].op \in {"refresh", "login"} /\ pc[c] \in {"open", "flushed", "done"}
         /\ request[c].op = "refresh" => stored' \in {c, NoToken}
         /\ request[c].op = "logout" => stored' = NoToken
<1>1. UNCHANGED avars /\ answered' = answered /\ c \in waiting /\ waiting' = waiting \ {c}
  BY DEF Answered, RefreshGranted, RefreshDenied, LoginAnswered, LogoutAnswered, Stop
<1>2. Sent' = Sent /\ \A d : Presents(d)' = Presents(d)
  BY <1>1 DEF avars, Sent, Presents
<1> QED
  BY <1>1, <1>2 DEF Answered, RefreshGranted, RefreshDenied, LoginAnswered, LogoutAnswered, Store, Clear, Granted

LEMMA NextMoves ==
  ASSUME [Next]_vars
  PROVE  \/ \E c \in Calls : ServerMove(c) \/ Sends(c) \/ Answered(c) \/ ClearAgain(c)
         \/ UNCHANGED vars
  BY DEF Next, BrowserStep, ServerMove, Sends, Answered

LEMMA GivenStays ==
  ASSUME AuthBase, Storage, ServerNext, NEW t, Given(t), Sent \ waiting \subseteq Sent' \ waiting'
  PROVE  Given(t)'
<1>1. CASE t = Origin /\ Origin \in DOMAIN tokens
  <2>1. Origin \in DOMAIN tokens'
    <3>1. ASSUME NEW c \in Calls, ServerStep(c) PROVE Origin \in DOMAIN tokens'
      BY <1>1, <3>1, TokensStep DEF TokensGrow
    <3> QED
      BY <1>1, <3>1 DEF ServerNext, avars
  <2> QED
    BY <1>1, <2>1 DEF Given
<1>2. CASE t \in Sent \ waiting /\ request[t].op \in {"refresh", "login"}
           /\ pc[t] \in {"open", "flushed", "done", "failed"}
  <2>1. t \in Calls /\ pc[t] # "idle"
    BY <1>2 DEF Sent
  <2>2. request'[t].op = request[t].op /\ (t \in Ended => pc'[t] = pc[t])
    BY <2>1, Remembers DEF SameRequest
  <2>3. pc'[t] \in {"open", "flushed", "done", "failed"}
    <3>1. CASE t \in Ended
      BY <1>2, <2>2, <3>1
    <3>2. CASE t \notin Ended
      <4>1. ASSUME NEW c \in Calls, ServerStep(c)
            PROVE  pc'[t] \in {"open", "flushed", "done", "failed"}
        <5>1. CASE t # c
          BY <1>2, <2>1, <4>1, <5>1, StepFrame DEF AuthBase
        <5>2. CASE t = c
          <6>1. pc[c] \in {"open", "flushed"} /\ request[c].op \in {"refresh", "login"}
            BY <1>2, <2>1, <3>2, <5>2 DEF Ended
          <6> QED
            BY <4>1, <5>2, <6>1 DEF ServerStep, AccountStep, RegisterOpen, CreateOpen, CliCreateOpen,
               UpdateOpen, DeactivateOpen, PasswordOpen, CliPasswordOpen, CreateCommit, UpdateCommit, RevokeAll,
               RevokeDone, ShutOutCommit, Begin, Go, End, SessionStep, RefreshOpen, RefreshRefused, RefreshLimited,
               RefreshFlush, RefreshCommit, LogoutOpen, LogoutCommit, LoginCommit, Abort, LoginOpen, Send,
               AuthBase, AuthTypes, ShutOuts
        <5> QED
          BY <5>1, <5>2
      <4> QED
        BY <1>2, <4>1 DEF ServerNext, avars
    <3> QED
      BY <3>1, <3>2
  <2> QED
    BY <1>2, <2>2, <2>3 DEF Given
<1> QED
  BY <1>1, <1>2 DEF Given

LEMMA ExplainedStays ==
  ASSUME AuthBase, lost \subseteq Sent, ServerNext, lost \subseteq lost', \A d \in Calls : pc[d] # "idle" => answered'[d] = answered[d],
         NEW c \in Calls, Presents(c), request[c].op = "refresh", Explained(c)
  PROVE  Presents(c)' /\ request'[c].op = "refresh" /\ Explained(c)'
<1> DEFINE t == request[c].token
<1>1. pc[c] # "idle" /\ pc'[c] # "idle" /\ request'[c] = request[c] /\ before'[c] = before[c]
  BY Remembers DEF Presents, SameRequest, ShutOuts
<1>2. \A d \in Calls : pc[d] # "idle" => pc'[d] # "idle" /\ SameRequest(d)
  BY Remembers
<1>3. \A d \in Calls : Faulty(d) => Faulty(d)'
  BY Remembers DEF Faulty, Ended
<1>4. CASE Faulty(c)
  BY <1>1, <1>3, <1>4 DEF Explained, Presents
<1>5. CASE Raced(c)
  <2>1. PICK d \in Calls \ {c} :
          /\ pc[d] # "idle" /\ request[d].op \in {"refresh", "logout"} /\ request[d].token = request[c].token
          /\ c \notin answered[d] /\ d \notin answered[c]
    BY <1>5 DEF Raced
  <2>2. request'[d] = request[d] /\ pc'[d] # "idle"
    BY <1>2, <2>1 DEF SameRequest, ShutOuts
  <2>3. answered'[d] = answered[d] /\ answered'[c] = answered[c]
    BY <1>1, <2>1
  <2>4. Raced(c)'
    BY <1>1, <2>1, <2>2, <2>3 DEF Raced
  <2> QED
    BY <1>1, <2>4 DEF Explained, Presents
<1>6. CASE ShutOutMeanwhile(c)
  <2>1. t \in DOMAIN tokens /\ Shut(tokens[t].user)
    BY <1>6 DEF ShutOutMeanwhile, Shut
  <2>2. t \in DOMAIN tokens' /\ tokens'[t].user = tokens[t].user
    <3>1. ASSUME NEW d \in Calls, ServerStep(d)
          PROVE  t \in DOMAIN tokens' /\ tokens'[t].user = tokens[t].user
      BY <2>1, <3>1, TokensStep DEF TokensGrow
    <3> QED
      BY <2>1, <3>1 DEF ServerNext, avars
  <2>3. PICK u : u = tokens[t].user
    OBVIOUS
  <2>4. Shut(u)'
    BY <2>1, <2>3, ShutStays
  <2>5. ShutOutMeanwhile(c)'
    BY <1>1, <2>2, <2>3, <2>4 DEF ShutOutMeanwhile, Shut
  <2> QED
    BY <1>1, <2>5 DEF Explained, Presents
<1>7. CASE Hurried(c)
  <2>1. t \in Calls /\ (t \notin before'[c] \/ pc'[t] = "failed")
    BY <1>1, <1>7, Remembers DEF Hurried, Ended
  <2> QED
    BY <1>1, <2>1 DEF Hurried, Explained, Presents
<1> QED
  BY <1>1, <1>4, <1>5, <1>6, <1>7 DEF Explained, Presents

(* A refused refresh: its token is unknown because the call that issued it *)
(* has failed or not committed, or its owner is shut out, or the token has *)
(* been revoked.                                                           *)
LEMMA RefusedExplained ==
  ASSUME AuthBase, BrowserInv, NEW c \in Calls, RefreshRefused(c)
  PROVE  Presents(c) /\ request[c].op = "refresh" /\ Explained(c)
<1> DEFINE t == request[c].token
<1>1. pc[c] = "sent" /\ request[c].op = "refresh" /\ ~Valid(t) /\ Presents(c)
  BY DEF RefreshRefused, Presents
<1>2. Given(t)
  BY <1>1 DEF BrowserInv, Storage
<1>3. CASE t \notin DOMAIN tokens
  <2>1. t \in Calls /\ request[t].op \in {"refresh", "login"} /\ pc[t] \in {"open", "flushed", "done", "failed"}
    BY <1>2, <1>3 DEF Given, Sent
  <2>2. CASE pc[t] = "failed"
    BY <1>1, <2>1, <2>2 DEF Explained, Hurried
  <2>3. CASE pc[t] \in {"open", "flushed"}
    <3>1. t \notin before[c]
      BY <2>3 DEF AuthBase, History, Ended
    <3> QED
      BY <1>1, <2>1, <3>1 DEF Explained, Hurried
  <2>4. pc[t] # "done"
    BY <1>3, <2>1 DEF BrowserInv, Causes
  <2> QED
    BY <1>1, <2>1, <2>2, <2>3, <2>4
<1>4. CASE t \in DOMAIN tokens /\ ~Active(tokens[t].user)
  <2>1. Shut(tokens[t].user)
    BY <1>4 DEF BrowserInv, Causes
  <2> QED
    BY <1>1, <1>4, <2>1 DEF Explained, ShutOutMeanwhile, Shut
<1>5. CASE t \in DOMAIN tokens /\ tokens[t].revoked
  <2>1. CASE Shut(tokens[t].user)
    BY <1>1, <1>5, <2>1 DEF Explained, ShutOutMeanwhile, Shut
  <2>2. ASSUME NEW d \in Calls, pc[d] = "done", Presents(d), request[d].token = t
        PROVE  Explained(c)
    <3>1. d # c
      BY <1>1, <2>2
    <3>2. c \notin answered[d] /\ d \notin answered[c]
      BY <1>1, <2>2, <3>1 DEF BrowserInv, Apart
    <3> QED
      BY <1>1, <2>2, <3>1, <3>2 DEF Explained, Raced, Presents
  <2> QED
    BY <1>1, <1>5, <2>1, <2>2 DEF BrowserInv, Causes
<1> QED
  BY <1>1, <1>3, <1>4, <1>5 DEF Valid, Live

LEMMA ServerMoveKeeps ==
  ASSUME AuthBase, BrowserInv, NEW c \in Calls, ServerMove(c)
  PROVE  BrowserInv'
<1> USE DEF BrowserInv
<1>1. ServerNext /\ ServerStep(c)
  BY DEF ServerMove, ServerStep, ServerNext
<1>2. /\ waiting' = waiting /\ answered' = answered /\ stored' = stored /\ clearing' = clearing
      /\ lost' = lost /\ emptied' = emptied /\ Sent' = Sent
  BY MoveEffect DEF ServerMove, bvars
<1>3. \A d \in Sent : /\ pc[d] # "idle" /\ pc'[d] # "idle" /\ request'[d] = request[d]
                      /\ d \in Ended => pc'[d] = pc[d]
  <2>1. ASSUME NEW d \in Sent
        PROVE  /\ pc[d] # "idle" /\ pc'[d] # "idle" /\ request'[d] = request[d]
               /\ d \in Ended => pc'[d] = pc[d]
    BY <1>1, <2>1, Remembers DEF Sent, SameRequest, ShutOuts
  <2> QED
    BY <2>1
<1>4. Sent \subseteq Calls /\ \A d \in Calls : Presents(d)' <=> Presents(d)
  BY <1>2, <1>3 DEF Sent, Presents
<1>5. \A d \in Calls : Presents(d) => d \in Sent
  BY DEF Presents, Sent
<1>7. Causes'
  BY <1>1, CausesStep
<1>8. Storage'
  <2>1. ASSUME NEW t, Given(t) PROVE Given(t)'
    BY <1>1, <1>2, <2>1, GivenStays
  <2>2. ASSUME NEW d \in Calls, Presents(d)', NEW t, t = request'[d].token
        PROVE  Given(t)'
    BY <1>3, <1>4, <1>5, <2>1, <2>2 DEF Storage
  <2>3. ASSUME NEW t, t = stored', t # NoToken
        PROVE  Given(t)'
    BY <1>2, <2>1, <2>3 DEF Storage
  <2> QED
    BY <1>2, <2>2, <2>3 DEF Storage, Given
<1>9. Spent'
  BY <1>2, <1>3, <1>4, <1>5 DEF Spent
<1>10. Apart'
  BY <1>2, <1>3, <1>4, <1>5 DEF Apart
<1>11. Reasons'
  <2>1. ASSUME NEW d \in Calls, Presents(d), request[d].op = "refresh", Explained(d)
        PROVE  Presents(d)' /\ request'[d].op = "refresh" /\ Explained(d)'
    BY <1>1, <1>2, <2>1, ExplainedStays DEF Storage
  <2>2. ASSUME NEW d \in Calls, pc'[d] = "refused", request'[d].op = "refresh"
        PROVE  Presents(d) /\ request[d].op = "refresh" /\ Explained(d)
    <3>1. d \in Sent
      BY <1>2, <2>2 DEF Sent
    <3>2. CASE d # c
      BY <1>1, <1>3, <2>2, <3>1, <3>2, StepFrame DEF Reasons, AuthBase
    <3>3. CASE d = c
      BY <2>2, <3>1, <3>3, MoveEffect, RefusedExplained
    <3> QED
      BY <3>2, <3>3
  <2> QED
    BY <1>2, <2>1, <2>2 DEF Reasons
<1>12. Farewell'
  <2>1. ASSUME NEW d \in Calls, pc'[d] # "idle", request'[d].op = "logout", d \notin waiting
        PROVE  stored \notin answered[d] \cup {Origin}
    <3>1. d \in Sent /\ request'[d] = request[d]
      BY <1>2, <1>3, <2>1 DEF Sent
    <3> QED
      BY <1>3, <2>1, <3>1 DEF Farewell
  <2> QED
    BY <1>2, <2>1 DEF Farewell
<1> QED
  BY <1>7, <1>8, <1>9, <1>10, <1>11, <1>12

LEMMA SendsKeep ==
  ASSUME AuthBase, BrowserInv, NEW c \in Calls, Sends(c)
  PROVE  BrowserInv'
<1> USE DEF BrowserInv
<1>1. ServerStep(c) /\ ServerNext
  BY DEF Sends, TryRefresh, Logout, Login, ServerStep, ServerNext
<1>2. /\ pc[c] = "idle" /\ pc'[c] \in {"sent", "open"}
      /\ waiting' = waiting \cup {c} /\ Sent' = Sent \cup {c} /\ c \notin Sent
      /\ answered' \in [Calls -> SUBSET (Sent \ waiting)] /\ answered'[c] = Sent \ waiting
      /\ stored' = stored /\ clearing' = clearing /\ lost' = lost /\ emptied' = emptied
  BY SendsEffect
<1>3. ASSUME NEW d \in Calls \ {c}
      PROVE  /\ answered'[d] = answered[d] /\ pc'[d] = pc[d] /\ request'[d] = request[d]
             /\ Presents(d)' <=> Presents(d)
  BY <1>3, SendsEffect DEF Presents
<1>4. Presents(c)' => stored # NoToken /\ request'[c].token = stored
  BY SendsEffect DEF Presents
<1>5. Sent \subseteq Calls /\ waiting \subseteq Sent /\ lost \subseteq Sent \ waiting
  BY DEF Sent, Storage
<1>6. Sent \ waiting \subseteq Sent' \ waiting'
  BY <1>2
<1>8. Causes'
  BY <1>1, CausesStep
<1>9. ~Presents(c) /\ \A d \in Calls : c \notin answered[d]
  BY <1>2 DEF Storage, Presents
<1>10. Storage'
  <2>1. ASSUME NEW t, Given(t) PROVE Given(t)'
    BY <1>1, <1>6, <2>1, GivenStays
  <2>2. ASSUME NEW d \in Calls, Presents(d)', NEW t, t = request'[d].token
        PROVE  Given(t)'
    <3>1. Given(t)
      BY <1>3, <1>4, <2>2 DEF Storage
    <3> QED
      BY <2>1, <3>1
  <2>3. ASSUME NEW t, t = stored', t # NoToken
        PROVE  Given(t)'
    BY <1>2, <2>1, <2>3 DEF Storage
  <2>4. Sent \ waiting \subseteq Sent' \ waiting'
    BY <1>2
  <2> QED
    BY <1>2, <1>5, <2>2, <2>3, <2>4 DEF Storage, Given
<1>11. Spent'
  BY <1>2, <1>3 DEF Spent
<1>12. Apart'
  <2>1. ASSUME NEW d \in Calls, NEW e \in Calls, d # e, Presents(d)', Presents(e)',
               request'[d].op = "refresh", request'[d].token = request'[e].token
        PROVE  d \notin answered'[e] /\ e \notin answered'[d]
    <3>1. CASE d # c /\ e # c
      BY <1>3, <2>1, <3>1 DEF Apart
    <3>2. CASE d = c
      <4>1. Presents(e) /\ request[e].token = stored
        BY <1>3, <1>4, <2>1, <3>2
      <4>2. e \in waiting
        BY <4>1 DEF Spent
      <4> QED
        BY <1>2, <1>3, <1>9, <2>1, <3>2, <4>2
    <3>3. CASE e = c
      <4>1. Presents(d) /\ request[d].token = stored /\ request[d].op = "refresh"
        BY <1>3, <1>4, <2>1, <3>3
      <4>2. d \in waiting
        BY <4>1 DEF Spent
      <4> QED
        BY <1>2, <1>3, <1>9, <2>1, <3>3, <4>2
    <3> QED
      BY <3>1, <3>2, <3>3
  <2> QED
    BY <2>1 DEF Apart
<1>13. Reasons'
  <2>1. ASSUME NEW d \in Calls, Presents(d), request[d].op = "refresh", Explained(d)
        PROVE  Presents(d)' /\ request'[d].op = "refresh" /\ Explained(d)'
    BY <1>1, <1>2, <1>3, <1>5, <2>1, ExplainedStays
  <2> QED
    BY <1>2, <1>3, <2>1 DEF Reasons
<1>14. Farewell'
  BY <1>2, <1>3 DEF Farewell
<1> QED
  BY <1>8, <1>10, <1>11, <1>12, <1>13, <1>14

LEMMA AnswersKeep ==
  ASSUME AuthBase, BrowserInv, NEW c \in Calls, Answered(c)
  PROVE  BrowserInv'
<1> USE DEF BrowserInv
<1>1. /\ UNCHANGED avars /\ answered' = answered /\ c \in waiting /\ waiting' = waiting \ {c}
      /\ Sent' = Sent /\ lost' \in {lost, lost \cup {c}}
      /\ \/ stored' \in {stored, NoToken}
         \/ stored' = c /\ request[c].op \in {"refresh", "login"} /\ pc[c] \in {"open", "flushed", "done"}
      /\ request[c].op = "refresh" => stored' \in {c, NoToken}
      /\ request[c].op = "logout" => stored' = NoToken
  BY AnsweredEffect
<1>2. ServerNext /\ pc' = pc /\ request' = request /\ tokens' = tokens /\ accounts' = accounts
  BY <1>1 DEF ServerNext, avars
<1>3. \A d \in Calls : Presents(d)' <=> Presents(d)
  BY <1>2 DEF Presents
<1>5. Sent \subseteq Calls /\ waiting \subseteq Sent /\ lost \subseteq Sent \ waiting /\ Sent \ waiting \subseteq Sent' \ waiting'
  BY <1>1 DEF Sent, Storage
<1>6. \A d \in Calls : Presents(d) => request[d].token # c /\ request[d].token # NoToken
  <2>1. \A t : Given(t) => t # c /\ t # NoToken
    BY <1>1, AuthAssumption DEF Given, Sent, Names
  <2> QED
    BY <2>1 DEF Storage
<1>7. Causes'
  BY <1>2, CausesStep
<1>8. Storage'
  <2>1. ASSUME NEW t, Given(t) PROVE Given(t)'
    BY <1>2, <1>5, <2>1, GivenStays
  <2>2. ASSUME NEW d \in Calls, Presents(d)', NEW t, t = request'[d].token
        PROVE  Given(t)'
    BY <1>2, <1>3, <2>1, <2>2 DEF Storage
  <2>3. ASSUME NEW t, t = stored', t # NoToken
        PROVE  Given(t)'
    <3>1. CASE t = stored
      BY <2>1, <2>3, <3>1 DEF Storage
    <3>2. CASE t = c /\ request[c].op \in {"refresh", "login"} /\ pc[c] \in {"open", "flushed", "done"}
      BY <1>1, <1>2, <1>5, <3>2 DEF Given
    <3> QED
      BY <1>1, <2>3, <3>1, <3>2
  <2>4. waiting' \subseteq Sent' /\ lost' \subseteq Sent' \ waiting' /\ answered' \in [Calls -> SUBSET (Sent' \ waiting')]
    <3>1. answered \in [Calls -> SUBSET (Sent \ waiting)] /\ Sent \ waiting \subseteq Sent' \ waiting'
      BY <1>5 DEF Storage
    <3> QED
      BY <1>1, <1>5, <3>1
  <2> QED
    BY <2>2, <2>3, <2>4 DEF Storage, Given
<1>9. Spent'
  <2>1. ASSUME NEW d \in Calls, Presents(d)', d \notin waiting', stored' = request'[d].token
        PROVE  FALSE
    <3>1. Presents(d) /\ stored' = stored /\ request[d].token = stored
      BY <1>1, <1>2, <1>3, <1>6, <2>1
    <3>2. d = c
      BY <1>1, <1>2, <2>1, <3>1 DEF Spent
    <3> QED
      BY <1>1, <1>6, <3>1, <3>2 DEF Presents
  <2> QED
    BY <2>1 DEF Spent
<1>10. Apart'
  BY <1>1, <1>2, <1>3 DEF Apart
<1>11. Reasons'
  <2>1. ASSUME NEW d \in Calls, Presents(d), request[d].op = "refresh", Explained(d)
        PROVE  Presents(d)' /\ request'[d].op = "refresh" /\ Explained(d)'
    BY <1>1, <1>2, <1>5, <2>1, ExplainedStays
  <2>2. CASE RefreshGranted(c)
    <3>1. /\ request[c].op = "refresh" /\ pc[c] \in {"flushed", "done"} /\ emptied' = emptied
          /\ \/ clearing' = clearing
             \/ clearing' = clearing \cup {c} /\ ~Active(tokens[request[c].token].user)
      BY <2>2 DEF RefreshGranted, Granted, Store, ThenClear
    <3>2. Presents(c)
      BY <3>1 DEF Presents
    <3>3. request[c].token \in DOMAIN tokens
      BY <3>1 DEF Causes, AuthBase, Asked
    <3>4. ~Active(tokens[request[c].token].user) => Explained(c)
      BY <3>3 DEF Causes, Shut, Explained, ShutOutMeanwhile
    <3> QED
      BY <1>2, <2>1, <3>1, <3>2, <3>4 DEF Reasons
  <2>3. CASE RefreshDenied(c)
    <3>1. /\ request[c].op = "refresh" /\ emptied' \in {emptied, emptied \cup {c}}
          /\ clearing' \in {clearing, clearing \cup {c}}
          /\ pc[c] \in {"refused", "failed"} \/ c \in lost'
      BY <2>3 DEF RefreshDenied, Clear, ThenClear
    <3>2. Presents(c) /\ Presents(c)'
      BY <1>1, <1>3, <1>5, <3>1 DEF Presents, Sent
    <3>3. Explained(c)'
      <4>1. CASE pc[c] = "refused"
        BY <2>1, <3>1, <4>1 DEF Reasons
      <4>2. CASE pc[c] = "failed" \/ c \in lost'
        BY <1>2, <4>2 DEF Explained, Faulty
      <4> QED
        BY <3>1, <4>1, <4>2
    <3> QED
      BY <1>2, <2>1, <3>1, <3>2, <3>3 DEF Reasons
  <2>4. CASE LoginAnswered(c) \/ LogoutAnswered(c)
    <3>1. clearing' = clearing /\ emptied' = emptied
      BY <2>4, <1>1 DEF LoginAnswered, LogoutAnswered, Store
    <3> QED
      BY <1>2, <2>1, <3>1 DEF Reasons
  <2> QED
    BY <2>2, <2>3, <2>4 DEF Answered
<1>12. Farewell'
  <2>1. ASSUME NEW d \in Calls, pc[d] # "idle", request[d].op = "logout", d \notin waiting'
        PROVE  stored' \notin answered[d] \cup {Origin}
    <3>1. /\ NoToken \notin answered[d] \cup {Origin} /\ c \notin answered[d] \cup {Origin}
      BY <1>1, <1>5, AuthAssumption DEF Storage, Names
    <3> QED
      BY <1>1, <2>1, <3>1 DEF Farewell
  <2> QED
    BY <1>1, <1>2, <2>1 DEF Farewell
<1> QED
  BY <1>7, <1>8, <1>9, <1>10, <1>11, <1>12

LEMMA ClearsKeep ==
  ASSUME AuthBase, BrowserInv, NEW c \in Calls, ClearAgain(c)
  PROVE  BrowserInv'
<1>1. /\ UNCHANGED avars /\ waiting' = waiting /\ lost' = lost /\ answered' = answered
      /\ c \in clearing /\ clearing' = clearing \ {c} /\ stored' = NoToken /\ emptied' \in {emptied, emptied \cup {c}}
  BY DEF ClearAgain, Clear
<1>2. /\ pc' = pc /\ request' = request /\ tokens' = tokens /\ accounts' = accounts /\ before' = before
  BY <1>1 DEF avars
<1>3. NoToken # Origin /\ \A d \in Calls : NoToken \notin answered[d] /\ request[d].token = NoToken => ~Presents(d)
  BY AuthAssumption DEF BrowserInv, Storage, Given, Names, Sent
<1>4. \A d \in Calls : answered[d] \subseteq Calls
  BY DEF BrowserInv, Storage, Sent
<1>5. Causes' /\ Storage' /\ Apart'
  <2>1. Causes'
    BY <1>1, CausesStep DEF ServerNext, BrowserInv
  <2>2. Sent' = Sent /\ \A d : (Presents(d)' <=> Presents(d)) /\ (Faulty(d)' <=> Faulty(d))
    BY <1>1, <1>2 DEF Sent, Presents, Faulty
  <2>3. \A t : Given(t)' <=> Given(t)
    BY <1>1, <1>2, <2>2 DEF Given
  <2>4. Storage'
    BY <1>1, <1>2, <2>2, <2>3 DEF BrowserInv, Storage, Given
  <2>5. Apart'
    BY <1>1, <1>2, <2>2 DEF BrowserInv, Apart
  <2> QED
    BY <2>1, <2>4, <2>5
<1>6. Spent'
  BY <1>1, <1>2, AuthAssumption DEF BrowserInv, Spent, Storage, Given, Presents, Sent, Names
<1>7. \A d \in Calls : Explained(d) => Explained(d)'
  BY <1>1, <1>2 DEF Explained, Faulty, Raced, ShutOutMeanwhile, Hurried
<1>8. Reasons'
  BY <1>1, <1>2, <1>7 DEF BrowserInv, Reasons, Presents
<1>9. Farewell'
  BY <1>1, <1>2, <1>4, AuthAssumption DEF BrowserInv, Farewell, Names
<1> QED
  BY <1>5, <1>6, <1>8, <1>9 DEF BrowserInv

LEMMA BrowserInvInit == Init => BrowserInv
<1> SUFFICES ASSUME Init PROVE BrowserInv
  OBVIOUS
<1>1. Causes
  BY CausesInit DEF Init
<1>2. pc = [c \in Calls |-> "idle"] /\ Sent = {}
  BY DEF Init, AInit, Sent
<1>3. Storage
  BY <1>2 DEF Init, Storage, Given, Presents
<1> QED
  BY <1>1, <1>2, <1>3 DEF BrowserInv, Init, Spent, Apart, Reasons, Farewell, Presents

(* The same beside the tabs of a browser, with what the storage may hold   *)
(* and the reason of every session that was lost.                          *)
THEOREM BrowserInvariant == Spec => [](AuthInv /\ BrowserInv)
<1>1. Init => AuthInv /\ BrowserInv
  BY AuthInvInit, BrowserInvInit DEF Init
<1>2. AuthInv /\ BrowserInv /\ [Next]_vars => (AuthInv /\ BrowserInv)'
  <2> SUFFICES ASSUME AuthInv, BrowserInv, [Next]_vars PROVE AuthInv' /\ BrowserInv'
    OBVIOUS
  <2>1. AuthInv'
    BY BrowserMoves, AuthInvStep
  <2>2. CASE UNCHANGED vars
    <3>1. UNCHANGED <<accounts, tokens, pc, request, before>> /\ UNCHANGED bvars
      BY <2>2 DEF vars, avars
    <3>2. Causes'
      BY <2>2, CausesStep DEF vars, ServerNext, AuthInv, BrowserInv
    <3>3. Sent' = Sent /\ \A d : (Presents(d)' <=> Presents(d)) /\ (Faulty(d)' <=> Faulty(d))
      BY <3>1 DEF Sent, Presents, Faulty, bvars
    <3>4. \A t : Given(t)' <=> Given(t)
      BY <3>1, <3>3 DEF Given, bvars
    <3>5. \A d \in Calls : Explained(d)' <=> Explained(d)
      BY <3>1, <3>3 DEF Explained, Raced, ShutOutMeanwhile, Hurried, bvars
    <3>6. Storage'
      BY <3>1, <3>3, <3>4 DEF BrowserInv, Storage, Given, bvars
    <3>7. Spent' /\ Apart'
      BY <3>1, <3>3 DEF BrowserInv, Spent, Apart, bvars
    <3>8. Reasons' /\ Farewell'
      BY <3>1, <3>3, <3>5 DEF BrowserInv, Reasons, Farewell, bvars
    <3> QED
      BY <2>1, <3>2, <3>6, <3>7, <3>8 DEF BrowserInv
  <2> QED
    BY <2>1, <2>2, NextMoves, ServerMoveKeeps, SendsKeep, AnswersKeep, ClearsKeep DEF AuthInv
<1> QED
  BY <1>1, <1>2, PTL DEF Spec

(* A session disappears from a browser only for a reason (tryRefresh in    *)
(* api-client.ts), and a logout, whatever came of it, leaves no older      *)
(* token in the storage, however many tabs and other callers there are.    *)
THEOREM SessionsAreKept == Spec => []SessionKept
<1>1. BrowserInv => SessionKept
  BY DEF BrowserInv, Reasons, Farewell, SessionKept
<1> QED
  BY <1>1, BrowserInvariant, PTL

-----------------------------------------------------------------------------
(***************************************************************************)
(* The rate limiter.                                                       *)
(***************************************************************************)
(* What the limiter no longer remembers is older than the window of some   *)
(* call it has decided; what it remembers was accepted.                    *)
Remembered ==
  /\ \A q \in hits : verdict[q] = "accepted"
  /\ \A q \in decided :
       verdict[q] = "accepted" /\ q \notin hits
         => \E d \in decided : stamp[d] - stamp[q] >= Window

Bound == \A s \in 0..MaxTime : Cardinality(InWindow(s)) <= limit

ErrorsExplained == \A r \in decided : verdict[r] = "error" => limit = 0

Decided == \A r \in decided : verdict[r] \in {"accepted", "refused", "error"}

RInv == RTypeOK /\ Remembered /\ Bound /\ ErrorsExplained /\ Decided

(* A set of calls is finite, and so is every part of it.                   *)
LEMMA CallsFinite == ASSUME NEW S \in SUBSET Requests PROVE IsFiniteSet(S)
  BY LimiterAssumption, FS_Subset

(* A step that leaves the calls decided, their times and their verdicts    *)
(* alone keeps the invariant.                                              *)
LEMMA SameCalls ==
  ASSUME RInv, RTypeOK', UNCHANGED <<limit, hits, decided, overtaken>>,
         \A q \in decided : stamp'[q] = stamp[q] /\ verdict'[q] = verdict[q]
  PROVE  RInv'
<1>1. \A s : InWindow(s)' = InWindow(s)
  BY DEF InWindow, Timely
<1>2. Bound'
  BY <1>1 DEF RInv, Bound
<1>3. Remembered' /\ ErrorsExplained' /\ Decided'
  BY DEF RInv, Remembered, ErrorsExplained, Decided, RTypeOK
<1> QED BY <1>2, <1>3 DEF RInv

(* A limiter just built remembers nothing and has decided nothing.         *)
LEMMA NothingDecided ==
  ASSUME RTypeOK, decided = {}, hits = {} PROVE RInv
<1>1. ASSUME NEW s \in 0..MaxTime PROVE Cardinality(InWindow(s)) <= limit
  <2>1. InWindow(s) = {}
    BY DEF InWindow, Timely
  <2> QED BY <2>1, FS_EmptySet, LimiterAssumption DEF RTypeOK
<1> QED BY <1>1 DEF RInv, Remembered, Bound, ErrorsExplained, Decided

(* The decision of one call.  If nobody overtook it, what it counts        *)
(* contains everything the limiter accepted in an interval that holds its  *)
(* time.                                                                   *)
LEMMA AllowKeeps ==
  ASSUME RInv, NEW r \in Requests, Allow(r) PROVE RInv'
<1> USE DEF RInv, RTypeOK
<1> DEFINE full == Cardinality(Kept(r)) >= limit
<1>a. limit \in Nat /\ Window \in Nat /\ stamp[r] \in Nat
  BY LimiterAssumption
<1>b. Kept(r) \subseteq Requests /\ IsFiniteSet(Kept(r)) /\ Cardinality(Kept(r)) \in Nat
  <2>1. Kept(r) \subseteq Requests
    BY DEF Kept
  <2> QED BY <2>1, CallsFinite, FS_CardinalityType
<1>c. r \notin decided
  BY DEF Allow, Decided
<1>d. /\ decided' = decided \cup {r} /\ stamp' = stamp /\ limit' = limit
      /\ \A q \in decided : verdict'[q] = verdict[q]
  BY <1>c DEF Allow
<1>e. verdict'[r] \in {"accepted", "refused", "error"} /\ (verdict'[r] = "accepted" <=> ~full)
  BY DEF Allow
<1>1. RTypeOK'
  <2>1. verdict' \in [Requests -> Verdicts]
    BY DEF Allow, Verdicts
  <2> QED BY <2>1 DEF Allow, Kept
<1>2. Remembered'
  <2>1. \A q \in hits' : verdict'[q] = "accepted"
    BY <1>c, <1>d, <1>e DEF Allow, Kept, Remembered
  <2>2. ASSUME NEW q \in decided', verdict'[q] = "accepted", q \notin hits'
        PROVE  \E d \in decided' : stamp'[d] - stamp'[q] >= Window
    <3>1. q # r
      BY <2>2, <1>e DEF Allow
    <3>2. CASE q \in hits
      <4>1. ~(stamp[r] - stamp[q] < Window)
        BY <2>2, <3>2 DEF Allow, Kept
      <4> QED BY <4>1, <1>a, <1>d, <3>2
    <3>3. CASE q \notin hits
      BY <2>2, <3>1, <3>3, <1>d DEF Remembered
    <3> QED BY <3>2, <3>3
  <2> QED BY <2>1, <2>2 DEF Remembered
<1>3. Bound'
  <2> SUFFICES ASSUME NEW s \in 0..MaxTime PROVE Cardinality(InWindow(s)') <= limit
    BY <1>d DEF Bound
  <2>1. IsFiniteSet(InWindow(s)) /\ Cardinality(InWindow(s)) <= limit
    <3>1. InWindow(s) \subseteq Requests
      BY DEF InWindow, Timely
    <3> QED BY <3>1, CallsFinite DEF Bound
  <2>2. CASE r \notin InWindow(s)'
    <3>1. InWindow(s)' = InWindow(s)
      BY <2>2, <1>c, <1>d DEF InWindow, Timely, Allow
    <3> QED BY <3>1, <2>1
  <2>3. CASE r \in InWindow(s)'
    <3>1. verdict'[r] = "accepted" /\ r \notin overtaken' /\ s <= stamp[r] /\ stamp[r] < s + Window
      BY <2>3, <1>d DEF InWindow, Timely
    <3>2. \A d \in decided : stamp[d] <= stamp[r]
      BY <3>1, <1>a DEF Allow
    <3>3. InWindow(s) \subseteq Kept(r)
      <4> SUFFICES ASSUME NEW q \in InWindow(s) PROVE q \in Kept(r)
        OBVIOUS
      <4>1. q \in decided /\ verdict[q] = "accepted" /\ s <= stamp[q] /\ stamp[q] \in Nat
        BY DEF InWindow, Timely
      <4>2. \A d \in decided : stamp[d] \in Nat /\ stamp[d] - stamp[q] < Window
        BY <4>1, <3>1, <3>2, <1>a
      <4>3. q \in hits
        BY <4>1, <4>2, <1>a DEF Remembered
      <4> QED BY <4>1, <4>3, <3>1, <1>a DEF Kept
    <3>4. InWindow(s)' \subseteq Kept(r) \cup {r}
      BY <3>3, <1>c, <1>d DEF InWindow, Timely, Allow
    <3>5. /\ IsFiniteSet(Kept(r) \cup {r})
          /\ Cardinality(Kept(r) \cup {r}) = Cardinality(Kept(r)) + 1
      BY <1>b, <1>c, FS_AddElement DEF Kept
    <3>6. Cardinality(InWindow(s)') <= Cardinality(Kept(r)) + 1
      BY <3>4, <3>5, FS_Subset
    <3>7. Cardinality(Kept(r)) < limit
      BY <3>1, <1>a, <1>b, <1>e
    <3>8. Cardinality(InWindow(s)') \in Nat
      BY <3>4, <3>5, FS_Subset, FS_CardinalityType
    <3> QED BY <3>6, <3>7, <3>8, <1>a, <1>b
  <2> QED BY <2>2, <2>3
<1>4. ErrorsExplained'
  <2>1. verdict'[r] = "error" => limit = 0
    <3> SUFFICES ASSUME verdict'[r] = "error" PROVE limit = 0
      OBVIOUS
    <3>1. Kept(r) = {} /\ full
      BY DEF Allow
    <3> QED BY <3>1, <1>a, FS_EmptySet
  <2> QED BY <2>1, <1>d DEF ErrorsExplained
<1>5. Decided'
  BY <1>d, <1>e DEF Decided
<1> QED BY <1>1, <1>2, <1>3, <1>4, <1>5

(* Types, what the limiter remembers, the bound: inductive together.       *)
THEOREM LimiterInvariant == RSpec => []RInv
<1>1. RInit => RInv
  <2> SUFFICES ASSUME RInit PROVE RInv
    OBVIOUS
  <2>1. RTypeOK
    BY LimiterAssumption DEF RInit, RTypeOK, Verdicts
  <2> QED BY <2>1, NothingDecided DEF RInit
<1>2. RInv /\ [RNext]_rvars => RInv'
  <2> SUFFICES ASSUME RInv, [RNext]_rvars PROVE RInv'
    OBVIOUS
  <2> USE DEF RTypeOK
  <2>1. CASE Tick
    <3>1. RTypeOK'
      BY <2>1 DEF RInv, Tick
    <3> QED BY <2>1, <3>1, SameCalls DEF Tick
  <2>2. ASSUME NEW r \in Requests, Arrive(r) PROVE RInv'
    <3>1. RTypeOK'
      BY <2>2 DEF RInv, Arrive, Verdicts
    <3>2. r \notin decided
      BY <2>2 DEF RInv, Decided, Arrive
    <3> QED BY <2>2, <3>1, <3>2, SameCalls DEF Arrive, RInv
  <2>3. ASSUME NEW r \in Requests, Allow(r) PROVE RInv'
    BY <2>3, AllowKeeps
  <2>4. ASSUME NEW max \in Limits, Rebuilt(max) PROVE RInv'
    <3>1. RTypeOK'
      BY <2>4 DEF RInv, Rebuilt, Verdicts
    <3>2. decided' = {} /\ hits' = {} /\ limit' \in Limits
      BY <2>4 DEF Rebuilt
    <3>3. \A s : InWindow(s)' = {}
      BY <3>2 DEF InWindow, Timely
    <3>4. Bound'
      BY <3>2, <3>3, FS_EmptySet, LimiterAssumption DEF Bound
    <3> QED BY <3>1, <3>2, <3>4 DEF RInv, Remembered, ErrorsExplained, Decided
  <2>5. CASE UNCHANGED rvars
    BY <2>5, SameCalls DEF rvars, RInv
  <2> QED BY <2>1, <2>2, <2>3, <2>4, <2>5 DEF RNext
<1> QED BY <1>1, <1>2, PTL DEF RSpec

(* Every variable of the limiter keeps its type.                           *)
THEOREM LimiterTypes == RSpec => []RTypeOK
  BY LimiterInvariant, PTL DEF RInv

(* The limiter never accepts more than its limit in an interval of the     *)
(* length of its window, overtaken calls left out, and fails only when the *)
(* limit is zero.                                                          *)
THEOREM LimiterBound == RSpec => []WindowBound
<1>1. RInv => WindowBound
  BY DEF RInv, WindowBound, Bound, ErrorsExplained
<1> QED BY <1>1, LimiterInvariant, PTL

-----------------------------------------------------------------------------
(***************************************************************************)
(* The page of one invoice: once at rest, it tells how its analyses ended. *)
(***************************************************************************)
KnownState == {"none"} \cup TaskState
CallType == [at : {"idle", "sent", "accepted", "refused", "done"}, op : {"none", "process", "retry"}]
PollType == [n : Nat, task : Tasks, first : BOOLEAN, state : KnownState, turn : Nat]

PageTypes ==
  /\ task \in [Tasks -> KnownState]
  /\ call \in [Tasks -> CallType]
  /\ polls \subseteq PollType
  /\ sent \in Nat /\ turns \in Nat /\ latest \in Nat
  /\ timer \in BOOLEAN /\ (timer => watched \in Tasks)

(* What the page has been answered stays true of a settled task: an answer *)
(* served later tells the same.                                            *)
Truth ==
  /\ \A t \in Tasks : call[t].at \in {"idle", "sent"} => task[t] = "none"
  /\ \A t \in Tasks : task[t] \in {"none", "PENDING"} => t \notin analysed
  /\ \A p \in polls : p.state \in Settled => task[p.task] = p.state
  /\ \A p \in polls : p.state # "none" => p.turn <= turns
  /\ \A p, q \in polls :
       p.state \in Settled /\ q.state # "none" /\ p.task = q.task /\ p.turn <= q.turn => q.state = p.state
  /\ \A t \in Tasks : shown = [task |-> t, state |-> "FAILED"] => task[t] = "FAILED"

LEMMA PollFields ==
  ASSUME NEW n \in Nat, NEW t \in Tasks
  PROVE  /\ Poll(n, t, TRUE) \in PollType /\ Poll(n, t, TRUE).state = "none"
         /\ Poll(n, t, TRUE).task = t /\ Poll(n, t, TRUE).first = TRUE
         /\ Poll(n, t, FALSE) \in PollType /\ Poll(n, t, FALSE).state = "none"
         /\ Poll(n, t, FALSE).task = t /\ Poll(n, t, FALSE).first = FALSE
  BY DEF Poll, PollType, KnownState

(* How the call of an analysis goes on.                                    *)
CallGoes(t, a) ==
  /\ call' \in [Tasks -> CallType] /\ call'[t].at = a /\ call'[t].op = call[t].op
  /\ \A u \in Tasks \ {t} : call'[u] = call[u]

LEMMA CallFields ==
  ASSUME PageTypes, NEW t \in Tasks, NEW a \in {"idle", "sent", "accepted", "refused", "done"},
         call' = [call EXCEPT ![t].at = a]
  PROVE  CallGoes(t, a)
<1>1. call \in [Tasks -> CallType] /\ call[t] \in CallType
  BY DEF PageTypes
<1>2. [call[t] EXCEPT !.at = a] \in CallType /\ [call[t] EXCEPT !.at = a].at = a
      /\ [call[t] EXCEPT !.at = a].op = call[t].op
  BY <1>1 DEF CallType
<1>3. call' = [call EXCEPT ![t] = [call[t] EXCEPT !.at = a]]
  OBVIOUS
<1> QED
  BY <1>1, <1>2, <1>3 DEF CallGoes

LEMMA CallMoves ==
  ASSUME PageTypes, NEW t \in Tasks
  PROVE  /\ CallServed(t) => CallGoes(t, IF Accepted(t) THEN "accepted" ELSE "refused")
         /\ CallEnds(t) \/ CallFails(t) => CallGoes(t, "done")
         /\ Click(t) => /\ call' \in [Tasks -> CallType] /\ call'[t].at = "sent"
                        /\ \A u \in Tasks \ {t} : call'[u] = call[u]
<1>1. CallServed(t) => CallGoes(t, IF Accepted(t) THEN "accepted" ELSE "refused")
  <2>1. CASE Accepted(t)
    BY <2>1, CallFields DEF CallServed
  <2>2. CASE ~Accepted(t)
    BY <2>2, CallFields DEF CallServed
  <2> QED
    BY <2>1, <2>2
<1>2. CallEnds(t) \/ CallFails(t) => CallGoes(t, "done")
  BY CallFields DEF CallEnds, CallFails
<1>3. Click(t) => /\ call' \in [Tasks -> CallType] /\ call'[t].at = "sent"
                  /\ \A u \in Tasks \ {t} : call'[u] = call[u]
  BY DEF Click, PageTypes, CallType
<1> QED
  BY <1>1, <1>2, <1>3

Served(p) == [p EXCEPT !.state = task[p.task], !.turn = turns + 1]

LEMMA ServedFields ==
  ASSUME PageTypes, NEW p \in polls
  PROVE  /\ Served(p) \in PollType /\ Served(p).state = task[p.task] /\ Served(p).turn = turns + 1
         /\ Served(p).task = p.task /\ Served(p).first = p.first
<1>1. p \in PollType /\ task[p.task] \in KnownState /\ turns + 1 \in Nat
  BY DEF PageTypes, PollType
<1> QED
  BY <1>1 DEF Served, PollType

LEMMA PageTypesInit == PInit => PageTypes /\ Truth
<1> SUFFICES ASSUME PInit PROVE PageTypes /\ Truth
  OBVIOUS
<1>1. PageTypes
  BY DEF PInit, PageTypes, KnownState, CallType
<1>2. \A t \in Tasks : [task |-> t, state |-> "FAILED"] \in [task : Tasks, state : TaskState \cup {"none"}]
  BY DEF TaskState
<1>3. Truth
  BY <1>2, PageAssumption DEF PInit, Truth
<1> QED
  BY <1>1, <1>3

LEMMA PageTypesStep ==
  ASSUME PageTypes, [PNext]_pvars
  PROVE  PageTypes'
<1> USE DEF PageTypes
<1>1. ASSUME NEW t \in Tasks, JobStarts(t) \/ Analyse(t) \/ JobSucceeds(t) \/ JobFails(t)
      PROVE  PageTypes'
  BY <1>1 DEF JobStarts, Analyse, JobSucceeds, JobFails, panelVars, KnownState, TaskState
<1>2. ASSUME NEW t \in Tasks, Click(t) \/ CallServed(t)
      PROVE  PageTypes'
  <2>1. call' \in [Tasks -> CallType]
    BY <1>2, CallMoves DEF CallGoes
  <2>2. task' = task \/ task' = [task EXCEPT ![t] = "PENDING"]
    BY <1>2 DEF Click, CallServed, serverVars
  <2>3. task' \in [Tasks -> KnownState]
    BY <2>2 DEF KnownState, TaskState
  <2>4. UNCHANGED <<polls, sent, turns, latest, timer, watched>>
    BY <1>2 DEF Click, CallServed, panelVars
  <2> QED
    BY <2>1, <2>3, <2>4
<1>3. ASSUME NEW t \in Tasks, CallEnds(t) \/ CallFails(t)
      PROVE  PageTypes'
  <2>1. sent + 1 \in Nat
    OBVIOUS
  <2>3. Poll(sent + 1, t, TRUE) \in PollType
    BY <2>1, PollFields
  <2>2. call' \in [Tasks -> CallType]
    BY <1>3, CallMoves DEF CallGoes
  <2>4. task' = task /\ turns' = turns /\ latest' = latest /\ sent' \in {sent, sent + 1}
    BY <1>3 DEF CallEnds, CallFails, serverVars
  <2>5. polls' \subseteq polls \cup {Poll(sent + 1, t, TRUE)}
    BY <1>3 DEF CallEnds, CallFails, Reload
  <2>6. timer' = FALSE \/ UNCHANGED <<timer, watched>>
    BY <1>3 DEF CallEnds, CallFails, Reload
  <2>7. timer' \in BOOLEAN /\ (timer' => watched' \in Tasks)
    <3>1. CASE timer' = FALSE
      BY <3>1
    <3>2. CASE timer' = timer /\ watched' = watched
      BY <3>2
    <3> QED
      BY <2>6, <3>1, <3>2
  <2>8. polls' \subseteq PollType /\ sent' \in Nat
    BY <2>1, <2>3, <2>4, <2>5
  <2> QED
    BY <2>2, <2>4, <2>7, <2>8
<1>4. CASE LoadServed \/ LoadEnds \/ LoadFails
  BY <1>4 DEF LoadServed, LoadEnds, LoadFails, panelVars, serverVars
<1>5. CASE NextPoll
  <2>1. sent + 1 \in Nat /\ watched \in Tasks
    BY <1>5 DEF NextPoll
  <2>2. Poll(sent + 1, watched, FALSE) \in PollType
    BY <2>1, PollFields
  <2> QED
    BY <1>5, <2>1, <2>2 DEF NextPoll, serverVars
<1>6. ASSUME NEW p \in polls, PollServed(p)
      PROVE  PageTypes'
  <2>1. polls' = (polls \ {p}) \cup {Served(p)} /\ turns' = turns + 1
    BY <1>6 DEF PollServed, Served
  <2>2. Served(p) \in PollType
    BY ServedFields
  <2> QED
    BY <1>6, <2>1, <2>2 DEF PollServed, serverVars
<1>7. ASSUME NEW p \in polls, PollEnds(p) \/ PollFails(p)
      PROVE  PageTypes'
  <2>1. p \in PollType /\ p.task \in Tasks /\ p.turn \in Nat
    BY DEF PollType
  <2> QED
    BY <1>7, <2>1 DEF PollEnds, PollFails, serverVars, Reload, Continues
<1>8. CASE UNCHANGED pvars
  BY <1>8 DEF pvars, serverVars, panelVars
<1> QED
  BY <1>1, <1>2, <1>3, <1>4, <1>5, <1>6, <1>7, <1>8 DEF PNext

(* A task that is settled stays so, and one begins only with its call.     *)
TaskMoves ==
  /\ \A t \in Tasks : task[t] \in Settled => task'[t] = task[t]
  /\ \A t \in Tasks : call'[t].at \in {"idle", "sent"} => task'[t] = "none"
  /\ \A t \in Tasks : task'[t] \in {"none", "PENDING"} => t \notin analysed'

LEMMA TaskMovesStep ==
  ASSUME PageTypes, Truth, [PNext]_pvars
  PROVE  TaskMoves
<1> USE DEF PageTypes, Truth, TaskMoves, Settled
<1>1. ASSUME NEW t \in Tasks, JobStarts(t) \/ Analyse(t) \/ JobSucceeds(t) \/ JobFails(t)
      PROVE  TaskMoves
  BY <1>1 DEF JobStarts, Analyse, JobSucceeds, JobFails
<1>2. ASSUME NEW t \in Tasks, Click(t) \/ CallServed(t) \/ CallEnds(t) \/ CallFails(t)
      PROVE  TaskMoves
  <2>1. /\ call'[t].at \in {"sent", "accepted", "refused", "done"}
        /\ \A u \in Tasks \ {t} : call'[u] = call[u]
    BY <1>2, CallMoves DEF CallGoes
  <2>2. analysed' = analysed /\ \A u \in Tasks \ {t} : task'[u] = task[u]
    BY <1>2 DEF Click, CallServed, CallEnds, CallFails, serverVars
  <2>3. task[t] \in Settled => task'[t] = task[t]
    BY <1>2 DEF Click, CallServed, CallEnds, CallFails, serverVars
  <2>4. call'[t].at \in {"idle", "sent"} => task'[t] = "none"
    BY <1>2, <2>1, CallMoves DEF Click, CallServed, CallEnds, CallFails, CallGoes, serverVars
  <2>5. task'[t] \in {"none", "PENDING"} => t \notin analysed
    BY <1>2 DEF Click, CallServed, CallEnds, CallFails, serverVars
  <2> QED
    BY <2>1, <2>2, <2>3, <2>4, <2>5
<1>3. CASE LoadServed \/ LoadEnds \/ LoadFails \/ NextPoll
  BY <1>3 DEF LoadServed, LoadEnds, LoadFails, NextPoll, serverVars
<1>4. ASSUME NEW p \in polls, PollServed(p) \/ PollEnds(p) \/ PollFails(p)
      PROVE  TaskMoves
  BY <1>4 DEF PollServed, PollEnds, PollFails, serverVars
<1>5. CASE UNCHANGED pvars
  BY <1>5 DEF pvars, serverVars
<1> QED
  BY <1>1, <1>2, <1>3, <1>4, <1>5 DEF PNext

LEMMA TruthStep ==
  ASSUME PageTypes, Truth, [PNext]_pvars
  PROVE  Truth'
<1>1. TaskMoves
  BY TaskMovesStep
<1>2. polls \subseteq PollType /\ \A p \in polls : p.task \in Tasks /\ p.turn \in Nat
  BY DEF PageTypes, PollType
<1>3. ASSUME \A p \in polls' : p \in polls \/ p.state = "none", turns' = turns,
             shown' = shown
      PROVE  Truth'
  BY <1>1, <1>2, <1>3 DEF TaskMoves, Truth, Settled
<1>4. ASSUME NEW p \in polls, PollServed(p)
      PROVE  Truth'
  <2> DEFINE s == Served(p)
  <2>1. /\ polls' = (polls \ {p}) \cup {s} /\ turns' = turns + 1 /\ shown' = shown /\ task' = task
    BY <1>4 DEF PollServed, Served, serverVars
  <2>2. s.state = task[s.task] /\ s.turn = turns + 1 /\ s.task \in Tasks
    BY <1>2, ServedFields
  <2> HIDE DEF s
  <2>3. turns \in Nat
    BY DEF PageTypes
  <2>4. ASSUME NEW q \in polls'
        PROVE  /\ q.state \in Settled => task'[q.task] = q.state
               /\ q.state # "none" => q.turn <= turns'
    BY <1>2, <2>1, <2>2, <2>3, <2>4 DEF Truth, Settled
  <2>5. ASSUME NEW q \in polls', NEW r \in polls',
               q.state \in Settled, r.state # "none", q.task = r.task, q.turn <= r.turn
        PROVE  r.state = q.state
    <3>1. CASE r = s
      BY <2>1, <2>2, <2>4, <2>5, <3>1
    <3>2. CASE q = s /\ r # s
      <4>1. r \in polls /\ r.turn <= turns /\ r.turn \in Nat
        BY <1>2, <2>1, <2>5, <3>2 DEF Truth
      <4> QED
        BY <2>2, <2>3, <2>5, <3>2, <4>1
    <3>3. CASE q # s /\ r # s
      BY <2>1, <2>5, <3>3 DEF Truth
    <3> QED
      BY <3>1, <3>2, <3>3
  <2> QED
    BY <1>1, <2>1, <2>4, <2>5 DEF Truth, TaskMoves
<1>5. ASSUME NEW p \in polls, PollEnds(p)
      PROVE  Truth'
  <2>1. polls' \subseteq polls /\ turns' = turns /\ task' = task
    BY <1>5 DEF PollEnds, Reload, serverVars
  <2>2. \/ p.state = "SUCCEEDED" /\ shown' = NoTask
        \/ shown' = [task |-> p.task, state |-> p.state]
    BY <1>5 DEF PollEnds, Reload
  <2>3. \A t \in Tasks : shown' = [task |-> t, state |-> "FAILED"] => task'[t] = "FAILED"
    <3>1. \A t \in Tasks : [task |-> t, state |-> "FAILED"] # NoTask
      BY PageAssumption DEF TaskState
    <3>2. ASSUME NEW t \in Tasks, [task |-> p.task, state |-> p.state] = [task |-> t, state |-> "FAILED"]
          PROVE  p.task = t /\ p.state = "FAILED"
      BY <3>2
    <3> QED
      BY <2>1, <2>2, <3>1, <3>2 DEF Truth, Settled
  <2> QED
    BY <1>1, <2>1, <2>3 DEF Truth, TaskMoves
<1>6. ASSUME NEW t \in Tasks, CallEnds(t)
      PROVE  Truth'
  <2>1. CASE call[t].op = "process" /\ t \in live /\ call[t].at = "accepted"
    <3>1. polls' = {} /\ shown' = NoTask
      BY <1>6, <2>1 DEF CallEnds, Reload
    <3>2. \A u \in Tasks : [task |-> u, state |-> "FAILED"] # NoTask
      BY PageAssumption DEF TaskState
    <3> QED
      BY <1>1, <3>1, <3>2 DEF Truth, TaskMoves
  <2>2. CASE ~(call[t].op = "process" /\ t \in live /\ call[t].at = "accepted")
    <3>1. Poll(sent + 1, t, TRUE).state = "none"
      BY DEF Poll
    <3>2. turns' = turns /\ shown' = shown /\ \A p \in polls' : p \in polls \/ p.state = "none"
      BY <1>6, <2>2, <3>1 DEF CallEnds
    <3> QED
      BY <1>3, <3>2
  <2> QED
    BY <2>1, <2>2
<1>7. CASE (\E t \in Tasks : JobStarts(t) \/ Analyse(t) \/ JobSucceeds(t) \/ JobFails(t) \/ Click(t)
                             \/ CallServed(t) \/ CallFails(t)) \/ LoadServed \/ LoadEnds \/ LoadFails
           \/ (\E p \in polls : PollFails(p)) \/ UNCHANGED pvars
  <2>1. turns' = turns /\ shown' = shown /\ polls' \subseteq polls
    BY <1>7 DEF JobStarts, Analyse, JobSucceeds, JobFails, Click, CallServed, CallFails, LoadServed, LoadEnds,
       LoadFails, PollFails, panelVars, pvars
  <2> QED
    BY <1>3, <2>1
<1>8. CASE NextPoll
  <2>1. Poll(sent + 1, watched, FALSE).state = "none"
    BY DEF Poll
  <2>2. turns' = turns /\ shown' = shown /\ \A p \in polls' : p \in polls \/ p.state = "none"
    BY <1>8, <2>1 DEF NextPoll
  <2> QED
    BY <1>3, <2>2
<1> QED
  BY <1>4, <1>5, <1>6, <1>7, <1>8 DEF PNext

-----------------------------------------------------------------------------
(* The four moments of a page that nothing has misled: it loads; it is at  *)
(* rest after that; the call of one analysis is under way; the task of a   *)
(* retry is watched, until its failure is displayed and after.  Told(t):   *)
(* the page shows the status that the analysis t has found, unless its     *)
(* transaction has committed, and then its task cannot fail any more.      *)
Quiet(t) == task[t] \in {"none"} \cup Settled
Idle(t)  == call[t].at \in {"idle", "done"}

Told(t) ==
  /\ t \notin analysed => seen = status
  /\ task[t] = "FAILED" => t \notin analysed

Shows(t) == shown = [task |-> t, state |-> "FAILED"] /\ task[t] = "FAILED"

Loading ==
  /\ view \in {"asked", "answered"} /\ watched = NoTask /\ polls = {} /\ ~timer
  /\ \A t \in Tasks : Idle(t) /\ Quiet(t)
  /\ view = "answered" => seen = status

AtRest ==
  /\ Resting /\ watched = NoTask /\ seen = status
  /\ \A t \in Tasks : Quiet(t)

Asking(t) ==
  /\ view = "panel" /\ polls = {} /\ ~timer /\ t \in live
  /\ call[t].at \in {"sent", "accepted"} /\ call[t].op \in {"process", "retry"}
  /\ \A u \in Tasks \ {t} : Idle(u) /\ Quiet(u)
  /\ call[t].at = "sent" => seen = status
  /\ call[t].op = "retry" => seen = "SYSTEM_ERROR" /\ Told(t)

Watching(w) ==
  /\ view = "panel" /\ watched = w
  /\ \A u \in Tasks : Idle(u) /\ (u # w => Quiet(u))
  /\ Told(w)
  /\ \A p \in polls : p.task = w /\ (p.first => polls = {p} /\ ~timer)
  /\ timer \/ Shows(w) \/ \E p \in polls : p.first
  /\ Shows(w) => \A q \in polls : q.state # "none" /\ q.turn >= latest => q.state = "FAILED"

Moment == Loading \/ AtRest \/ \E t \in Tasks : Asking(t) \/ Watching(t)

PageInv == upset = {} => Moment

LEMMA JobKeeps ==
  ASSUME PageTypes, Truth, Moment, upset' = {},
         NEW t \in Tasks, JobStarts(t) \/ Analyse(t) \/ JobSucceeds(t) \/ JobFails(t)
  PROVE  Moment'
<1>1. /\ task[t] \in {"PENDING", "RUNNING"} /\ UNCHANGED <<view, seen, call, panelVars>>
      /\ \A u \in Tasks \ {t} : task'[u] = task[u]
  BY DEF JobStarts, Analyse, JobSucceeds, JobFails, PageTypes
<1>2. ~Quiet(t) /\ call[t].at \notin {"idle", "sent"} /\ ~Shows(t) /\ shown # [task |-> t, state |-> "FAILED"]
  BY <1>1 DEF Quiet, Settled, Truth, Shows
<1>3. /\ t \notin analysed' => status' = status /\ t \notin analysed
      /\ task'[t] = "FAILED" => t \notin analysed'
  BY DEF JobStarts, Analyse, JobSucceeds, JobFails, PageTypes
<1>4. ASSUME Told(t) PROVE Told(t)'
  BY <1>1, <1>3, <1>4 DEF Told
<1>5. ~Loading /\ ~AtRest
  BY <1>2 DEF Loading, AtRest
<1>6. ASSUME NEW u \in Tasks, Asking(u)
      PROVE  Asking(u)'
  <2>1. u = t /\ call[t].at = "accepted"
    BY <1>2, <1>6 DEF Asking
  <2> QED
    BY <1>1, <1>4, <1>6, <2>1 DEF Asking, Idle, Quiet, panelVars
<1>7. ASSUME NEW w \in Tasks, Watching(w)
      PROVE  Watching(w)'
  <2>1. w = t
    BY <1>2, <1>7 DEF Watching
  <2>2. ~Shows(t)'
    BY <1>1, <1>2 DEF Shows, panelVars
  <2>3. timer \/ \E p \in polls : p.first
    BY <1>2, <1>7, <2>1 DEF Watching
  <2> QED
    BY <1>1, <1>4, <1>7, <2>1, <2>2, <2>3 DEF Watching, Idle, Quiet, panelVars
<1> QED
  BY <1>5, <1>6, <1>7 DEF Moment

LEMMA ClickKeeps ==
  ASSUME PageTypes, Truth, Moment, upset' = {}, NEW t \in Tasks, Click(t)
  PROVE  Asking(t)'
<1>1. Resting /\ seen \in Analysable /\ call[t].at = "idle" /\ task[t] = "none" /\ t \notin analysed
  BY DEF Click, Truth
<1>2. seen = status /\ \A u \in Tasks : Quiet(u)
  <2>1. ~Loading /\ \A u \in Tasks : ~Asking(u)
    BY <1>1 DEF Resting, Loading, Asking
  <2>2. ASSUME NEW w \in Tasks, Watching(w)
        PROVE  seen = status /\ \A u \in Tasks : Quiet(u)
    <3>1. Shows(w)
      BY <1>1, <2>2 DEF Resting, Watching
    <3> QED
      BY <2>2, <3>1 DEF Watching, Shows, Told, Quiet, Settled
  <2> QED
    BY <2>1, <2>2 DEF Moment, AtRest
<1>3. /\ call' = [call EXCEPT ![t] = [at |-> "sent", op |-> IF seen = "SUBMITTED" THEN "process" ELSE "retry"]]
      /\ live' = live \cup {t} /\ UNCHANGED <<serverVars, view, seen, timer, polls>>
  BY DEF Click
<1>4. /\ call'[t].at = "sent" /\ call'[t].op = IF seen = "SUBMITTED" THEN "process" ELSE "retry"
      /\ \A u \in Tasks \ {t} : call'[u] = call[u]
  BY <1>3 DEF PageTypes
<1>5. call'[t].op \in {"process", "retry"} /\ (call'[t].op = "retry" => seen = "SYSTEM_ERROR")
  BY <1>1, <1>4 DEF Analysable
<1>6. Told(t)'
  BY <1>1, <1>2, <1>3 DEF Told, serverVars
<1>7. \A u \in Tasks \ {t} : Idle(u)' /\ Quiet(u)'
  BY <1>1, <1>2, <1>3, <1>4 DEF Idle, Quiet, Resting, serverVars
<1> QED
  BY <1>1, <1>2, <1>3, <1>4, <1>5, <1>6, <1>7 DEF Asking, Resting, serverVars

LEMMA CallServedKeeps ==
  ASSUME PageTypes, Truth, Moment, NEW t \in Tasks, CallServed(t)
  PROVE  Asking(t)'
<1>1. call[t].at = "sent" /\ task[t] = "none" /\ t \notin analysed
  BY DEF CallServed, Truth
<1>2. Asking(t)
  BY <1>1 DEF Moment, Loading, AtRest, Asking, Watching, Idle, Resting
<1>3. Accepted(t) /\ seen = status
  BY <1>1, <1>2 DEF Asking, Accepted
<1>4. CallGoes(t, "accepted") /\ task' = [task EXCEPT ![t] = "PENDING"]
      /\ UNCHANGED <<status, analysed, view, seen, panelVars>>
  BY <1>3, CallMoves DEF CallServed
<1>5. Told(t)'
  BY <1>1, <1>3, <1>4 DEF Told, PageTypes
<1>6. \A u \in Tasks \ {t} : Idle(u)' /\ Quiet(u)'
  BY <1>2, <1>4 DEF Idle, Quiet, Asking, CallGoes, PageTypes
<1> QED
  BY <1>2, <1>4, <1>5, <1>6 DEF Asking, CallGoes, panelVars

LEMMA CallEndsKeeps ==
  ASSUME PageTypes, Truth, Moment, upset' = {}, NEW t \in Tasks, CallEnds(t)
  PROVE  Watching(t)'
<1>1. Asking(t) /\ call[t].at = "accepted"
  BY DEF CallEnds, Moment, Loading, AtRest, Asking, Watching, Idle, Resting
<1>2. /\ call[t].op = "retry" /\ watched' = t /\ timer' = FALSE
      /\ polls' = {Poll(sent + 1, t, TRUE)} /\ UNCHANGED <<view, serverVars, seen, latest, shown>>
  BY <1>1 DEF CallEnds, Asking
<1>3. Poll(sent + 1, t, TRUE).state = "none" /\ Poll(sent + 1, t, TRUE).task = t /\ Poll(sent + 1, t, TRUE).first = TRUE
  <2>1. sent + 1 \in Nat
    BY DEF PageTypes
  <2> QED
    BY <2>1, PollFields
<1>4. \A u \in Tasks : Idle(u)' /\ (u # t => Quiet(u)')
  BY <1>1, <1>2, CallMoves DEF CallGoes, Asking, Idle, Quiet, serverVars
<1>5. Told(t)'
  BY <1>1, <1>2 DEF Asking, Told, serverVars
<1>6. view' = "panel"
  BY <1>1, <1>2 DEF Asking
<1> QED
  BY <1>2, <1>3, <1>4, <1>5, <1>6 DEF Watching

LEMMA LoadKeeps ==
  ASSUME Moment, LoadServed \/ LoadEnds
  PROVE  Moment'
<1>1. Loading /\ (LoadEnds => seen = status) /\ UNCHANGED <<serverVars, call, panelVars>>
  BY DEF LoadServed, LoadEnds, Moment, Loading, AtRest, Asking, Watching, Resting
<1>2. CASE LoadServed
  BY <1>1, <1>2 DEF LoadServed, Moment, Loading, Idle, Quiet, panelVars, serverVars
<1>3. CASE LoadEnds
  BY <1>1, <1>3 DEF LoadEnds, Moment, Loading, AtRest, Resting, Idle, Quiet, panelVars, serverVars
<1> QED
  BY <1>2, <1>3

LEMMA PolledIsWatched ==
  ASSUME Moment, timer \/ polls # {}
  PROVE  \E w \in Tasks : Watching(w)
  BY DEF Moment, Loading, AtRest, Asking, Resting

LEMMA NextPollKeeps ==
  ASSUME PageTypes, Moment, NextPoll
  PROVE  Moment'
<1>1. PICK w \in Tasks : Watching(w)
  BY PolledIsWatched DEF NextPoll
<1> DEFINE p == Poll(sent + 1, w, FALSE)
<1>2. timer /\ polls' = polls \cup {p}
      /\ UNCHANGED <<serverVars, view, seen, call, watched, timer, shown, latest>>
  BY <1>1 DEF NextPoll, Watching
<1>3. p.state = "none" /\ p.task = w /\ p.first = FALSE
  <2>1. sent + 1 \in Nat
    BY DEF PageTypes
  <2> QED
    BY <2>1, PollFields
<1>4. \A q \in polls : q.task = w /\ ~q.first
  BY <1>1, <1>2 DEF Watching
<1> HIDE DEF p
<1> QED
  BY <1>1, <1>2, <1>3, <1>4 DEF Moment, Watching, Idle, Quiet, Told, Shows, serverVars

LEMMA PollServedKeeps ==
  ASSUME PageTypes, Moment, NEW p \in polls, PollServed(p)
  PROVE  Moment'
<1>1. PICK w \in Tasks : Watching(w)
  BY PolledIsWatched
<1> DEFINE s == Served(p)
<1>2. polls' = (polls \ {p}) \cup {s}
      /\ UNCHANGED <<serverVars, view, seen, call, watched, timer, shown, latest>>
  BY DEF PollServed, Served
<1>3. s.state = task[w] /\ s.task = w /\ s.first = p.first /\ p.task = w
  BY <1>1, ServedFields DEF Watching
<1> HIDE DEF s
<1>4. \A q \in polls' : q.task = w /\ (q.first => polls' = {q} /\ ~timer)
  BY <1>1, <1>2, <1>3 DEF Watching
<1>5. timer \/ Shows(w) \/ \E q \in polls' : q.first
  BY <1>1, <1>2, <1>3 DEF Watching
<1>6. Shows(w) => \A q \in polls' : q.state # "none" /\ q.turn >= latest => q.state = "FAILED"
  BY <1>1, <1>2, <1>3 DEF Watching, Shows
<1> QED
  BY <1>1, <1>2, <1>4, <1>5, <1>6 DEF Moment, Watching, Idle, Quiet, Told, Shows, serverVars

LEMMA PollEndsKeeps ==
  ASSUME PageTypes, Truth, Moment, upset' = {}, NEW p \in polls, PollEnds(p)
  PROVE  Moment'
<1>1. PICK w \in Tasks : Watching(w)
  BY PolledIsWatched
<1>2. p.task = w /\ watched = w /\ p.state \in KnownState \ {"none"} /\ p.turn \in Nat /\ p.turn >= latest /\ latest' = p.turn
  BY <1>1 DEF PollEnds, Watching, PageTypes, PollType
<1>3. UNCHANGED <<serverVars, seen, call>>
  BY DEF PollEnds
<1>4. CASE p.state = "SUCCEEDED"
  <2>1. view' = "asked" /\ watched' = NoTask /\ timer' = FALSE /\ polls' = {}
    BY <1>4 DEF PollEnds, Reload
  <2>2. task[w] = "SUCCEEDED"
    BY <1>2, <1>4 DEF Truth, Settled
  <2> QED
    BY <1>1, <1>3, <2>1, <2>2 DEF Moment, Loading, Watching, Idle, Quiet, Settled, serverVars
<1>5. CASE p.state # "SUCCEEDED"
  <2>1. /\ shown' = [task |-> w, state |-> p.state] /\ polls' = polls \ {p}
        /\ timer' = Continues(p) /\ UNCHANGED <<view, watched>>
    BY <1>2, <1>5 DEF PollEnds
  <2>2. \A q \in polls' : q.task = w /\ ~q.first
    BY <1>1, <2>1 DEF Watching
  <2>3. CASE p.state = "FAILED"
    <3>1. Shows(w)' /\ timer' = FALSE
      BY <1>2, <1>3, <2>1, <2>3 DEF Shows, Truth, Settled, Continues, serverVars
    <3>2. \A q \in polls' : q.state # "none" /\ q.turn >= latest' => q.state = "FAILED"
      <4>1. ASSUME NEW q \in polls, q.state # "none", q.turn >= p.turn
            PROVE  q.state = "FAILED"
        <5>1. q.turn \in Nat /\ q.task = w
          BY <1>1 DEF PageTypes, PollType, Watching
        <5>2. p.turn <= q.turn
          BY <1>2, <4>1, <5>1
        <5> QED
          BY <1>2, <2>3, <4>1, <5>1, <5>2 DEF Truth, Settled
      <4> QED
        BY <1>2, <2>1, <4>1
    <3> QED
      BY <1>1, <1>3, <2>1, <2>2, <3>1, <3>2 DEF Moment, Watching, Idle, Quiet, Told, serverVars
  <2>4. CASE p.state # "FAILED"
    <3>1. p.state \notin Settled /\ ~Shows(w)
      BY <1>1, <1>2, <1>5, <2>4 DEF Watching, Settled
    <3>2. p.first \/ timer
      BY <1>1, <3>1 DEF Watching
    <3>3. timer' = TRUE
      BY <2>1, <3>1, <3>2 DEF Continues
    <3>4. ~Shows(w)'
      BY <2>1, <2>4 DEF Shows
    <3> QED
      BY <1>1, <1>3, <2>1, <2>2, <3>3, <3>4 DEF Moment, Watching, Idle, Quiet, Told, serverVars
  <2> QED
    BY <2>3, <2>4
<1> QED
  BY <1>4, <1>5

LEMMA PageInvStep ==
  ASSUME PageTypes, Truth, PageInv, [PNext]_pvars
  PROVE  PageInv'
<1> SUFFICES ASSUME upset' = {} PROVE Moment'
  BY DEF PageInv
<1>1. upset = {}
  BY DEF PNext, JobStarts, Analyse, JobSucceeds, JobFails, Click, CallServed, CallEnds, CallFails, LoadServed, LoadEnds,
     LoadFails, NextPoll, PollServed, PollEnds, PollFails, pvars
<1>2. Moment
  BY <1>1 DEF PageInv
<1>3. ASSUME NEW t \in Tasks, JobStarts(t) \/ Analyse(t) \/ JobSucceeds(t) \/ JobFails(t)
      PROVE  Moment'
  BY <1>2, <1>3, JobKeeps
<1>4. ASSUME NEW t \in Tasks, Click(t) \/ CallServed(t) \/ CallEnds(t)
      PROVE  Moment'
  <2>1. Asking(t)' \/ Watching(t)'
    BY <1>2, <1>4, ClickKeeps, CallServedKeeps, CallEndsKeeps
  <2> QED
    BY <2>1 DEF Moment
<1>5. CASE LoadFails \/ (\E t \in Tasks : CallFails(t)) \/ (\E p \in polls : PollFails(p))
  BY <1>5 DEF LoadFails, CallFails, PollFails
<1>6. ASSUME NEW p \in polls, PollServed(p) \/ PollEnds(p)
      PROVE  Moment'
  BY <1>2, <1>6, PollServedKeeps, PollEndsKeeps
<1>7. CASE UNCHANGED pvars
  BY <1>2, <1>7 DEF pvars, serverVars, panelVars, Moment, Loading, AtRest, Resting, Asking, Watching, Idle, Quiet, Told, Shows
<1> QED
  BY <1>2, <1>3, <1>4, <1>5, <1>6, <1>7, LoadKeeps, NextPollKeeps DEF PNext

(* The inductive invariant of the page.                                    *)
THEOREM PageInvariant == PSpec => [](PageTypes /\ Truth /\ PageInv)
<1>1. PInit => PageTypes /\ Truth /\ PageInv
  <2>1. PInit => Loading
    BY DEF PInit, Loading, Idle, Quiet
  <2> QED
    BY <2>1, PageTypesInit DEF PageInv, Moment
<1>2. PageTypes /\ Truth /\ PageInv /\ [PNext]_pvars => (PageTypes /\ Truth /\ PageInv)'
  BY PageTypesStep, TruthStep, PageInvStep
<1> QED
  BY <1>1, <1>2, PTL DEF PSpec

(* A page at rest that met no failure and no overtaken answer tells how    *)
(* its analyses ended (useTaskPolling, OcrPanel and useAsyncData).         *)
THEOREM PageTellsTheEnd == PSpec => []RestingPageTellsTheEnd
<1>1. PageInv => RestingPageTellsTheEnd
  <2> SUFFICES ASSUME Moment, Resting
               PROVE  /\ seen = status
                      /\ \A t \in Tasks : task[t] \in {"none"} \cup Settled
                      /\ watched # NoTask => shown = [task |-> watched, state |-> task[watched]]
    BY DEF PageInv, RestingPageTellsTheEnd
  <2>1. AtRest \/ \E w \in Tasks : Watching(w)
    BY DEF Moment, Resting, Loading, Asking
  <2>2. ASSUME NEW w \in Tasks, Watching(w)
        PROVE  /\ seen = status /\ \A t \in Tasks : task[t] \in {"none"} \cup Settled
               /\ shown = [task |-> watched, state |-> task[watched]]
    <3>1. Shows(w)
      BY <2>2 DEF Resting, Watching
    <3> QED
      BY <2>2, <3>1 DEF Watching, Shows, Told, Quiet, Settled
  <2> QED
    BY <2>1, <2>2 DEF AtRest, Quiet
<1> QED
  BY <1>1, PageInvariant, PTL
=============================================================================
