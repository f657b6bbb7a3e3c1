----------------------------- MODULE AuthSessions -----------------------------
(***************************************************************************)
(* Accounts and refresh tokens on the server (AuthService, the routes of   *)
(* auth and users, manage_users.py).  A call reads, writes and commits in  *)
(* a transaction of its own; PostgreSQL runs it READ COMMITTED, so that    *)
(* what it has read may be stale when it writes, and makes an UPDATE wait  *)
(* for the transaction that wrote the row.                                 *)
(*                                                                         *)
(* A token bears the name of the call that issued it.  A password is known *)
(* to its owner: a login is a login with the password of the moment.       *)
(* Expiry, signatures and hashes leave a valid token valid.                *)
(***************************************************************************)
EXTENDS Integers, FiniteSets

CONSTANTS Calls, Users, Admin, Accountant, Origin, NoToken, NoAccount, NoRequest

VARIABLES
  accounts,   \* user -> NoAccount or: active, role
  tokens,     \* issued and committed: user, parent, revoked
  pc,         \* progress of each call
  request,    \* what a call was asked and has read
  held,       \* token rows that an open transaction has written
  before      \* history: the calls that had ended when a call began

avars == <<accounts, tokens, pc, request, held, before>>

Roles   == {Admin, Accountant}
Names   == Calls \cup {Origin}
Ended   == {c \in Calls : pc[c] \in {"done", "refused", "failed"}}
Account == [active : BOOLEAN, role : Roles]
Token   == [user : Users, parent : Names \cup {NoToken}, revoked : BOOLEAN]

(* The values that stand for nothing are not calls, tokens or accounts.    *)
ASSUME AuthAssumption ==
  Origin \notin Calls /\ NoToken \notin Names /\ NoAccount \notin Account

Known(u) == accounts[u] # NoAccount
Active(u) == Known(u) /\ accounts[u].active
AdminCalls == \E a \in Users : Active(a) /\ accounts[a].role = Admin

Live(t) == t \in DOMAIN tokens /\ ~tokens[t].revoked
LiveOf(u) == {t \in DOMAIN tokens : Live(t) /\ tokens[t].user = u}

(* A plausible defect: the accounts are counted once the new one is added.  *)
FirstAccount_CountedAfter == 1 + Cardinality({u \in Users : Known(u)}) = 0
FirstAccount == \A u \in Users : ~Known(u)

(* Before the first account, or with an administrator who has a session.   *)
AInit ==
  /\ accounts \in {[u \in Users |-> NoAccount]} \cup
       {[u \in Users |-> IF u = a THEN [active |-> TRUE, role |-> Admin] ELSE NoAccount] : a \in Users}
  /\ tokens = [t \in {Origin : u \in {v \in Users : accounts[v] # NoAccount}} |->
                 [user |-> CHOOSE u \in Users : accounts[u] # NoAccount,
                  parent |-> NoToken, revoked |-> FALSE]]
  /\ pc = [c \in Calls |-> "idle"]
  /\ request = [c \in Calls |-> NoRequest]
  /\ held = [c \in Calls |-> {}]
  /\ before = [c \in Calls |-> {}]

Begin(c, state, asked) ==
  /\ pc[c] = "idle"
  /\ pc' = [pc EXCEPT ![c] = state]
  /\ request' = [request EXCEPT ![c] = asked]
  /\ before' = [before EXCEPT ![c] = Ended]
  /\ UNCHANGED <<accounts, tokens, held>>

Go(c, state) == pc' = [pc EXCEPT ![c] = state] /\ UNCHANGED <<request, before>>

(* The commit, or the rollback, that ends a call and frees its rows.       *)
End(c, outcome) == Go(c, outcome) /\ held' = [held EXCEPT ![c] = {}]

Free(c, rows) == \A d \in Calls \ {c} : held[d] \cap rows = {}
Issue(c, u, parent, written) ==
  tokens' = [t \in DOMAIN tokens \cup {c} |->
               IF t = c THEN [user |-> u, parent |-> parent, revoked |-> FALSE]
               ELSE [tokens[t] EXCEPT !.revoked = @ \/ t \in written]]
Revoke(rows) ==
  tokens' = [t \in DOMAIN tokens |-> [tokens[t] EXCEPT !.revoked = @ \/ t \in rows]]

(***************************************************************************)
(* Accounts.  The name is checked, then the password hashed, then the row  *)
(* inserted: the constraint of the database decides between two.           *)
(***************************************************************************)
RegisterOpen(c, u) ==
  /\ ~Known(u)
  /\ \E role \in Roles :
       Begin(c, "open", [op |-> "register", user |-> u, active |-> TRUE,
                         role |-> IF FirstAccount THEN Admin ELSE role])

(* create_user gives the role it is asked; so does `manage_users.py        *)
(* create`, which asks no permission and may leave the account inactive.   *)
CreateOpen(c, u) ==
  /\ AdminCalls /\ ~Known(u)
  /\ \E role \in Roles :
       Begin(c, "open", [op |-> "create", user |-> u, active |-> TRUE, role |-> role])

CliCreateOpen(c, u) ==
  /\ ~Known(u)
  /\ \E role \in Roles, active \in BOOLEAN :
       Begin(c, "open", [op |-> "script", user |-> u, active |-> active, role |-> role])

CreateCommit(c) ==
  LET r == request[c] IN
  /\ pc[c] = "open" /\ r.op \in {"register", "create", "script"}
  /\ IF Known(r.user)
     THEN End(c, "failed") /\ UNCHANGED <<accounts, tokens>>
     ELSE /\ End(c, "done")
          /\ accounts' = [accounts EXCEPT ![r.user] = [active |-> r.active, role |-> r.role]]
          /\ IF r.op = "register" THEN Issue(c, r.user, NoToken, {}) ELSE UNCHANGED tokens

(* update_user writes the columns whose value differs from the one read.   *)
UpdateOpen(c, u) ==
  /\ AdminCalls /\ Known(u)
  /\ \/ Begin(c, "open", [op |-> "activate", user |-> u, active |-> ~accounts[u].active])
     \/ \E role \in Roles \ {accounts[u].role} :
          Begin(c, "open", [op |-> "role", user |-> u, role |-> role])

UpdateCommit(c) ==
  LET r == request[c] IN
  /\ pc[c] = "open" /\ r.op \in {"activate", "role"}
  /\ accounts' = IF r.op = "activate" THEN [accounts EXCEPT ![r.user].active = r.active]
                 ELSE [accounts EXCEPT ![r.user].role = r.role]
  /\ End(c, "done") /\ UNCHANGED tokens

(***************************************************************************)
(* Shutting an account's sessions out: deactivate_user, change_password    *)
(* and `manage_users.py password`.  The bulk UPDATE takes the rows that    *)
(* are live when it starts, and skips those revoked while it waited.       *)
(***************************************************************************)
DeactivateOpen(c, u) ==
  /\ AdminCalls /\ Known(u)
  /\ Begin(c, "open", [op |-> "deactivate", user |-> u, was |-> accounts[u].active, rows |-> {}])

PasswordOpen(c, u) ==
  /\ Active(u)
  /\ Begin(c, "open", [op |-> "password", user |-> u, was |-> FALSE, rows |-> {}])

CliPasswordOpen(c, u) ==
  /\ Known(u)
  /\ Begin(c, "open", [op |-> "cli", user |-> u, was |-> FALSE, rows |-> {}])

ShutOuts == {"deactivate", "password", "cli"}

RevokeAll(c) ==
  /\ pc[c] = "open" /\ request[c].op \in ShutOuts
  /\ pc' = [pc EXCEPT ![c] = "revoking"]
  /\ request' = [request EXCEPT ![c].rows = LiveOf(request[c].user)]
  /\ UNCHANGED <<accounts, tokens, held, before>>

RevokeDone(c) ==
  /\ pc[c] = "revoking"
  /\ Free(c, request[c].rows)
  /\ held' = [held EXCEPT ![c] = {t \in request[c].rows : Live(t)}]
  /\ Go(c, "flushed") /\ UNCHANGED <<accounts, tokens>>

ShutOutCommit_AccountOnly(c) ==
  LET r == request[c] IN
  /\ pc[c] = "flushed" /\ r.op \in ShutOuts
  /\ accounts' = IF r.op = "deactivate" /\ r.was
                 THEN [accounts EXCEPT ![r.user].active = FALSE] ELSE accounts
  /\ End(c, "done") /\ UNCHANGED tokens

ShutOutCommit(c) ==
  LET r == request[c] IN
  /\ pc[c] = "flushed" /\ r.op \in ShutOuts
  /\ Revoke(held[c])
  /\ accounts' = IF r.op = "deactivate" /\ r.was
                 THEN [accounts EXCEPT ![r.user].active = FALSE] ELSE accounts
  /\ End(c, "done")

(***************************************************************************)
(* Sessions.                                                               *)
(***************************************************************************)
LoginOpen(c, u) == Active(u) /\ Begin(c, "open", [op |-> "login", user |-> u])

LoginCommit(c) ==
  /\ pc[c] = "open" /\ request[c].op = "login"
  /\ Issue(c, request[c].user, NoToken, {})
  /\ End(c, "done") /\ UNCHANGED accounts

(* A client sends a token: a refresh exchanges it, a logout revokes it.    *)
Send(c, op, t) == Begin(c, "sent", [op |-> op, token |-> t])

Valid(t) == Live(t) /\ Active(tokens[t].user)

RefreshOpen(c) ==
  /\ pc[c] = "sent" /\ request[c].op = "refresh"
  /\ Valid(request[c].token)
  /\ Go(c, "open") /\ UNCHANGED <<accounts, tokens, held>>

(* 401, or 429 from the rate limiter.                                      *)
RefreshRefused(c) ==
  /\ pc[c] = "sent" /\ request[c].op = "refresh"
  /\ ~Valid(request[c].token)
  /\ End(c, "refused") /\ UNCHANGED <<accounts, tokens>>

RefreshLimited(c) ==
  /\ pc[c] = "sent" /\ request[c].op = "refresh"
  /\ End(c, "failed") /\ UNCHANGED <<accounts, tokens>>

(* The old row is updated by its key, whatever it has become, and the new  *)
(* one inserted; the answer leaves before the commit.                      *)
RefreshFlush_InsertOnly(c) ==
  /\ pc[c] = "open" /\ request[c].op = "refresh"
  /\ Go(c, "flushed") /\ UNCHANGED <<accounts, tokens, held>>

RefreshFlush(c) ==
  /\ pc[c] = "open" /\ request[c].op = "refresh"
  /\ Free(c, {request[c].token})
  /\ held' = [held EXCEPT ![c] = {request[c].token}]
  /\ Go(c, "flushed") /\ UNCHANGED <<accounts, tokens>>

RefreshCommit(c) ==
  /\ pc[c] = "flushed" /\ request[c].op = "refresh"
  /\ Issue(c, tokens[request[c].token].user, request[c].token, held[c])
  /\ End(c, "done") /\ UNCHANGED accounts

(* An unknown or revoked token is no error for a logout.                   *)
LogoutOpen(c) ==
  /\ pc[c] = "sent" /\ request[c].op = "logout"
  /\ Go(c, IF Live(request[c].token) THEN "open" ELSE "done")
  /\ UNCHANGED <<accounts, tokens, held>>

LogoutCommit(c) ==
  /\ pc[c] = "open" /\ request[c].op = "logout"
  /\ Free(c, {request[c].token})
  /\ Revoke({request[c].token})
  /\ End(c, "done") /\ UNCHANGED accounts

(* A call that raises, loses its connection or its process: rolled back.   *)
Abort(c) ==
  /\ pc[c] \in {"sent", "open", "revoking", "flushed"}
  /\ End(c, "failed") /\ UNCHANGED <<accounts, tokens>>

AccountStep(c) ==
  \/ \E u \in Users :
       \/ RegisterOpen(c, u) \/ CreateOpen(c, u) \/ CliCreateOpen(c, u) \/ UpdateOpen(c, u)
       \/ DeactivateOpen(c, u) \/ PasswordOpen(c, u) \/ CliPasswordOpen(c, u)
  \/ CreateCommit(c) \/ UpdateCommit(c)
  \/ RevokeAll(c) \/ RevokeDone(c) \/ ShutOutCommit(c)

SessionStep(c) ==
  \/ RefreshOpen(c) \/ RefreshRefused(c) \/ RefreshLimited(c) \/ RefreshFlush(c) \/ RefreshCommit(c)
  \/ LogoutOpen(c) \/ LogoutCommit(c)
  \/ LoginCommit(c)
  \/ Abort(c)

ANext ==
  \E c \in Calls :
    \/ AccountStep(c) \/ SessionStep(c)
    \/ \E u \in Users : LoginOpen(c, u)
    \/ \E op \in {"refresh", "logout"}, t \in DOMAIN tokens : Send(c, op, t)

ASpec == AInit /\ [][ANext]_avars

(***************************************************************************)
(* Properties.                                                             *)
(***************************************************************************)
(* Two calls that ran at the same time, for a part of each.                *)
Overlapped(c, d) == {c, d} \subseteq Calls /\ c \notin before[d] /\ d \notin before[c]

(* Rotation: a token is exchanged twice (AuthService.refresh reads it,     *)
(* then revokes it without looking again) only by calls that overlapped.   *)
OneHeir ==
  \A s, t \in DOMAIN tokens :
    s # t /\ tokens[s].parent = tokens[t].parent /\ tokens[s].parent # NoToken
      => Overlapped(s, t)

(* Once a password is changed, an account deactivated or a token logged    *)
(* out, no token issued by a call that had ended before lives on: only one *)
(* of an overlapping call, or a later one, may.                            *)
ShutOut ==
  \A d \in Calls : pc[d] = "done" =>
    /\ request[d].op \in ShutOuts =>
         \A t \in LiveOf(request[d].user) : t # Origin /\ t \notin before[d]
    /\ request[d].op = "logout" /\ request[d].token \in before[d] \cup {Origin}
         => ~Live(request[d].token)

(* A call that takes an administrator away, or starts without one: an      *)
(* account deactivated or demoted, or made by the script, which gives any  *)
(* account any role.                                                       *)
Demotion(c) ==
  LET r == request[c] IN
  /\ pc[c] = "done"
  /\ \/ r.op = "deactivate"
     \/ r.op = "activate" /\ ~r.active
     \/ r.op = "role" /\ r.role # Admin
     \/ r.op = "script" /\ ~(r.active /\ r.role = Admin)

(* Whatever registrations, creations and updates overlap, a system that    *)
(* has accounts has an active administrator, who alone can make others,    *)
(* until somebody takes that role or that account away.  About the role    *)
(* AuthService.register gives when it counts no account.                   *)
AdministratorRemains ==
  (\E u \in Users : Known(u)) /\ (\A c \in Calls : ~Demotion(c)) => AdminCalls

=============================================================================
