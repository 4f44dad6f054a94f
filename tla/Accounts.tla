------------------------------ MODULE Accounts ------------------------------
(* Users, API tokens and the credentials derived from them: administration *)
(* and logins that read a row and write it back whole, beside data-plane   *)
(* requests that resolve a principal from a cached password, an API token, *)
(* a registry token or a session. Users here have no second factor (see    *)
(* SecondFactor), the operator's allowlist is empty and no role of an      *)
(* identity provider is mapped.                                            *)
EXTENDS Naturals, FiniteSets

CONSTANTS
  Users,        \* the users; the first administrators are superadmins
  Superadmins,
  Tokens,       \* the API tokens
  Operations,   \* the operations of a behaviour, 1..n
  MaxAtOnce,    \* the operations under way at once
  MaxAccountFaults

Capabilities == {"write"}
Passwords == {"old", "new"}
Nobody == "nobody"

VARIABLES
  user,    \* kutu_user: each user's row
  grant,   \* the capabilities of the bundles assigned to each user
  token,   \* kutu_token: each token's row
  session, \* the user of the session each login saved, or "none"
  basic,   \* basicCache: the pairs of user and password verified
  bearer,  \* the registry tokens that have not expired
  op,      \* the operations
  limit,   \* for the property: the most each request may be given
  accountFaults

accountVars == <<user, grant, token, session, basic, bearer, op, limit, accountFaults>>
tables == <<user, grant, token, session, basic, bearer, accountFaults>>

Deleted == [exists |-> FALSE, password |-> "old", stale |-> FALSE, disabled |-> FALSE,
            superadmin |-> FALSE, denied |-> {}]
NoToken == [exists |-> FALSE, active |-> FALSE, scopes |-> {}]

\* What an operation can be: a change, a login, or a request with a credential.
AccountChanges ==
  [kind : {"update"}, of : Users, to : {"disable", "enable", "password", "name"}]
    \cup [kind : {"superadmin", "grant", "deny"}, of : Users, to : {"yes", "no"}]
    \cup [kind : {"delete", "kick"}, of : Users, to : {"all"}]
    \cup [kind : {"patch"}, of : Tokens, to : {"disable", "enable", "scopes"}]
    \cup [kind : {"revoke"}, of : Tokens, to : {"all"}]
    \cup [kind : {"login"}, of : Users, to : {"passkey", "external"} \cup Passwords]
Requests ==
  [kind : {"request"}, by : Passwords \cup {"user"}, of : Users, mint : BOOLEAN]
    \cup [kind : {"request"}, by : {"token", "minted"}, of : Tokens, mint : BOOLEAN]
SessionRequests ==
  [kind : {"request"}, by : {"session"}, of : Operations, mint : BOOLEAN]

Unbegun == [job |-> "none", pc |-> "idle", row |-> Deleted, owner |-> "none",
            in |-> FALSE, caps |-> {}]
Nothing == [in |-> FALSE, given |-> {}, denied |-> Capabilities]

AccountsInit ==
  /\ user = [u \in Users |-> [Deleted EXCEPT !.exists = TRUE, !.stale = TRUE,
                                             !.superadmin = u \in Superadmins]]
  /\ grant = [u \in Users |-> Capabilities]
  /\ token = [t \in Tokens |-> [exists |-> TRUE, active |-> TRUE, scopes |-> Capabilities]]
  /\ session = [n \in Operations |-> "none"]
  /\ basic = {} /\ bearer = {}
  /\ op = [n \in Operations |-> Unbegun]
  /\ limit = [n \in Operations |-> Nothing]
  /\ accountFaults = 0

Doing(n, pc) == op[n].pc = pc
Active(n) == op[n].pc \notin {"idle", "done"}
Of(n) == op[n].job.of
Kind(n) == op[n].job.kind
Row(n) == user[Of(n)]
EndedOp == [Unbegun EXCEPT !.pc = "done"]
Onto(o, pc) == IF pc = "done" THEN EndedOp ELSE [o EXCEPT !.pc = pc]
Goto(n, pc) == op' = [op EXCEPT ![n] = Onto(@, pc)]
Return(n) == Goto(n, "done")

\* The user a request's credential stands for.
Owner(n) == IF op[n].job.kind = "request" /\ op[n].job.by = "session"
              THEN op[n].owner ELSE Of(n)

(***************************************************************************)
(* The beginning of an operation: a request presents what it was given.    *)
(***************************************************************************)
FirstStep(job) ==
  CASE job.kind \in {"update", "superadmin", "patch"} -> "read"
    [] job.kind = "delete" -> "guard"
    [] job.kind = "kick" -> "sweep"
    [] job.kind \in {"grant", "deny", "revoke"} -> "apply"
    [] job.kind = "login" -> "verify"
    [] job.kind = "request" ->
         CASE job.by \in Passwords -> "cached" [] job.by = "user" -> "principal"
           [] job.by \in {"token", "minted"} -> "token" [] job.by = "session" -> "load"

Begin(n, job) ==
  /\ Doing(n, "idle")
  /\ \A k \in Operations : k < n => ~Doing(k, "idle")
  /\ Cardinality({k \in Operations : Active(k)}) < MaxAtOnce
  /\ job.kind = "request" =>
       /\ job.by \in {"user", "minted"} => <<job.by, job.of>> \in bearer
       /\ job.by = "session" => session[job.of] # "none"
  /\ op' = [op EXCEPT ![n] = [Unbegun EXCEPT !.job = job, !.pc = FirstStep(job)]]
  /\ UNCHANGED tables

(***************************************************************************)
(* Administration.                                                         *)
(***************************************************************************)
\* Users().Get and Tokens().Get, before the row is changed.
Read(n) ==
  /\ Doing(n, "read")
  /\ LET row == IF Kind(n) = "patch" THEN token[Of(n)] ELSE user[Of(n)]
         to == op[n].job.to
         next == CASE ~row.exists -> "done"
                   [] Kind(n) = "update" ->
                        IF to = "disable" /\ ~row.disabled THEN "guard" ELSE "write"
                   [] Kind(n) = "superadmin" ->
                        IF row.superadmin = (to = "yes") THEN "done"
                        ELSE IF to = "yes" THEN "write" ELSE "guard"
                   [] Kind(n) = "patch" -> "write"
     IN op' = [op EXCEPT ![n] = Onto([@ EXCEPT !.row = row], next)]
  /\ UNCHANGED tables

\* guardLastSuperadmin: another superadmin is enabled.
Keeps(u) == \/ ~user[u].superadmin \/ user[u].disabled
            \/ \E v \in Users \ {u} : user[v].exists /\ user[v].superadmin /\ ~user[v].disabled
GuardLastSuperadmin(n) ==
  /\ Doing(n, "guard")
  /\ Goto(n, IF ~Row(n).exists \/ ~Keeps(Of(n)) THEN "done"
             ELSE IF Kind(n) = "delete" THEN "sweep" ELSE "write")
  /\ UNCHANGED tables

Changed(n) ==
  LET row == op[n].row
      to == op[n].job.to
  IN IF Kind(n) = "superadmin" THEN [row EXCEPT !.superadmin = to = "yes"]
     ELSE CASE to = "disable" -> [row EXCEPT !.disabled = TRUE]
            [] to = "enable" -> [row EXCEPT !.disabled = FALSE]
            [] to = "password" -> [row EXCEPT !.password = CHOOSE p \in Passwords : p # @, !.stale = FALSE]
            [] to = "name" -> row

\* Users().Update: every column but the denied capabilities.
Update(u, row) == [user EXCEPT ![u] = [row EXCEPT !.denied = user[u].denied]]
WriteUser(n) ==
  /\ Doing(n, "write")
  /\ Kind(n) \in {"update", "superadmin"}
  /\ IF Row(n).exists
       THEN /\ user' = Update(Of(n), Changed(n))
            /\ Goto(n, IF Kind(n) = "update" /\ Changed(n).disabled /\ ~op[n].row.disabled
                         THEN "sweep" ELSE "done")
       ELSE Return(n) /\ UNCHANGED user
  /\ UNCHANGED <<grant, token, session, basic, bearer, accountFaults>>

\* Sessions().DeleteByUserID. UpdateUser passes its error over, DeleteUser and
\* KickUser return it.
Sweep(n, fault) ==
  /\ Doing(n, "sweep")
  /\ fault => accountFaults < MaxAccountFaults
  /\ accountFaults' = accountFaults + (IF fault THEN 1 ELSE 0)
  /\ IF fault \/ (Kind(n) = "kick" /\ ~Row(n).exists)
       THEN Return(n) /\ UNCHANGED session
       ELSE /\ session' = [k \in Operations |-> IF session[k] = Of(n) THEN "none" ELSE session[k]]
            /\ Goto(n, IF Kind(n) = "delete" THEN "remove" ELSE "done")
  /\ UNCHANGED <<user, grant, token, basic, bearer>>

\* The user's row, with the bundles assigned to it.
Remove(n) ==
  /\ Doing(n, "remove")
  /\ user' = [user EXCEPT ![Of(n)] = Deleted]
  /\ grant' = [grant EXCEPT ![Of(n)] = {}]
  /\ Return(n)
  /\ UNCHANGED <<token, session, basic, bearer, accountFaults>>

Only(condition, set) == IF condition THEN set ELSE {}

SetUserPermissions(n) ==
  /\ Doing(n, "apply") /\ Kind(n) = "grant"
  /\ grant' = IF Row(n).exists
                THEN [grant EXCEPT ![Of(n)] = Only(op[n].job.to = "yes", Capabilities)] ELSE grant
  /\ Return(n)
  /\ UNCHANGED <<user, token, session, basic, bearer, accountFaults>>

\* The one column Users().Update leaves alone.
SetUserDeniedCapabilities(n) ==
  /\ Doing(n, "apply") /\ Kind(n) = "deny"
  /\ user' = IF Row(n).exists
               THEN [user EXCEPT ![Of(n)].denied = Only(op[n].job.to = "yes", Capabilities)] ELSE user
  /\ Return(n)
  /\ UNCHANGED <<grant, token, session, basic, bearer, accountFaults>>

DeleteToken(n) ==
  /\ Doing(n, "apply") /\ Kind(n) = "revoke"
  /\ token' = [token EXCEPT ![Of(n)] = NoToken]
  /\ Return(n)
  /\ UNCHANGED <<user, grant, session, basic, bearer, accountFaults>>

PatchToken(n) ==
  /\ Doing(n, "write") /\ Kind(n) = "patch"
  /\ LET row == op[n].row
         to == op[n].job.to
         changed == CASE to = "disable" -> [row EXCEPT !.active = FALSE]
                      [] to = "enable" -> [row EXCEPT !.active = TRUE]
                      [] to = "scopes" -> [row EXCEPT !.scopes = Capabilities \ @]
     IN token' = IF token[Of(n)].exists THEN [token EXCEPT ![Of(n)] = changed] ELSE token
  /\ Return(n)
  /\ UNCHANGED <<user, grant, session, basic, bearer, accountFaults>>

(***************************************************************************)
(* Logins, and the password of a request.                                  *)
(***************************************************************************)
Password(n) == IF Kind(n) = "login" THEN op[n].job.to ELSE op[n].job.by

Authenticate(row, password) == row.exists /\ ~row.disabled /\ row.password = password
\* The passkey of a user that exists and is not disabled.
LookupForLogin(row) == row.exists /\ ~row.disabled
\* An identity of a provider is bound to a user linked with it before.
FindExternalUser(row) == row.exists /\ ~row.disabled

\* An external identity is verified by its provider.
Verified(row, method) ==
  CASE method \in Passwords -> Authenticate(row, method)
    [] method = "passkey" -> LookupForLogin(row)
    [] method = "external" -> TRUE
VerifyCredential(n) ==
  /\ Doing(n, "verify")
  /\ LET row == user[Of(n)]
         method == Password(n)
         onward == IF Kind(n) = "login" THEN "resolve" ELSE "put"
         rehash == method \in Passwords /\ row.stale
     IN op' = [op EXCEPT ![n] = Onto([@ EXCEPT !.row = row],
                 IF ~Verified(row, method) THEN "done" ELSE IF rehash THEN "rehash" ELSE onward)]
  /\ UNCHANGED tables

\* rehashIfStale: the row that was read is written back with a new hash.
Rehash(n) ==
  /\ Doing(n, "rehash")
  /\ user' = IF Row(n).exists THEN Update(Of(n), [op[n].row EXCEPT !.stale = FALSE]) ELSE user
  /\ Goto(n, IF Kind(n) = "login" THEN "resolve" ELSE "put")
  /\ UNCHANGED <<grant, token, session, basic, bearer, accountFaults>>

\* resolveSessionUser: a session whose user is unknown is saved without one.
ResolveSessionUser(n) ==
  /\ Doing(n, "resolve")
  /\ LET row == user[Of(n)]
         bound == IF op[n].job.to = "external" THEN FindExternalUser(row) ELSE row.exists
     IN op' = [op EXCEPT ![n].owner = IF bound THEN Of(n) ELSE Nobody, ![n].pc = "save"]
  /\ UNCHANGED tables

SaveByID(n) ==
  /\ Doing(n, "save")
  /\ session' = [session EXCEPT ![n] = op[n].owner]
  /\ Return(n)
  /\ UNCHANGED <<user, grant, token, basic, bearer, accountFaults>>

(***************************************************************************)
(* Requests: dataPrincipal.                                                *)
(***************************************************************************)
\* PrincipalForPassword: a pair verified lately is not verified again.
BasicCached(n) ==
  /\ Doing(n, "cached")
  /\ Goto(n, IF <<Of(n), op[n].job.by>> \in basic THEN "principal" ELSE "verify")
  /\ UNCHANGED tables
BasicPut(n) ==
  /\ Doing(n, "put")
  /\ basic' = basic \cup {<<Of(n), op[n].job.by>>}
  /\ Goto(n, "principal")
  /\ UNCHANGED <<user, grant, token, session, bearer, accountFaults>>

\* Faulty: the user of a verified pair or token is taken as it was.
FaultyPrincipalForUser(n) ==
  /\ Doing(n, "principal")
  /\ Goto(n, "account")
  /\ UNCHANGED tables
PrincipalForUser(n) ==
  /\ Doing(n, "principal")
  /\ Goto(n, IF Row(n).exists /\ ~Row(n).disabled THEN "account" ELSE "done")
  /\ UNCHANGED tables

\* LoadByID: the user stamped on the session.
LoadByID(n) ==
  /\ Doing(n, "load")
  /\ LET owner == session[Of(n)]
     IN op' = [op EXCEPT ![n] = IF owner \in {"none", Nobody}
                                  THEN [EndedOp EXCEPT !.in = owner = Nobody]
                                  ELSE [@ EXCEPT !.owner = owner, !.pc = "account"]]
  /\ UNCHANGED tables

\* The answer: the principal, or a registry token for it (Issue).
AnswerPrincipal(n, caps, kind, id) ==
  /\ op' = [op EXCEPT ![n] = [EndedOp EXCEPT !.in = TRUE, !.caps = caps]]
  /\ bearer' = IF op[n].job.mint THEN bearer \cup {<<kind, id>>} ELSE bearer
  /\ UNCHANGED <<user, grant, token, session, basic, accountFaults>>

\* resolveDetailed: the row is read again, then the bundles.
Account(n) ==
  /\ Doing(n, "account")
  /\ LET row == user[Owner(n)]
     IN IF row.exists /\ ~row.superadmin
          THEN /\ op' = [op EXCEPT ![n].row = row, ![n].pc = "bundles"]
               /\ UNCHANGED tables
          ELSE AnswerPrincipal(n, Only(row.exists, Capabilities \ row.denied), "user", Owner(n))
Bundles(n) ==
  /\ Doing(n, "bundles")
  /\ AnswerPrincipal(n, grant[Owner(n)] \ op[n].row.denied, "user", Owner(n))

\* What the scopes of a token stand for among the capabilities.
TokenReport(row) == row.scopes \cap Capabilities

\* AuthenticateToken, and TokenIdentityByID of a registry token.
TokenIdentity(n) ==
  /\ Doing(n, "token")
  /\ IF token[Of(n)].active
       THEN AnswerPrincipal(n, TokenReport(token[Of(n)]), "minted", Of(n))
       ELSE Return(n) /\ UNCHANGED tables

\* A session is left, revoked or expires; a cached pair, a registry token or an
\* API token expires. (TokenIdentityByID and AuthenticateToken refuse an expired
\* API token as they do one that is not active.)
DeleteByID(k) ==
  /\ session[k] # "none"
  /\ session' = [session EXCEPT ![k] = "none"]
  /\ UNCHANGED <<user, grant, token, basic, bearer, op, accountFaults>>
Forget ==
  /\ basic \cup bearer # {}
  /\ basic' = {} /\ bearer' = {}
  /\ UNCHANGED <<user, grant, token, session, op, accountFaults>>

(***************************************************************************)
(* Next: with what each request may be given, which grows while it runs.   *)
(***************************************************************************)
\* What a request's credential stands for. (The user of a session is not asked
\* whether it is disabled, nor the password of a cached pair whether it is still
\* the user's.)
ByToken(o) == o.job.by \in {"token", "minted"}
Holder(o) == IF o.job.by = "session" THEN o.owner ELSE o.job.of
Holds(o) ==
  IF ByToken(o) THEN token[o.job.of].active
  ELSE o.job.by = "session" \/ (user[o.job.of].exists /\ ~user[o.job.of].disabled)
Granted(o) ==
  IF ByToken(o) THEN token[o.job.of].scopes
  ELSE IF Holder(o) \notin Users THEN {}
  ELSE IF user[Holder(o)].superadmin THEN Capabilities ELSE grant[Holder(o)]
Denied(o) ==
  IF ByToken(o) THEN {}
  ELSE IF Holder(o) \in Users /\ user[Holder(o)].exists THEN user[Holder(o)].denied
  ELSE Capabilities
Observed(n) ==
  IF Active(n)' /\ op'[n].job.kind = "request"
    THEN [in |-> limit[n].in \/ Holds(op[n])', given |-> limit[n].given \cup Granted(op[n])',
          denied |-> limit[n].denied \cap Denied(op[n])']
    ELSE limit[n]
Observe == limit' = [n \in Operations |-> Observed(n)]

Finished == \A n \in Operations : Doing(n, "done")

AccountsNext ==
  /\ \/ \E n \in Operations :
          \/ \E job \in AccountChanges : Begin(n, job)
          \/ \E job \in Requests : Begin(n, job)
          \/ \E job \in SessionRequests : Begin(n, job)
          \/ Read(n) \/ GuardLastSuperadmin(n) \/ WriteUser(n) \/ \E fault \in BOOLEAN : Sweep(n, fault)
          \/ Remove(n) \/ SetUserPermissions(n) \/ SetUserDeniedCapabilities(n)
          \/ DeleteToken(n) \/ PatchToken(n)
          \/ VerifyCredential(n) \/ Rehash(n) \/ ResolveSessionUser(n) \/ SaveByID(n)
          \/ BasicCached(n) \/ BasicPut(n) \/ PrincipalForUser(n) \/ LoadByID(n)
          \/ Account(n) \/ Bundles(n) \/ TokenIdentity(n)
     \/ ~Finished /\ (Forget \/ \E k \in Operations : DeleteByID(k))
  /\ Observe

AccountsSpec == AccountsInit /\ [][AccountsNext]_accountVars

(***************************************************************************)
(* Properties.                                                             *)
(***************************************************************************)
\* A request is given a principal only when its user was enabled, or its API
\* token active, at some moment since it began, and only capabilities that were
\* granted, and not denied, at some moment since: disabling, deleting or revoking
\* takes effect at once, though the password is cached, the registry token has not
\* expired and the row is written back by others. (A session is held to the
\* capabilities only; and of a user disabled while the request runs the bundles
\* are read all the same, with what was assigned after.)
RevokedRefused ==
  \A n \in Operations :
    op[n].in => limit[n].in /\ op[n].caps \subseteq limit[n].given \ limit[n].denied
=============================================================================
