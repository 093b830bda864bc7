-------------------------------- MODULE Access --------------------------------
(***************************************************************************)
(* Who may use the server: the users of internal/users/users.go, the       *)
(* tokens of internal/auth/auth.go, the middleware and the handlers of     *)
(* internal/api/rest that log in, refresh, create, change and delete, and  *)
(* the login audit of internal/store/memory.go, with auth.enabled.         *)
(*                                                                         *)
(* A request is a goroutine: the middleware looks at its token once, and   *)
(* the handler runs later, one step per critical section of Manager.mu.    *)
(* So a token may expire, its user may be demoted or deleted, and another  *)
(* request may change the user at hand, between any two of its steps.      *)
(***************************************************************************)
EXTENDS Integers, Sequences, FiniteSets

CONSTANTS
    Names,          \* names of users
    Secrets,        \* passwords; a bcrypt hash is the password it accepts
    Seed,           \* users of the configuration, NoUser for the names it lacks
    RequestedRoles, \* roles that requests name, not all of them valid
    NewSecrets,     \* passwords that requests set
    Requests,       \* goroutines that serve one request after another
    AuditMax,       \* entries the login audit keeps (10 000 in the code)
    MaxTokens,      \* bound: tokens issued
    MaxEntries      \* bound: entries ever recorded

None == "none"      \* no role, no password: a field a PATCH leaves out, a login that failed
ValidRoles == {"admin", "operator", "viewer"}

NoUser == [role |-> None, secret |-> None]
SeedRoles == {Seed[n].role : n \in Names} \ {None}
Roles == ValidRoles \cup SeedRoles
User == [role : Roles, secret : Secrets]

\* The configuration does not check the roles of its users.
ASSUME SeedAssumption ==
    /\ Seed \in [Names -> [role : STRING, secret : Secrets] \cup {NoUser}]
    /\ \A n \in Names : Seed[n] # NoUser => Seed[n].role # None
    /\ None \notin Secrets
ASSUME NamesAssumption ==
    IsFiniteSet(Names) /\ "unknown" \notin Names /\ NewSecrets \subseteq Secrets
ASSUME BoundsAssumption == AuditMax \in Nat \ {0} /\ MaxTokens \in Nat /\ MaxEntries \in Nat

VARIABLES
    users,      \* Manager.users
    tokens,     \* the tokens issued so far
    live,       \* those that have not expired
    loginAudit, \* Store.loginAudit, oldest first
    req,        \* what each goroutine is about to do
    held,       \* history: every <<name, role, password>> that ever was a user's
    entries     \* history: every audit entry ever recorded

vars == <<users, tokens, live, loginAudit, req, held, entries>>
auditVars == <<loginAudit, entries>>
tokenVars == <<tokens, live>>
userVars == <<users, held>>

\* The claims of a token.  secret and login are histories: the password that
\* earned it, and whether Login issued it rather than RefreshToken.
Token == [name : Names, role : Roles, secret : Secrets, login : BOOLEAN]
TokenIds == 1..MaxTokens

Entry == [name : Names \cup {"unknown"}, role : Roles \cup {None}, ok : BOOLEAN]

Idle == [op |-> "idle"]

\* by is the name in the token that the middleware let through; attempts to log
\* in or to refresh have none.  recorded is a history: the attempt has its entry.
Request ==
    {Idle}
    \cup [op : {"record"}, name : Names, secret : Secrets, role : Roles \cup {None}, recorded : BOOLEAN]
    \cup [op : {"answer"}, name : Names, secret : Secrets, role : Roles, recorded : BOOLEAN]
    \cup [op : {"refresh"}, body : TokenIds, recorded : BOOLEAN]
    \cup [op : {"create"}, by : Names, name : Names, secret : NewSecrets, role : RequestedRoles]
    \cup [op : {"patch", "role"}, by : Names, name : Names,
          secret : NewSecrets \cup {None}, role : RequestedRoles \cup {None}]
    \cup [op : {"delete"}, by : Names, name : Names]

Present == {n \in Names : users[n] # NoUser}
Admins == {n \in Present : users[n].role = "admin"}

Init ==
    /\ users = Seed
    /\ tokens = <<>> /\ live = {}
    /\ loginAudit = <<>> /\ entries = <<>>
    /\ req = [g \in Requests |-> Idle]
    /\ held = {<<n, Seed[n].role, Seed[n].secret>> : n \in {m \in Names : Seed[m] # NoUser}}
-----------------------------------------------------------------------------
(* Tokens.  ValidateToken accepts what was signed and has not expired.      *)

RoleLevel(role) ==
    CASE role = "admin" -> 3 [] role = "operator" -> 2 [] role = "viewer" -> 1 [] OTHER -> 0

\* Fault: the role of the token is not looked at.
AdminToken_AnyRole(t) == t \in live

\* jwtMiddleware and requireMinRole("admin"): token t opens the admin routes.
AdminToken(t) == t \in live /\ RoleLevel(tokens[t].role) >= RoleLevel("admin")

Issue(name, role, secret, login) ==
    /\ Len(tokens) < MaxTokens
    /\ tokens' = Append(tokens, [name |-> name, role |-> role, secret |-> secret, login |-> login])
    /\ live' = live \cup {Len(tokens) + 1}

Expire(t) ==
    /\ t \in live
    /\ live' = live \ {t}
    /\ UNCHANGED <<userVars, tokens, auditVars, req>>
-----------------------------------------------------------------------------
(* The login audit.                                                         *)

RecordLogin(name, role, ok) ==
    LET entry == [name |-> name, role |-> role, ok |-> ok]
        kept  == IF Len(loginAudit) >= AuditMax THEN Tail(loginAudit) ELSE loginAudit
    IN  /\ Len(entries) < MaxEntries
        /\ loginAudit' = Append(kept, entry)
        /\ entries' = Append(entries, entry)
-----------------------------------------------------------------------------
(* Logging in: Verify, the audit entry, the answer.                         *)

Goto(g, r) == req' = [req EXCEPT ![g] = r]

\* The role a name and a password earn, None when they are not a user's.
Verify(name, secret) == IF users[name].secret = secret THEN users[name].role ELSE None

LoginVerify(g, name, secret) ==
    /\ req[g] = Idle
    /\ Goto(g, [op |-> "record", name |-> name, secret |-> secret,
                role |-> Verify(name, secret), recorded |-> FALSE])
    /\ UNCHANGED <<userVars, tokenVars, auditVars>>

\* Fault: only failures are recorded.
LoginRecord_Failures(g) ==
    /\ req[g].op = "record"
    /\ IF req[g].role = None THEN RecordLogin(req[g].name, None, FALSE) ELSE UNCHANGED auditVars
    /\ Goto(g, IF req[g].role = None THEN Idle ELSE [req[g] EXCEPT !.op = "answer", !.recorded = TRUE])
    /\ UNCHANGED <<userVars, tokenVars>>

LoginRecord(g) ==
    /\ req[g].op = "record"
    /\ RecordLogin(req[g].name, req[g].role, req[g].role # None)
    /\ Goto(g, IF req[g].role = None THEN Idle ELSE [req[g] EXCEPT !.op = "answer", !.recorded = TRUE])
    /\ UNCHANGED <<userVars, tokenVars>>

LoginAnswer(g) ==
    /\ req[g].op = "answer"
    /\ Issue(req[g].name, req[g].role, req[g].secret, TRUE)
    /\ Goto(g, Idle)
    /\ UNCHANGED <<userVars, auditVars>>
-----------------------------------------------------------------------------
(* Refreshing: any live token in the header, the one to refresh in the body;  *)
(* a body that is no token is one that was not issued.                        *)

RefreshBegin(g, header, body) ==
    /\ req[g] = Idle
    /\ header \in live
    /\ Goto(g, [op |-> "refresh", body |-> body, recorded |-> FALSE])
    /\ UNCHANGED <<userVars, tokenVars, auditVars>>

\* Fault: the new token has the role the name has now.
RefreshIssue_CurrentRole(g) ==
    /\ req[g].op = "refresh" /\ req[g].body \in live
    /\ LET old == tokens[req[g].body]
       IN  /\ old.name \in Present
           /\ Issue(old.name, users[old.name].role, old.secret, FALSE)
    /\ Goto(g, Idle)
    /\ UNCHANGED <<userVars, auditVars>>

\* Name and role of the new token are those of the old one.
RefreshIssue(g) ==
    /\ req[g].op = "refresh" /\ req[g].body \in live
    /\ LET old == tokens[req[g].body] IN Issue(old.name, old.role, old.secret, FALSE)
    /\ Goto(g, Idle)
    /\ UNCHANGED <<userVars, auditVars>>

RefreshRefused(g) ==
    /\ req[g].op = "refresh" /\ req[g].body \notin live
    /\ RecordLogin("unknown", None, FALSE)
    /\ Goto(g, Idle)
    /\ UNCHANGED <<userVars, tokenVars>>
-----------------------------------------------------------------------------
(* Managing users.  A refused change is answered and changes nothing.       *)

AdminBegin(g, t, r) ==
    /\ req[g] = Idle
    /\ AdminToken(t)
    /\ r.by = tokens[t].name
    /\ Goto(g, r)
    /\ UNCHANGED <<userVars, tokenVars, auditVars>>

SetUser(name, u) ==
    /\ users' = [users EXCEPT ![name] = u]
    /\ held' = IF u = NoUser THEN held ELSE held \cup {<<name, u.role, u.secret>>}

Create(g) ==
    /\ req[g].op = "create"
    /\ IF req[g].role \in ValidRoles /\ req[g].name \notin Present
       THEN SetUser(req[g].name, [role |-> req[g].role, secret |-> req[g].secret])
       ELSE UNCHANGED userVars
    /\ Goto(g, Idle)
    /\ UNCHANGED <<tokenVars, auditVars>>

\* UpdateUser, first part: SetPassword if the request has a password.
PatchPassword(g) ==
    /\ req[g].op = "patch"
    /\ IF req[g].secret # None /\ req[g].name \in Present
       THEN SetUser(req[g].name, [users[req[g].name] EXCEPT !.secret = req[g].secret])
       ELSE UNCHANGED userVars
    /\ Goto(g, IF req[g].secret # None /\ req[g].name \notin Present
               THEN Idle
               ELSE [req[g] EXCEPT !.op = "role"])
    /\ UNCHANGED <<tokenVars, auditVars>>

\* Fault: an off-by-one lets the last admin go.
LastAdmin_Off(name) == users[name].role = "admin" /\ Cardinality(Admins) < 1

LastAdmin(name) == users[name].role = "admin" /\ Cardinality(Admins) <= 1

RoleChange(name, role) ==
    /\ role \in ValidRoles /\ name \in Present
    /\ ~ (LastAdmin(name) /\ role # "admin")

\* UpdateUser, second part: UpdateRole if the request has a role.  The Get and
\* the answer after it change nothing.
PatchRole(g) ==
    /\ req[g].op = "role"
    /\ IF RoleChange(req[g].name, req[g].role)
       THEN SetUser(req[g].name, [users[req[g].name] EXCEPT !.role = req[g].role])
       ELSE UNCHANGED userVars
    /\ Goto(g, Idle)
    /\ UNCHANGED <<tokenVars, auditVars>>

Delete(g) ==
    /\ req[g].op = "delete"
    /\ IF req[g].name \in Present /\ ~ LastAdmin(req[g].name)
       THEN SetUser(req[g].name, NoUser)
       ELSE UNCHANGED userVars
    /\ Goto(g, Idle)
    /\ UNCHANGED <<tokenVars, auditVars>>
-----------------------------------------------------------------------------
AdminRequest ==
    [op : {"create"}, by : Names, name : Names, secret : NewSecrets, role : RequestedRoles]
    \cup {r \in [op : {"patch"}, by : Names, name : Names,
                 secret : NewSecrets \cup {None}, role : RequestedRoles \cup {None}] :
             r.secret # None \/ r.role # None}
    \cup [op : {"delete"}, by : Names, name : Names]

Handler(g) ==
    \/ LoginRecord(g) \/ LoginAnswer(g)
    \/ RefreshIssue(g) \/ RefreshRefused(g)
    \/ Create(g) \/ PatchPassword(g) \/ PatchRole(g) \/ Delete(g)

Next ==
    \/ \E g \in Requests, n \in Names, s \in Secrets : LoginVerify(g, n, s)
    \/ \E g \in Requests, h \in TokenIds, b \in TokenIds : RefreshBegin(g, h, b)
    \/ \E g \in Requests, t \in TokenIds, r \in AdminRequest : AdminBegin(g, t, r)
    \/ \E g \in Requests : Handler(g)
    \/ \E t \in TokenIds : Expire(t)

Spec == Init /\ [][Next]_vars
-----------------------------------------------------------------------------
(* Properties                                                               *)

\* Variables have their types; a user never gets a role the code does not know.
TypeOK ==
    /\ users \in [Names -> User \cup {NoUser}]
    /\ tokens \in Seq(Token) /\ Len(tokens) <= MaxTokens
    /\ live \subseteq 1..Len(tokens)
    /\ loginAudit \in Seq(Entry) /\ Len(loginAudit) <= AuditMax
    /\ entries \in Seq(Entry) /\ Len(entries) <= MaxEntries
    /\ req \in [Requests -> Request]
    /\ held \subseteq Names \X Roles \X Secrets

\* No order of deletions and demotions, however many run at once, leaves a server
\* that had an admin without one (ErrLastAdmin, "to avoid lockout").
AdminRemains == (\E n \in Names : Seed[n].role = "admin") => Admins # {}

\* A token names a role its user had while the password that earned it was the
\* user's: Verify reads both at once, and refreshing keeps both, whatever happened
\* to the user since.
RoleEarned ==
    \A t \in 1..Len(tokens) : <<tokens[t].name, tokens[t].role, tokens[t].secret>> \in held

\* Whoever changes users was an admin at some time, though the check is of the
\* token, before the handler runs.
ChangedByAdmin ==
    \A g \in Requests :
        req[g].op \in {"create", "patch", "role", "delete"} =>
            \E s \in Secrets : <<req[g].by, "admin", s>> \in held

\* Nobody holds a token from Login that the audit has no entry of.
TokensOnRecord ==
    \A n \in Names, r \in Roles :
        Cardinality({t \in 1..Len(tokens) :
                       tokens[t].login /\ tokens[t].name = n /\ tokens[t].role = r})
        <= Cardinality({i \in 1..Len(entries) :
                          entries[i] = [name |-> n, role |-> r, ok |-> TRUE]})

\* The login audit is a log of the newest entries, like the event store.
Reversed(s) == [i \in 1..Len(s) |-> s[Len(s) + 1 - i]]
AuditLog == INSTANCE EventLog WITH Event <- Entry, Capacity <- AuditMax, window <- Reversed(loginAudit)
AuditSpec == AuditLog!Spec

\* "Every login and refresh attempt - success or failure - is appended to a bounded
\* ring buffer" (docs/management-features.md:110): an attempt is answered after or
\* with its entry.  A refresh that succeeds leaves none.
EveryAttemptRecorded ==
    [][\A g \in Requests :
          req[g].op \in {"record", "answer", "refresh"} /\ req'[g] = Idle =>
              req[g].recorded \/ entries' # entries]_vars
===============================================================================
