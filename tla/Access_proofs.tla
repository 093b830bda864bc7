----------------------------- MODULE Access_proofs -----------------------------
(***************************************************************************)
(* Proofs about Access, for any names, passwords and configured users, any *)
(* roles that requests name and any number of requests at once.            *)
(***************************************************************************)
EXTENDS Access, FiniteSetTheorems, TLAPS

LEMMA SeedTyped == Seed \in [Names -> User \cup {NoUser}]
BY SeedAssumption DEF User, NoUser, Roles, SeedRoles

LEMMA NoUserIsNone == \A u \in User : u # NoUser /\ u.secret # None
<1>1. None \notin Secrets
  BY SeedAssumption
<1>2. NoUser.secret = None
  BY DEF NoUser
<1>3. \A u \in User : u.secret \in Secrets
  BY DEF User
<1> QED
  BY <1>1, <1>2, <1>3

LEMMA RoleNotNone == None \notin Roles
BY DEF Roles, SeedRoles, ValidRoles, None

LEMMA TypeInit == Init => TypeOK
<1> SUFFICES ASSUME Init PROVE TypeOK
  OBVIOUS
<1>1. held \subseteq Names \X Roles \X Secrets
  BY SeedTyped DEF Init, User
<1> QED
  BY <1>1, SeedTyped, BoundsAssumption DEF Init, TypeOK, Request

\* What a goroutine is about to do changes to another request.
LEMMA GotoTyped ==
  ASSUME TypeOK, NEW g \in Requests, NEW r \in Request, Goto(g, r)
  PROVE  req' \in [Requests -> Request] /\ \A h \in Requests : req'[h] = IF h = g THEN r ELSE req[h]
BY DEF TypeOK, Goto

\* A user that is set to a user, or removed.
LEMMA SetTyped ==
  ASSUME TypeOK, NEW n \in Names, NEW u \in User \cup {NoUser}, SetUser(n, u)
  PROVE  /\ users' \in [Names -> User \cup {NoUser}]
         /\ held' \subseteq Names \X Roles \X Secrets
         /\ held \subseteq held'
         /\ \A m \in Names : users'[m] = IF m = n THEN u ELSE users[m]
         /\ u # NoUser => <<n, u.role, u.secret>> \in held'
<1>1. users' \in [Names -> User \cup {NoUser}] /\ \A m \in Names : users'[m] = IF m = n THEN u ELSE users[m]
  BY DEF TypeOK, SetUser
<1>2. CASE u = NoUser
  BY <1>1, <1>2 DEF TypeOK, SetUser
<1>3. CASE u # NoUser
  <2>1. <<n, u.role, u.secret>> \in Names \X Roles \X Secrets
    BY <1>3 DEF User
  <2> QED
    BY <1>1, <1>3, <2>1 DEF TypeOK, SetUser
<1> QED
  BY <1>2, <1>3

LEMMA IssueTyped ==
  ASSUME TypeOK, NEW n \in Names, NEW r \in Roles, NEW s \in Secrets, NEW l \in BOOLEAN, Issue(n, r, s, l)
  PROVE  /\ tokens' \in Seq(Token) /\ Len(tokens') = Len(tokens) + 1 /\ Len(tokens') <= MaxTokens
         /\ live' \subseteq 1..Len(tokens')
         /\ \A t \in 1..Len(tokens) : tokens'[t] = tokens[t]
         /\ tokens'[Len(tokens')] = [name |-> n, role |-> r, secret |-> s, login |-> l]
<1> DEFINE tok == [name |-> n, role |-> r, secret |-> s, login |-> l]
<1>1. tok \in Token
  BY DEF Token
<1>2. tokens' = Append(tokens, tok) /\ Len(tokens) < MaxTokens /\ live' = live \cup {Len(tokens) + 1}
  BY DEF Issue
<1>3. tokens \in Seq(Token) /\ live \subseteq 1..Len(tokens)
  BY DEF TypeOK
<1> HIDE DEF tok
<1>4. tokens' \in Seq(Token) /\ Len(tokens') = Len(tokens) + 1 /\ tokens'[Len(tokens')] = tok
      /\ \A t \in 1..Len(tokens) : tokens'[t] = tokens[t]
  BY <1>1, <1>2, <1>3
<1>5. live' \subseteq 1..Len(tokens')
  <2> DEFINE k == Len(tokens)
  <2>1. k \in Nat
    BY <1>3
  <2>2. live' = live \cup {k + 1} /\ live \subseteq 1..k /\ Len(tokens') = k + 1
    BY <1>2, <1>3, <1>4
  <2> HIDE DEF k
  <2> QED
    BY <2>1, <2>2
<1> QED
  BY <1>2, <1>3, <1>4, <1>5, BoundsAssumption DEF tok

LEMMA RecordTyped ==
  ASSUME TypeOK, NEW n \in Names \cup {"unknown"}, NEW r \in Roles \cup {None}, NEW ok \in BOOLEAN,
         RecordLogin(n, r, ok)
  PROVE  /\ loginAudit' \in Seq(Entry) /\ Len(loginAudit') <= AuditMax
         /\ entries' \in Seq(Entry) /\ Len(entries') <= MaxEntries
<1> DEFINE e == [name |-> n, role |-> r, ok |-> ok]
           kept == IF Len(loginAudit) >= AuditMax THEN Tail(loginAudit) ELSE loginAudit
<1>1. e \in Entry
  BY DEF Entry
<1>2. /\ loginAudit' = Append(kept, e)
      /\ entries' = Append(entries, e) /\ Len(entries) < MaxEntries
  BY DEF RecordLogin
<1>3. loginAudit \in Seq(Entry) /\ Len(loginAudit) <= AuditMax /\ entries \in Seq(Entry)
  BY DEF TypeOK
<1>4. kept \in Seq(Entry) /\ Len(kept) < AuditMax
  <2>1. CASE Len(loginAudit) >= AuditMax
    <3>1. loginAudit # <<>>
      BY <2>1, <1>3, BoundsAssumption
    <3>2. Tail(loginAudit) \in Seq(Entry) /\ Len(Tail(loginAudit)) = Len(loginAudit) - 1
      BY <3>1, <1>3
    <3> QED
      BY <2>1, <3>2, <1>3, BoundsAssumption
  <2>2. CASE ~ (Len(loginAudit) >= AuditMax)
    BY <2>2, <1>3, BoundsAssumption
  <2> QED
    BY <2>1, <2>2
<1> HIDE DEF e, kept
<1>5. loginAudit' \in Seq(Entry) /\ Len(loginAudit') = Len(kept) + 1
  BY <1>1, <1>2, <1>4
<1>6. entries' \in Seq(Entry) /\ Len(entries') = Len(entries) + 1
  BY <1>1, <1>2, <1>3
<1>7. Len(kept) \in Nat /\ Len(entries) \in Nat
  BY <1>3, <1>4
<1> QED
  BY <1>2, <1>4, <1>5, <1>6, <1>7, BoundsAssumption

\* Verify answers with a role only for a password that is the user's.
LEMMA VerifyTyped ==
  ASSUME TypeOK, NEW n \in Names, NEW s \in Secrets
  PROVE  /\ Verify(n, s) \in Roles \cup {None}
         /\ Verify(n, s) # None => n \in Present /\ Verify(n, s) = users[n].role /\ s = users[n].secret
<1>1. CASE users[n].secret = s
  <2>1. users[n] \in User /\ users[n] # NoUser
    <3>1. users[n] # NoUser
      BY <1>1, SeedAssumption DEF NoUser
    <3> QED
      BY <3>1 DEF TypeOK
  <2>2. users[n].role \in Roles
    BY <2>1 DEF User
  <2> QED
    BY <1>1, <2>1, <2>2 DEF Verify, Present
<1>2. CASE users[n].secret # s
  BY <1>2 DEF Verify
<1> QED
  BY <1>1, <1>2
\* The handlers that manage users.
UserStep(g) == Create(g) \/ PatchPassword(g) \/ PatchRole(g) \/ Delete(g)

\* Such a step changes no token and no audit, and sets at most one user: to a user
\* with the same role, to one that was none, by a role change that is let through,
\* or to none when it was not the last admin.
LEMMA UserStepShape ==
  ASSUME TypeOK, NEW g \in Requests, UserStep(g)
  PROVE  /\ UNCHANGED <<tokenVars, auditVars>>
         /\ \E r \in Request : Goto(g, r) /\ (r = Idle \/ (r.op = "role" /\ r.by = req[g].by))
         /\ \/ UNCHANGED userVars
            \/ \E n \in Names, u \in User \cup {NoUser} :
                  /\ SetUser(n, u)
                  /\ \/ n \notin Present
                     \/ u.role = users[n].role \/ u.role = "admin"
                     \/ n \in Present /\ ~ LastAdmin(n)
<1>0. Idle \in Request
  BY DEF Request
<1>1. CASE Create(g)
  <2>1. req[g] \in [op : {"create"}, by : Names, name : Names, secret : NewSecrets, role : RequestedRoles]
    <3>1. req[g] \in Request /\ req[g].op = "create"
      BY <1>1 DEF Create, TypeOK
    <3> QED
      BY <3>1 DEF Request, Idle
  <2> DEFINE u == [role |-> req[g].role, secret |-> req[g].secret]
  <2>2. CASE req[g].role \in ValidRoles /\ req[g].name \notin Present
    <3>1. u \in User /\ req[g].name \in Names
      BY <2>1, <2>2, NamesAssumption DEF User, Roles
    <3> QED
      BY <1>0, <1>1, <2>2, <3>1 DEF Create
  <2>3. CASE ~ (req[g].role \in ValidRoles /\ req[g].name \notin Present)
    BY <1>0, <1>1, <2>3 DEF Create
  <2> QED
    BY <2>2, <2>3
<1>2. CASE PatchPassword(g)
  <2>1. req[g] \in [op : {"patch"}, by : Names, name : Names,
                    secret : NewSecrets \cup {None}, role : RequestedRoles \cup {None}]
    BY <1>2 DEF PatchPassword, TypeOK, Request, Idle
  <2> DEFINE r == [req[g] EXCEPT !.op = "role"]
             n == req[g].name
             u == [users[n] EXCEPT !.secret = req[g].secret]
  <2>2. r \in Request /\ r.op = "role" /\ r.by = req[g].by
    BY <2>1 DEF Request
  <2>3. \E q \in Request : Goto(g, q) /\ (q = Idle \/ (q.op = "role" /\ q.by = req[g].by))
    BY <1>0, <1>2, <2>2 DEF PatchPassword
  <2>4. CASE req[g].secret # None /\ n \in Present
    <3>1. users[n] \in User
      BY <2>4 DEF TypeOK, Present
    <3>2. u \in User /\ u.role = users[n].role /\ n \in Names
      BY <2>1, <2>4, <3>1, NamesAssumption DEF User
    <3>3. SetUser(n, u) /\ UNCHANGED <<tokenVars, auditVars>>
      BY <1>2, <2>4 DEF PatchPassword
    <3> QED
      BY <2>3, <3>2, <3>3
  <2>5. CASE ~ (req[g].secret # None /\ n \in Present)
    BY <1>2, <2>3, <2>5 DEF PatchPassword
  <2> QED
    BY <2>4, <2>5
<1>3. CASE PatchRole(g)
  <2>1. req[g] \in [op : {"role"}, by : Names, name : Names,
                    secret : NewSecrets \cup {None}, role : RequestedRoles \cup {None}]
    BY <1>3 DEF PatchRole, TypeOK, Request, Idle
  <2> DEFINE n == req[g].name
             u == [users[n] EXCEPT !.role = req[g].role]
  <2>2. CASE RoleChange(n, req[g].role)
    <3>1. users[n] \in User
      BY <2>2 DEF TypeOK, Present, RoleChange
    <3>2. u \in User /\ u.role = req[g].role /\ n \in Names
      BY <2>1, <2>2, <3>1 DEF User, Roles, RoleChange
    <3>3. SetUser(n, u) /\ UNCHANGED <<tokenVars, auditVars>>
      BY <1>3, <2>2 DEF PatchRole
    <3>4. u.role = "admin" \/ (n \in Present /\ ~ LastAdmin(n))
      BY <2>2, <3>2 DEF RoleChange
    <3> QED
      BY <1>0, <1>3, <3>2, <3>3, <3>4 DEF PatchRole
  <2>3. CASE ~ RoleChange(n, req[g].role)
    BY <1>0, <1>3, <2>3 DEF PatchRole
  <2> QED
    BY <2>2, <2>3
<1>4. CASE Delete(g)
  <2>1. req[g].name \in Names
    BY <1>4 DEF Delete, TypeOK, Request, Idle
  <2>2. CASE req[g].name \in Present /\ ~ LastAdmin(req[g].name)
    BY <1>0, <1>4, <2>1, <2>2 DEF Delete
  <2>3. CASE ~ (req[g].name \in Present /\ ~ LastAdmin(req[g].name))
    BY <1>0, <1>4, <2>3 DEF Delete
  <2> QED
    BY <2>2, <2>3
<1> QED
  BY <1>1, <1>2, <1>3, <1>4 DEF UserStep
-----------------------------------------------------------------------------
(* Type correctness                                                         *)

LEMMA TypeStep == TypeOK /\ [Next]_vars => TypeOK'
<1> SUFFICES ASSUME TypeOK, [Next]_vars PROVE TypeOK'
  OBVIOUS
<1> USE DEF userVars, tokenVars, auditVars
<1>idle. Idle \in Request
  BY DEF Request
<1>1. ASSUME NEW g \in Requests, NEW n \in Names, NEW s \in Secrets, LoginVerify(g, n, s)
      PROVE  TypeOK'
  <2> DEFINE r == [op |-> "record", name |-> n, secret |-> s, role |-> Verify(n, s), recorded |-> FALSE]
  <2>1. r \in Request /\ Goto(g, r)
    BY <1>1, VerifyTyped DEF LoginVerify, Request
  <2>2. req' \in [Requests -> Request]
    BY <2>1, GotoTyped
  <2> QED
    BY <1>1, <2>2 DEF LoginVerify, TypeOK
<1>2. ASSUME NEW g \in Requests, LoginRecord(g) PROVE TypeOK'
  <2> DEFINE r == req[g]
             s == IF r.role = None THEN Idle ELSE [r EXCEPT !.op = "answer", !.recorded = TRUE]
  <2>1. r \in [op : {"record"}, name : Names, secret : Secrets, role : Roles \cup {None}, recorded : BOOLEAN]
    BY <1>2, SMTT(60) DEF LoginRecord, TypeOK, Request, Idle
  <2>2. s \in Request
    BY <2>1, <1>idle DEF Request
  <2>3. req' \in [Requests -> Request]
    BY <1>2, <2>2, GotoTyped DEF LoginRecord
  <2>4. r.name \in Names \cup {"unknown"} /\ r.role \in Roles \cup {None} /\ (r.role # None) \in BOOLEAN
    BY <2>1
  <2>5. RecordLogin(r.name, r.role, r.role # None)
    BY <1>2 DEF LoginRecord
  <2>6. /\ loginAudit' \in Seq(Entry) /\ Len(loginAudit') <= AuditMax
        /\ entries' \in Seq(Entry) /\ Len(entries') <= MaxEntries
    BY <2>4, <2>5, RecordTyped
  <2> QED
    BY <1>2, <2>3, <2>6 DEF LoginRecord, TypeOK
<1>3. ASSUME NEW g \in Requests, LoginAnswer(g) PROVE TypeOK'
  <2>1. req[g] \in [op : {"answer"}, name : Names, secret : Secrets, role : Roles, recorded : BOOLEAN]
    BY <1>3 DEF LoginAnswer, TypeOK, Request, Idle
  <2>2. req[g].name \in Names /\ req[g].role \in Roles /\ req[g].secret \in Secrets
    BY <2>1
  <2>3. /\ tokens' \in Seq(Token) /\ Len(tokens') <= MaxTokens
        /\ live' \subseteq 1..Len(tokens')
    BY <1>3, <2>2, IssueTyped DEF LoginAnswer
  <2>4. req' \in [Requests -> Request]
    BY <1>3, <1>idle, GotoTyped DEF LoginAnswer
  <2> QED
    BY <1>3, <2>3, <2>4 DEF LoginAnswer, TypeOK
<1>4. ASSUME NEW g \in Requests, NEW h \in TokenIds, NEW b \in TokenIds, RefreshBegin(g, h, b)
      PROVE  TypeOK'
  <2> DEFINE r == [op |-> "refresh", body |-> b, recorded |-> FALSE]
  <2>1. r \in Request /\ Goto(g, r)
    BY <1>4 DEF RefreshBegin, Request
  <2>2. req' \in [Requests -> Request]
    BY <2>1, GotoTyped
  <2> QED
    BY <1>4, <2>2 DEF RefreshBegin, TypeOK
<1>5. ASSUME NEW g \in Requests, RefreshIssue(g) PROVE TypeOK'
  <2> DEFINE old == tokens[req[g].body]
  <2>1. old \in Token
    <3>1. tokens \in Seq(Token) /\ req[g].body \in 1..Len(tokens)
      BY <1>5 DEF RefreshIssue, TypeOK
    <3> QED
      BY <3>1
  <2>2. old.name \in Names /\ old.role \in Roles /\ old.secret \in Secrets
    BY <2>1 DEF Token
  <2>3. Issue(old.name, old.role, old.secret, FALSE)
    BY <1>5 DEF RefreshIssue
  <2> HIDE DEF old
  <2>4. /\ tokens' \in Seq(Token) /\ Len(tokens') <= MaxTokens
        /\ live' \subseteq 1..Len(tokens')
    BY <2>2, <2>3, IssueTyped
  <2>5. req' \in [Requests -> Request]
    BY <1>5, <1>idle, GotoTyped DEF RefreshIssue
  <2> QED
    BY <1>5, <2>4, <2>5 DEF RefreshIssue, TypeOK
<1>6. ASSUME NEW g \in Requests, RefreshRefused(g) PROVE TypeOK'
  <2>1. RecordLogin("unknown", None, FALSE)
    BY <1>6 DEF RefreshRefused
  <2>2. /\ loginAudit' \in Seq(Entry) /\ Len(loginAudit') <= AuditMax
        /\ entries' \in Seq(Entry) /\ Len(entries') <= MaxEntries
    BY <2>1, RecordTyped
  <2>3. req' \in [Requests -> Request]
    BY <1>6, <1>idle, GotoTyped DEF RefreshRefused
  <2> QED
    BY <1>6, <2>2, <2>3 DEF RefreshRefused, TypeOK
<1>7. ASSUME NEW g \in Requests, NEW t \in TokenIds, NEW r \in AdminRequest, AdminBegin(g, t, r)
      PROVE  TypeOK'
  <2>1. r \in Request
    BY DEF AdminRequest, Request
  <2>2. req' \in [Requests -> Request]
    BY <1>7, <2>1, GotoTyped DEF AdminBegin
  <2> QED
    BY <1>7, <2>2 DEF AdminBegin, TypeOK
<1>8. ASSUME NEW g \in Requests, UserStep(g) PROVE TypeOK'
  <2>1. PICK r \in Request : Goto(g, r)
    BY <1>8, UserStepShape
  <2>2. req' \in [Requests -> Request]
    BY <2>1, GotoTyped
  <2>3. users' \in [Names -> User \cup {NoUser}] /\ held' \subseteq Names \X Roles \X Secrets
    BY <1>8, UserStepShape, SetTyped DEF TypeOK
  <2> QED
    BY <1>8, <2>2, <2>3, UserStepShape DEF TypeOK
<1>9. ASSUME NEW t \in TokenIds, Expire(t) PROVE TypeOK'
  BY <1>9 DEF Expire, TypeOK
<1>10. CASE UNCHANGED vars
  BY <1>10 DEF vars, TypeOK
<1> QED
  BY <1>1, <1>2, <1>3, <1>4, <1>5, <1>6, <1>7, <1>8, <1>9, <1>10 DEF Next, Handler, UserStep

\* Variables keep their types, whatever roles requests name.
THEOREM TypeCorrect == Spec => []TypeOK
BY TypeInit, TypeStep, PTL DEF Spec
-----------------------------------------------------------------------------
(* Who may do what.  Two facts make the properties inductive: what a user is  *)
(* now is in the history, and so is what a login has verified and not yet     *)
(* turned into a token.                                                       *)

HeldInv ==
    /\ \A n \in Present : <<n, users[n].role, users[n].secret>> \in held
    /\ \A g \in Requests :
          req[g].op \in {"record", "answer"} /\ req[g].role # None =>
              <<req[g].name, req[g].role, req[g].secret>> \in held

AccessInv == TypeOK /\ HeldInv /\ RoleEarned /\ ChangedByAdmin

LEMMA AccessInit == Init => AccessInv
BY TypeInit, SeedTyped DEF Init, AccessInv, HeldInv, RoleEarned, ChangedByAdmin, Present, Idle, User, NoUser

\* The history only grows, and it always has what the users are now.
LEMMA UsersHeld ==
  ASSUME TypeOK, HeldInv, NEW n \in Names, NEW u \in User \cup {NoUser}, SetUser(n, u)
  PROVE  held \subseteq held' /\ \A m \in Present' : <<m, users'[m].role, users'[m].secret>> \in held'
<1>1. /\ held \subseteq held'
      /\ \A m \in Names : users'[m] = IF m = n THEN u ELSE users[m]
      /\ u # NoUser => <<n, u.role, u.secret>> \in held'
  BY SetTyped
<1>2. ASSUME NEW m \in Present' PROVE <<m, users'[m].role, users'[m].secret>> \in held'
  <2>1. m \in Names /\ users'[m] # NoUser
    BY DEF Present
  <2>2. CASE m = n
    BY <1>1, <2>1, <2>2
  <2>3. CASE m # n
    BY <1>1, <2>1, <2>3 DEF HeldInv, Present
  <2> QED
    BY <2>2, <2>3
<1> QED
  BY <1>1, <1>2

\* A request that is no attempt, put in place of another: nothing is to be shown
\* of it but that its token was an admin's.
LEMMA GotoKeeps ==
  ASSUME AccessInv, NEW g \in Requests, NEW r \in Request, Goto(g, r), held \subseteq held',
         r.op \in {"record", "answer"} =>
             (r.role # None => <<r.name, r.role, r.secret>> \in held'),
         r.op \in {"create", "patch", "role", "delete"} =>
             \E s \in Secrets : <<r.by, "admin", s>> \in held'
  PROVE  /\ ChangedByAdmin'
         /\ \A h \in Requests :
               req'[h].op \in {"record", "answer"} /\ req'[h].role # None =>
                   <<req'[h].name, req'[h].role, req'[h].secret>> \in held'
<1>1. \A h \in Requests : req'[h] = IF h = g THEN r ELSE req[h]
  BY GotoTyped DEF AccessInv
<1> QED
  BY <1>1 DEF AccessInv, HeldInv, ChangedByAdmin

LEMMA AdminTokenHeld ==
  ASSUME AccessInv, NEW t \in TokenIds, AdminToken(t)
  PROVE  \E s \in Secrets : <<tokens[t].name, "admin", s>> \in held
<1>1. t \in 1..Len(tokens) /\ tokens[t] \in Token
  <2>1. t \in 1..Len(tokens) /\ tokens \in Seq(Token)
    BY DEF AccessInv, TypeOK, AdminToken
  <2> QED
    BY <2>1
<1>2. tokens[t].role = "admin"
  BY DEF AdminToken, RoleLevel
<1> QED
  BY <1>1, <1>2 DEF AccessInv, RoleEarned, Token

\* One more token that its name, role and password earned.
LEMMA IssueEarned ==
  ASSUME AccessInv, NEW n \in Names, NEW r \in Roles, NEW s \in Secrets, NEW l \in BOOLEAN,
         Issue(n, r, s, l), <<n, r, s>> \in held, held' = held
  PROVE  RoleEarned'
<1> DEFINE k == Len(tokens)
<1>1. /\ Len(tokens') = k + 1 /\ k \in Nat
      /\ \A t \in 1..k : tokens'[t] = tokens[t]
      /\ tokens'[k + 1] = [name |-> n, role |-> r, secret |-> s, login |-> l]
  BY IssueTyped DEF AccessInv, TypeOK
<1>2. ASSUME NEW t \in 1..(k + 1)
      PROVE  <<tokens'[t].name, tokens'[t].role, tokens'[t].secret>> \in held
  <2>1. CASE t = k + 1
    BY <1>1, <2>1
  <2>2. CASE t # k + 1
    <3>1. t \in 1..k
      BY <1>1, <2>2
    <3> QED
      BY <1>1, <3>1 DEF AccessInv, RoleEarned
  <2> QED
    BY <2>1, <2>2
<1> QED
  BY <1>1, <1>2 DEF RoleEarned

LEMMA AccessStep == AccessInv /\ [Next]_vars => AccessInv'
<1> SUFFICES ASSUME AccessInv, [Next]_vars PROVE AccessInv'
  OBVIOUS
<1> USE DEF userVars, tokenVars, auditVars
<1>t. TypeOK'
  BY TypeStep DEF AccessInv
<1>idle. Idle \in Request /\ Idle.op = "idle"
  BY DEF Request, Idle
<1>1. ASSUME NEW g \in Requests, NEW n \in Names, NEW s \in Secrets, LoginVerify(g, n, s)
      PROVE  AccessInv'
  <2> DEFINE r == [op |-> "record", name |-> n, secret |-> s, role |-> Verify(n, s), recorded |-> FALSE]
  <2>1. r \in Request /\ Goto(g, r)
    BY <1>1, VerifyTyped DEF LoginVerify, Request, AccessInv
  <2>2. Verify(n, s) # None => <<n, Verify(n, s), s>> \in held
    BY VerifyTyped DEF AccessInv, HeldInv
  <2>3. UNCHANGED <<users, held, tokens>>
    BY <1>1 DEF LoginVerify
  <2>4. ChangedByAdmin' /\ \A h \in Requests :
               req'[h].op \in {"record", "answer"} /\ req'[h].role # None =>
                   <<req'[h].name, req'[h].role, req'[h].secret>> \in held'
    BY <2>1, <2>2, <2>3, GotoKeeps
  <2> QED
    BY <1>t, <2>3, <2>4 DEF AccessInv, HeldInv, RoleEarned, Present
<1>2. ASSUME NEW g \in Requests, LoginRecord(g) PROVE AccessInv'
  <2> DEFINE r == req[g]
             s == IF r.role = None THEN Idle ELSE [r EXCEPT !.op = "answer", !.recorded = TRUE]
  <2>1. r \in [op : {"record"}, name : Names, secret : Secrets, role : Roles \cup {None}, recorded : BOOLEAN]
    BY <1>2 DEF LoginRecord, AccessInv, TypeOK, Request, Idle
  <2>2. s \in Request
    BY <2>1, <1>idle DEF Request
  <2>3. s.op \in {"record", "answer"} => <<s.name, s.role, s.secret>> \in held
    BY <2>1, <1>idle DEF AccessInv, HeldInv
  <2>4. s.op \notin {"create", "patch", "role", "delete"}
    BY <2>1, <1>idle
  <2>5. UNCHANGED <<users, held, tokens>> /\ Goto(g, s)
    BY <1>2 DEF LoginRecord
  <2> HIDE DEF s
  <2>6. ChangedByAdmin' /\ \A h \in Requests :
               req'[h].op \in {"record", "answer"} /\ req'[h].role # None =>
                   <<req'[h].name, req'[h].role, req'[h].secret>> \in held'
    BY <2>2, <2>3, <2>4, <2>5, GotoKeeps
  <2> QED
    BY <1>t, <2>5, <2>6 DEF AccessInv, HeldInv, RoleEarned, Present
<1>3. ASSUME NEW g \in Requests, LoginAnswer(g) PROVE AccessInv'
  <2>1. req[g] \in [op : {"answer"}, name : Names, secret : Secrets, role : Roles, recorded : BOOLEAN]
    BY <1>3 DEF LoginAnswer, AccessInv, TypeOK, Request, Idle
  <2>2. req[g].name \in Names /\ req[g].role \in Roles /\ req[g].secret \in Secrets /\ req[g].role # None
    BY <2>1, RoleNotNone
  <2>3. <<req[g].name, req[g].role, req[g].secret>> \in held
    BY <2>1, <2>2 DEF AccessInv, HeldInv
  <2>4. RoleEarned'
    BY <1>3, <2>2, <2>3, IssueEarned DEF LoginAnswer
  <2>5. UNCHANGED <<users, held>> /\ Goto(g, Idle)
    BY <1>3 DEF LoginAnswer
  <2>6. ChangedByAdmin' /\ \A h \in Requests :
               req'[h].op \in {"record", "answer"} /\ req'[h].role # None =>
                   <<req'[h].name, req'[h].role, req'[h].secret>> \in held'
    BY <2>5, <1>idle, GotoKeeps
  <2> QED
    BY <1>t, <2>4, <2>5, <2>6 DEF AccessInv, HeldInv, Present
<1>4. ASSUME NEW g \in Requests, NEW h \in TokenIds, NEW b \in TokenIds, RefreshBegin(g, h, b)
      PROVE  AccessInv'
  <2> DEFINE r == [op |-> "refresh", body |-> b, recorded |-> FALSE]
  <2>1. r \in Request /\ Goto(g, r) /\ UNCHANGED <<users, held, tokens>>
    BY <1>4 DEF RefreshBegin, Request
  <2>2. ChangedByAdmin' /\ \A q \in Requests :
               req'[q].op \in {"record", "answer"} /\ req'[q].role # None =>
                   <<req'[q].name, req'[q].role, req'[q].secret>> \in held'
    BY <2>1, GotoKeeps
  <2> QED
    BY <1>t, <2>1, <2>2 DEF AccessInv, HeldInv, RoleEarned, Present
<1>5. ASSUME NEW g \in Requests, RefreshIssue(g) PROVE AccessInv'
  <2> DEFINE old == tokens[req[g].body]
  <2>1. req[g].body \in 1..Len(tokens) /\ tokens \in Seq(Token)
    BY <1>5 DEF RefreshIssue, AccessInv, TypeOK
  <2>2. old \in Token /\ <<old.name, old.role, old.secret>> \in held
    BY <2>1 DEF AccessInv, RoleEarned
  <2>3. old.name \in Names /\ old.role \in Roles /\ old.secret \in Secrets
    BY <2>2 DEF Token
  <2>4. Issue(old.name, old.role, old.secret, FALSE) /\ UNCHANGED <<users, held>> /\ Goto(g, Idle)
    BY <1>5 DEF RefreshIssue
  <2> HIDE DEF old
  <2>5. RoleEarned'
    BY <2>2, <2>3, <2>4, IssueEarned
  <2>6. ChangedByAdmin' /\ \A h \in Requests :
               req'[h].op \in {"record", "answer"} /\ req'[h].role # None =>
                   <<req'[h].name, req'[h].role, req'[h].secret>> \in held'
    BY <2>4, <1>idle, GotoKeeps
  <2> QED
    BY <1>t, <2>4, <2>5, <2>6 DEF AccessInv, HeldInv, Present
<1>6. ASSUME NEW g \in Requests, RefreshRefused(g) PROVE AccessInv'
  <2>1. UNCHANGED <<users, held, tokens>> /\ Goto(g, Idle)
    BY <1>6 DEF RefreshRefused
  <2>2. ChangedByAdmin' /\ \A h \in Requests :
               req'[h].op \in {"record", "answer"} /\ req'[h].role # None =>
                   <<req'[h].name, req'[h].role, req'[h].secret>> \in held'
    BY <2>1, <1>idle, GotoKeeps
  <2> QED
    BY <1>t, <2>1, <2>2 DEF AccessInv, HeldInv, RoleEarned, Present
<1>7. ASSUME NEW g \in Requests, NEW t \in TokenIds, NEW r \in AdminRequest, AdminBegin(g, t, r)
      PROVE  AccessInv'
  <2>1. r \in Request /\ r.op \in {"create", "patch", "delete"}
    BY DEF AdminRequest, Request
  <2>2. UNCHANGED <<users, held, tokens>> /\ Goto(g, r) /\ r.by = tokens[t].name
    BY <1>7 DEF AdminBegin
  <2>3. \E s \in Secrets : <<r.by, "admin", s>> \in held
    BY <1>7, <2>2, AdminTokenHeld DEF AdminBegin
  <2>4. ChangedByAdmin' /\ \A h \in Requests :
               req'[h].op \in {"record", "answer"} /\ req'[h].role # None =>
                   <<req'[h].name, req'[h].role, req'[h].secret>> \in held'
    BY <2>1, <2>2, <2>3, GotoKeeps
  <2> QED
    BY <1>t, <2>2, <2>4 DEF AccessInv, HeldInv, RoleEarned, Present
<1>8. ASSUME NEW g \in Requests, UserStep(g) PROVE AccessInv'
  <2>1. PICK r \in Request : Goto(g, r) /\ (r = Idle \/ (r.op = "role" /\ r.by = req[g].by))
    BY <1>8, UserStepShape DEF AccessInv
  <2>2. req[g].op \in {"create", "patch", "role", "delete"}
    BY <1>8 DEF UserStep, Create, PatchPassword, PatchRole, Delete
  <2>3. held \subseteq held' /\ \A m \in Present' : <<m, users'[m].role, users'[m].secret>> \in held'
    <3>1. CASE UNCHANGED userVars
      BY <3>1 DEF AccessInv, HeldInv, Present
    <3>2. CASE ~ UNCHANGED userVars
      BY <1>8, <3>2, UserStepShape, UsersHeld DEF AccessInv
    <3> QED
      BY <3>1, <3>2
  <2>4. \E s \in Secrets : <<req[g].by, "admin", s>> \in held
    BY <2>2 DEF AccessInv, ChangedByAdmin
  <2>5. ChangedByAdmin' /\ \A h \in Requests :
               req'[h].op \in {"record", "answer"} /\ req'[h].role # None =>
                   <<req'[h].name, req'[h].role, req'[h].secret>> \in held'
    BY <2>1, <2>3, <2>4, <1>idle, GotoKeeps
  <2>6. tokens' = tokens
    BY <1>8, UserStepShape DEF AccessInv
  <2> QED
    BY <1>t, <2>3, <2>5, <2>6 DEF AccessInv, HeldInv, RoleEarned
<1>9. ASSUME NEW t \in TokenIds, Expire(t) PROVE AccessInv'
  BY <1>9, <1>t DEF Expire, AccessInv, HeldInv, RoleEarned, ChangedByAdmin, Present
<1>10. CASE UNCHANGED vars
  BY <1>10, <1>t DEF vars, AccessInv, HeldInv, RoleEarned, ChangedByAdmin, Present
<1> QED
  BY <1>1, <1>2, <1>3, <1>4, <1>5, <1>6, <1>7, <1>8, <1>9, <1>10 DEF Next, Handler, UserStep

LEMMA AccessInvCorrect == Spec => []AccessInv
BY AccessInit, AccessStep, PTL DEF Spec

\* Every token names a role its user earned with the password that got it, however
\* logins, refreshes, expiries and changes of users interleave.
THEOREM RoleEarnedCorrect == Spec => []RoleEarned
<1>1. AccessInv => RoleEarned
  BY DEF AccessInv
<1> QED
  BY <1>1, AccessInvCorrect, PTL

\* Whoever is about to change users was an admin, though the check is of the token
\* and comes before the handler.
THEOREM ChangedByAdminCorrect == Spec => []ChangedByAdmin
<1>1. AccessInv => ChangedByAdmin
  BY DEF AccessInv
<1> QED
  BY <1>1, AccessInvCorrect, PTL
-----------------------------------------------------------------------------
(* Tokens and the audit.  An attempt that has its entry and not yet its token *)
(* counts with the tokens: entries cover both.                                *)

Matching(q, A) == {i \in 1..Len(q) : q[i] \in A}

LoginTokens(n, r) == {tok \in Token : tok.login /\ tok.name = n /\ tok.role = r}
SuccessOf(n, r) == [name |-> n, role |-> r, ok |-> TRUE]
Answering(n, r) == {g \in Requests : req[g].op = "answer" /\ req[g].name = n /\ req[g].role = r}

Covered(n, r) ==
    /\ IsFiniteSet(Answering(n, r))
    /\ Cardinality(Matching(tokens, LoginTokens(n, r))) + Cardinality(Answering(n, r))
           <= Cardinality(Matching(entries, {SuccessOf(n, r)}))

RecordInv == \A n \in Names, r \in Roles : Covered(n, r)

LEMMA MatchingFinite ==
  ASSUME NEW S, NEW q \in Seq(S), NEW A
  PROVE  IsFiniteSet(Matching(q, A)) /\ Cardinality(Matching(q, A)) \in Nat
<1>1. Len(q) \in Nat /\ Matching(q, A) \in SUBSET (1..Len(q))
  BY DEF Matching
<1>2. IsFiniteSet(1..Len(q))
  BY <1>1, FS_Interval
<1> QED
  BY <1>1, <1>2, FS_Subset, FS_CardinalityType

\* An element more is counted if it matches.
LEMMA MatchingAppend ==
  ASSUME NEW S, NEW q \in Seq(S), NEW e \in S, NEW A
  PROVE  Cardinality(Matching(Append(q, e), A)) =
             Cardinality(Matching(q, A)) + (IF e \in A THEN 1 ELSE 0)
<1> DEFINE p == Append(q, e)
           k == Len(q)
<1>1. k \in Nat /\ Len(p) = k + 1 /\ p[k + 1] = e /\ \A i \in 1..k : p[i] = q[i]
  OBVIOUS
<1> HIDE DEF p, k
<1>2. Matching(p, A) = {i \in 1..(k + 1) : p[i] \in A} /\ Matching(q, A) = {i \in 1..k : q[i] \in A}
  BY <1>1 DEF Matching, k
<1>3. 1..(k + 1) = 1..k \cup {k + 1} /\ k + 1 \notin 1..k
  BY <1>1
<1>4. IsFiniteSet(Matching(q, A)) /\ Cardinality(Matching(q, A)) \in Nat
  BY MatchingFinite
<1>5. CASE e \in A
  <2>1. Matching(p, A) = Matching(q, A) \cup {k + 1} /\ k + 1 \notin Matching(q, A)
    BY <1>1, <1>2, <1>3, <1>5
  <2> QED
    BY <1>4, <1>5, <2>1, FS_AddElement DEF p
<1>6. CASE e \notin A
  <2>1. Matching(p, A) = Matching(q, A)
    BY <1>1, <1>2, <1>3, <1>6
  <2> QED
    BY <1>4, <1>6, <2>1 DEF p
<1> QED
  BY <1>5, <1>6

\* A request that is no answer takes the place of one that is none.
LEMMA AnsweringKept ==
  ASSUME TypeOK, NEW g \in Requests, NEW x \in Request, Goto(g, x),
         req[g].op # "answer", x.op # "answer"
  PROVE  \A n \in Names, r \in Roles : Answering(n, r)' = Answering(n, r)
BY GotoTyped DEF Answering

\* Counts that no step touches.
LEMMA CoveredKept ==
  ASSUME NEW n \in Names, NEW r \in Roles, Covered(n, r),
         Answering(n, r)' = Answering(n, r), tokens' = tokens, entries' = entries
  PROVE  Covered(n, r)'
BY DEF Covered

\* An entry recorded by whoever is not about to answer only adds to the right side.
LEMMA RecordCovers ==
  ASSUME TypeOK, NEW n \in Names, NEW r \in Roles, Covered(n, r),
         NEW m \in Names \cup {"unknown"}, NEW q \in Roles \cup {None}, NEW ok \in BOOLEAN,
         RecordLogin(m, q, ok)
  PROVE  /\ Cardinality(Matching(entries', {SuccessOf(n, r)})) \in Nat
         /\ Cardinality(Matching(entries', {SuccessOf(n, r)})) =
                Cardinality(Matching(entries, {SuccessOf(n, r)})) +
                    (IF m = n /\ q = r /\ ok = TRUE THEN 1 ELSE 0)
<1> DEFINE e == [name |-> m, role |-> q, ok |-> ok]
<1>1. e \in Entry /\ entries \in Seq(Entry) /\ entries' = Append(entries, e)
  BY DEF Entry, RecordLogin, TypeOK
<1>2. e \in {SuccessOf(n, r)} <=> (m = n /\ q = r /\ ok = TRUE)
  BY DEF SuccessOf
<1> HIDE DEF e
<1>3. Cardinality(Matching(entries, {SuccessOf(n, r)})) \in Nat
  BY <1>1, MatchingFinite
<1> QED
  BY <1>1, <1>2, <1>3, MatchingAppend

LEMMA RecordStep == TypeOK /\ RecordInv /\ [Next]_vars => RecordInv'
<1> SUFFICES ASSUME TypeOK, RecordInv, [Next]_vars PROVE RecordInv'
  OBVIOUS
<1> USE DEF userVars, tokenVars, auditVars
<1>idle. Idle \in Request /\ Idle.op = "idle"
  BY DEF Request, Idle
<1>count. /\ \A n, r : Cardinality(Matching(tokens, LoginTokens(n, r))) \in Nat
          /\ \A n, r : Cardinality(Matching(entries, {SuccessOf(n, r)})) \in Nat
  BY MatchingFinite DEF TypeOK
<1>ans. \A n \in Names, r \in Roles : IsFiniteSet(Answering(n, r)) /\ Cardinality(Answering(n, r)) \in Nat
  BY FS_CardinalityType DEF RecordInv, Covered
<1>0. ASSUME NEW g \in Requests, NEW x \in Request, Goto(g, x), req[g].op # "answer", x.op # "answer",
             UNCHANGED <<tokens, entries>>
      PROVE  RecordInv'
  BY <1>0, AnsweringKept, CoveredKept DEF RecordInv
<1>1. ASSUME NEW g \in Requests, NEW n \in Names, NEW s \in Secrets, LoginVerify(g, n, s)
      PROVE  RecordInv'
  <2> DEFINE x == [op |-> "record", name |-> n, secret |-> s, role |-> Verify(n, s), recorded |-> FALSE]
  <2>1. x \in Request /\ Goto(g, x) /\ x.op # "answer" /\ req[g].op # "answer"
    BY <1>1, VerifyTyped DEF LoginVerify, Request, Idle
  <2> QED
    BY <1>0, <1>1, <2>1 DEF LoginVerify
<1>2. ASSUME NEW g \in Requests, LoginRecord(g) PROVE RecordInv'
  <2>1. PICK a \in [op : {"record"}, name : Names, secret : Secrets, role : Roles \cup {None}, recorded : BOOLEAN] :
           a = req[g]
    BY <1>2 DEF LoginRecord, TypeOK, Request, Idle
  <2>2. /\ a.name \in Names \cup {"unknown"} /\ a.role \in Roles \cup {None}
        /\ (a.role # None) \in BOOLEAN /\ RecordLogin(a.name, a.role, a.role # None)
    BY <1>2, <2>1 DEF LoginRecord
  <2>3. tokens' = tokens
    BY <1>2 DEF LoginRecord
  <2>4. SUFFICES ASSUME NEW n \in Names, NEW r \in Roles PROVE Covered(n, r)'
    BY DEF RecordInv
  <2>5. Covered(n, r)
    BY DEF RecordInv
  <2>6. /\ Cardinality(Matching(entries', {SuccessOf(n, r)})) \in Nat
        /\ Cardinality(Matching(entries', {SuccessOf(n, r)})) =
               Cardinality(Matching(entries, {SuccessOf(n, r)})) +
                   (IF a.name = n /\ a.role = r /\ (a.role # None) = TRUE THEN 1 ELSE 0)
    BY <2>2, <2>5, RecordCovers
  <2>7. r # None
    BY RoleNotNone
  <2>8. CASE a.role = None
    <3>1. Answering(n, r)' = Answering(n, r)
      BY <1>2, <1>idle, <2>1, <2>8, AnsweringKept DEF LoginRecord
    <3> QED
      BY <1>count, <1>ans, <2>3, <2>5, <2>6, <3>1 DEF Covered
  <2>9. CASE a.role # None
    <3>1. PICK x \in Request : x = [a EXCEPT !.op = "answer", !.recorded = TRUE]
      BY <2>1, <2>9 DEF Request
    <3>2. x.op = "answer" /\ x.name = a.name /\ x.role = a.role
      BY <2>1, <3>1
    <3>3. Goto(g, x)
      BY <1>2, <2>1, <2>9, <3>1 DEF LoginRecord
    <3>4. \A h \in Requests : req'[h] = IF h = g THEN x ELSE req[h]
      BY <3>3, GotoTyped
    <3>5. req[g].op # "answer"
      BY <2>1
    <3>6. CASE a.name = n /\ a.role = r
      <4>1. Answering(n, r)' = Answering(n, r) \cup {g} /\ g \notin Answering(n, r)
        BY <3>2, <3>4, <3>5, <3>6 DEF Answering
      <4>2. IsFiniteSet(Answering(n, r)') /\ Cardinality(Answering(n, r)') = Cardinality(Answering(n, r)) + 1
        BY <1>ans, <4>1, FS_AddElement
      <4>3. Cardinality(Matching(entries', {SuccessOf(n, r)})) = Cardinality(Matching(entries, {SuccessOf(n, r)})) + 1
        BY <2>6, <2>9, <3>6
      <4> QED
        BY <1>count, <1>ans, <2>3, <2>5, <4>2, <4>3 DEF Covered
    <3>7. CASE ~ (a.name = n /\ a.role = r)
      <4>1. Answering(n, r)' = Answering(n, r)
        BY <3>2, <3>4, <3>5, <3>7 DEF Answering
      <4> QED
        BY <1>count, <1>ans, <2>3, <2>5, <2>6, <4>1 DEF Covered
    <3> QED
      BY <3>6, <3>7
  <2> QED
    BY <2>8, <2>9
<1>3. ASSUME NEW g \in Requests, LoginAnswer(g) PROVE RecordInv'
  <2>1. PICK a \in [op : {"answer"}, name : Names, secret : Secrets, role : Roles, recorded : BOOLEAN] : a = req[g]
    BY <1>3 DEF LoginAnswer, TypeOK, Request, Idle
  <2> DEFINE tok == [name |-> a.name, role |-> a.role, secret |-> a.secret, login |-> TRUE]
  <2>2. tok \in Token /\ tokens' = Append(tokens, tok) /\ entries' = entries
    BY <1>3, <2>1 DEF LoginAnswer, Issue, Token
  <2>3. \A h \in Requests : req'[h] = IF h = g THEN Idle ELSE req[h]
    BY <1>3, <1>idle, GotoTyped DEF LoginAnswer
  <2>4. SUFFICES ASSUME NEW n \in Names, NEW r \in Roles PROVE Covered(n, r)'
    BY DEF RecordInv
  <2>5. tok \in LoginTokens(n, r) <=> (a.name = n /\ a.role = r)
    BY <2>2 DEF LoginTokens
  <2> HIDE DEF tok
  <2>6. Cardinality(Matching(tokens', LoginTokens(n, r))) =
            Cardinality(Matching(tokens, LoginTokens(n, r))) + (IF tok \in LoginTokens(n, r) THEN 1 ELSE 0)
    BY <2>2, MatchingAppend DEF TypeOK
  <2>7. LoginTokens(n, r)' = LoginTokens(n, r)
    BY DEF LoginTokens
  <2>8. CASE a.name = n /\ a.role = r
    <3>1. Answering(n, r)' = Answering(n, r) \ {g} /\ g \in Answering(n, r)
      BY <1>idle, <2>1, <2>3, <2>8 DEF Answering
    <3>2. IsFiniteSet(Answering(n, r)') /\ Cardinality(Answering(n, r)') = Cardinality(Answering(n, r)) - 1
      BY <1>ans, <3>1, FS_RemoveElement
    <3>3. Cardinality(Matching(tokens', LoginTokens(n, r))) = Cardinality(Matching(tokens, LoginTokens(n, r))) + 1
      BY <2>5, <2>6, <2>8
    <3> QED
      BY <1>count, <1>ans, <2>2, <3>2, <3>3 DEF RecordInv, Covered
  <2>9. CASE ~ (a.name = n /\ a.role = r)
    <3>1. Answering(n, r)' = Answering(n, r)
      BY <1>idle, <2>1, <2>3, <2>9 DEF Answering
    <3>2. Cardinality(Matching(tokens', LoginTokens(n, r))) = Cardinality(Matching(tokens, LoginTokens(n, r)))
      BY <1>count, <2>5, <2>6, <2>9
    <3> QED
      BY <2>2, <3>1, <3>2 DEF RecordInv, Covered
  <2> QED
    BY <2>8, <2>9
<1>4. ASSUME NEW g \in Requests, NEW h \in TokenIds, NEW b \in TokenIds, RefreshBegin(g, h, b)
      PROVE  RecordInv'
  <2> DEFINE x == [op |-> "refresh", body |-> b, recorded |-> FALSE]
  <2>1. x \in Request /\ Goto(g, x) /\ x.op # "answer" /\ req[g].op # "answer"
    BY <1>4 DEF RefreshBegin, Request, Idle
  <2> QED
    BY <1>0, <1>4, <2>1 DEF RefreshBegin
<1>5. ASSUME NEW g \in Requests, RefreshIssue(g) PROVE RecordInv'
  <2>1. req[g].body \in 1..Len(tokens) /\ tokens \in Seq(Token)
    BY <1>5 DEF RefreshIssue, TypeOK
  <2>2. PICK old \in Token : old = tokens[req[g].body]
    BY <2>1
  <2> DEFINE tok == [name |-> old.name, role |-> old.role, secret |-> old.secret, login |-> FALSE]
  <2>3. tok \in Token /\ tokens' = Append(tokens, tok) /\ entries' = entries
    BY <1>5, <2>2 DEF RefreshIssue, Issue, Token
  <2>4. \A n, r : tok \notin LoginTokens(n, r) /\ LoginTokens(n, r)' = LoginTokens(n, r)
    BY DEF LoginTokens
  <2> HIDE DEF tok
  <2>5. \A n \in Names, r \in Roles : Answering(n, r)' = Answering(n, r)
    BY <1>5, <1>idle, AnsweringKept DEF RefreshIssue
  <2>6. SUFFICES ASSUME NEW n \in Names, NEW r \in Roles PROVE Covered(n, r)'
    BY DEF RecordInv
  <2>7. Cardinality(Matching(tokens', LoginTokens(n, r))) = Cardinality(Matching(tokens, LoginTokens(n, r)))
    BY <1>count, <2>1, <2>3, <2>4, MatchingAppend
  <2> QED
    BY <2>3, <2>5, <2>7 DEF RecordInv, Covered
<1>6. ASSUME NEW g \in Requests, RefreshRefused(g) PROVE RecordInv'
  <2>1. RecordLogin("unknown", None, FALSE) /\ tokens' = tokens
    BY <1>6 DEF RefreshRefused
  <2>2. \A n \in Names, r \in Roles : Answering(n, r)' = Answering(n, r)
    BY <1>6, <1>idle, AnsweringKept DEF RefreshRefused
  <2>3. SUFFICES ASSUME NEW n \in Names, NEW r \in Roles PROVE Covered(n, r)'
    BY DEF RecordInv
  <2>4. Cardinality(Matching(entries', {SuccessOf(n, r)})) = Cardinality(Matching(entries, {SuccessOf(n, r)}))
    <3>1. "unknown" \in Names \cup {"unknown"} /\ None \in Roles \cup {None} /\ Covered(n, r)
      BY DEF RecordInv
    <3>2. Cardinality(Matching(entries', {SuccessOf(n, r)})) =
              Cardinality(Matching(entries, {SuccessOf(n, r)})) +
                  (IF "unknown" = n /\ None = r /\ FALSE = TRUE THEN 1 ELSE 0)
      BY <2>1, <3>1, RecordCovers
    <3> QED
      BY <1>count, <3>2
  <2> QED
    BY <2>1, <2>2, <2>4 DEF RecordInv, Covered
<1>7. ASSUME NEW g \in Requests, NEW t \in TokenIds, NEW r \in AdminRequest, AdminBegin(g, t, r)
      PROVE  RecordInv'
  <2>1. r \in Request /\ r.op # "answer"
    BY DEF AdminRequest, Request
  <2>2. req[g].op # "answer" /\ Goto(g, r) /\ UNCHANGED <<tokens, entries>>
    BY <1>7 DEF AdminBegin, Idle
  <2> QED
    BY <1>0, <2>1, <2>2
<1>8. ASSUME NEW g \in Requests, UserStep(g) PROVE RecordInv'
  <2>1. PICK x \in Request : Goto(g, x) /\ x.op # "answer"
    BY <1>8, <1>idle, UserStepShape
  <2>2. req[g].op # "answer" /\ UNCHANGED <<tokens, entries>>
    BY <1>8, UserStepShape DEF UserStep, Create, PatchPassword, PatchRole, Delete
  <2> QED
    BY <1>0, <2>1, <2>2
<1>9. CASE UNCHANGED <<tokens, entries, req>>
  BY <1>9 DEF RecordInv, Covered, Answering
<1> QED
  BY <1>1, <1>2, <1>3, <1>4, <1>5, <1>6, <1>7, <1>8, <1>9 DEF Next, Handler, UserStep, Expire, vars

\* No token that Login issued lacks its entry in the audit's history, for any number
\* of attempts at once: RecordLogin comes before the answer, in every goroutine.
THEOREM TokensOnRecordCorrect == Spec => []TokensOnRecord
<1>1. Init => RecordInv
  <2> SUFFICES ASSUME Init, NEW n \in Names, NEW r \in Roles PROVE Covered(n, r)
    BY DEF RecordInv
  <2>1. Answering(n, r) = {} /\ Matching(tokens, LoginTokens(n, r)) = {} /\ Matching(entries, {SuccessOf(n, r)}) = {}
    BY DEF Init, Answering, Matching, Idle
  <2> QED
    BY <2>1, FS_EmptySet DEF Covered
<1>2. TypeOK /\ RecordInv => TokensOnRecord
  <2> SUFFICES ASSUME TypeOK, RecordInv, NEW n \in Names, NEW r \in Roles
               PROVE  Cardinality({t \in 1..Len(tokens) :
                          tokens[t].login /\ tokens[t].name = n /\ tokens[t].role = r})
                      <= Cardinality({i \in 1..Len(entries) :
                             entries[i] = [name |-> n, role |-> r, ok |-> TRUE]})
    BY DEF TokensOnRecord
  <2>1. tokens \in Seq(Token) /\ \A t \in 1..Len(tokens) : tokens[t] \in Token
    BY DEF TypeOK
  <2>2. Matching(tokens, LoginTokens(n, r)) =
            {t \in 1..Len(tokens) : tokens[t].login /\ tokens[t].name = n /\ tokens[t].role = r}
    BY <2>1 DEF Matching, LoginTokens
  <2>3. Matching(entries, {SuccessOf(n, r)}) =
            {i \in 1..Len(entries) : entries[i] = [name |-> n, role |-> r, ok |-> TRUE]}
    BY DEF Matching, SuccessOf
  <2>4. Covered(n, r)
    BY DEF RecordInv
  <2>5. /\ Cardinality(Matching(tokens, LoginTokens(n, r))) \in Nat
        /\ Cardinality(Matching(entries, {SuccessOf(n, r)})) \in Nat
        /\ Cardinality(Answering(n, r)) \in Nat
    BY <2>4, MatchingFinite, FS_CardinalityType DEF TypeOK, Covered
  <2>6. Cardinality(Matching(tokens, LoginTokens(n, r))) <= Cardinality(Matching(entries, {SuccessOf(n, r)}))
    BY <2>4, <2>5 DEF Covered
  <2> QED
    BY <2>2, <2>3, <2>6
<1> QED
  BY <1>1, <1>2, TypeCorrect, RecordStep, PTL DEF Spec
-----------------------------------------------------------------------------
(* The last admin                                                           *)

LEMMA AdminsFinite == IsFiniteSet(Admins)
<1>1. Admins \subseteq Names
  BY DEF Admins, Present
<1> QED
  BY <1>1, NamesAssumption, FS_Subset

\* An admin whom LastAdmin does not protect is not the only one.
LEMMA AnotherAdmin ==
  ASSUME NEW n \in Admins, ~ LastAdmin(n)
  PROVE  \E a \in Admins : a # n
<1>1. users[n].role = "admin"
  BY DEF Admins
<1>2. Cardinality(Admins) \in Nat /\ Cardinality(Admins) > 1
  BY <1>1, AdminsFinite, FS_CardinalityType DEF LastAdmin
<1>3. SUFFICES ASSUME \A a \in Admins : a = n PROVE FALSE
  OBVIOUS
<1>4. Admins = {n}
  BY <1>3
<1>5. Cardinality({n}) = 1
  BY FS_Singleton
<1> QED
  BY <1>2, <1>4, <1>5

\* A step that changes users leaves an admin if there was one.
LEMMA AdminsStay ==
  ASSUME TypeOK, NEW g \in Requests, UserStep(g), Admins # {}
  PROVE  Admins' # {}
<1>1. CASE UNCHANGED userVars
  BY <1>1 DEF userVars, Admins, Present
<1>2. CASE ~ UNCHANGED userVars
  <2>1. PICK n \in Names, u \in User \cup {NoUser} :
           /\ SetUser(n, u)
           /\ \/ n \notin Present
              \/ u.role = users[n].role \/ u.role = "admin"
              \/ n \in Present /\ ~ LastAdmin(n)
    BY <1>2, UserStepShape
  <2>2. \A m \in Names : users'[m] = IF m = n THEN u ELSE users[m]
    BY <2>1, SetTyped
  <2>3. \A a \in Admins : a # n => a \in Admins'
    BY <2>2 DEF Admins, Present
  <2>4. u.role = "admin" => u # NoUser
    BY DEF NoUser, None
  <2>5. u.role = "admin" => n \in Admins'
    BY <2>2, <2>4 DEF Admins, Present
  <2>6. CASE n \notin Admins
    BY <2>3, <2>6
  <2>7. CASE n \in Admins
    <3>1. n \in Present /\ users[n].role = "admin"
      BY <2>7 DEF Admins
    <3>2. CASE u.role = "admin"
      BY <2>5, <3>2
    <3>3. CASE u.role # "admin"
      <4>1. ~ LastAdmin(n)
        BY <2>1, <3>1, <3>3
      <4> QED
        BY <2>3, <2>7, <4>1, AnotherAdmin
    <3> QED
      BY <3>2, <3>3
  <2> QED
    BY <2>6, <2>7
<1> QED
  BY <1>1, <1>2

\* A server whose configuration has an admin always has one, however many
\* deletions and demotions run at once.
THEOREM LastAdminStays == Spec => []AdminRemains
<1>1. Init => AdminRemains
  <2> SUFFICES ASSUME Init, NEW n \in Names, Seed[n].role = "admin" PROVE n \in Admins
    BY DEF AdminRemains
  <2>1. Seed[n] # NoUser
    BY DEF NoUser, None
  <2> QED
    BY <2>1 DEF Init, Admins, Present
<1>2. TypeOK /\ AdminRemains /\ [Next]_vars => AdminRemains'
  <2> SUFFICES ASSUME TypeOK, [Next]_vars, Admins # {} PROVE Admins' # {}
    BY DEF AdminRemains
  <2>1. ASSUME NEW g \in Requests, UserStep(g) PROVE Admins' # {}
    BY <2>1, AdminsStay
  <2>2. CASE users' = users
    BY <2>2 DEF Admins, Present
  <2> QED
    BY <2>1, <2>2 DEF Next, Handler, UserStep, vars, userVars, LoginVerify, LoginRecord, LoginAnswer,
                      RefreshBegin, RefreshIssue, RefreshRefused, AdminBegin, Expire
<1> QED
  BY <1>1, <1>2, TypeCorrect, PTL DEF Spec
-----------------------------------------------------------------------------
(* The login audit                                                          *)

\* One more entry, seen from the newest on.
LEMMA OneMore ==
  ASSUME NEW S, NEW a \in Seq(S), NEW e \in S, NEW max \in Nat \ {0}, Len(a) <= max,
         NEW kept, kept = IF Len(a) >= max THEN Tail(a) ELSE a
  PROVE  Reversed(Append(kept, e)) = IF Len(Reversed(a)) < max
                                     THEN <<e>> \o Reversed(a)
                                     ELSE <<e>> \o SubSeq(Reversed(a), 1, max - 1)
<1> DEFINE R == Reversed(a)
           older == IF Len(R) < max THEN R ELSE SubSeq(R, 1, max - 1)
           k == Len(kept)
           new == Append(kept, e)
<1>1. Len(a) \in Nat
  OBVIOUS
<1>2. R \in Seq(S) /\ Len(R) = Len(a) /\ \A i \in 1..Len(a) : R[i] = a[Len(a) + 1 - i]
  <2>1. \A i \in 1..Len(a) : Len(a) + 1 - i \in 1..Len(a)
    BY <1>1
  <2>2. \A i \in 1..Len(a) : a[Len(a) + 1 - i] \in S
    BY <2>1
  <2> QED
    BY <1>1, <2>2 DEF Reversed
<1>3. /\ kept \in Seq(S) /\ k \in Nat
      /\ older \in Seq(S) /\ Len(older) = k
      /\ \A i \in 1..k : older[i] = kept[k + 1 - i]
  <2>1. CASE Len(a) < max
    <3>1. kept = a /\ older = R
      BY <1>1, <1>2, <2>1
    <3> HIDE DEF R, older
    <3> QED
      BY <1>1, <1>2, <3>1
  <2>2. CASE ~ (Len(a) < max)
    <3>1. Len(a) = max /\ max - 1 \in Nat /\ a # <<>>
      BY <1>1, <2>2
    <3>2. kept = Tail(a) /\ older = SubSeq(R, 1, max - 1)
      BY <1>1, <1>2, <3>1
    <3>3. kept \in Seq(S) /\ Len(kept) = max - 1 /\ \A i \in 1..(max - 1) : kept[i] = a[i + 1]
      BY <3>1, <3>2
    <3> HIDE DEF R
    <3>4. SubSeq(R, 1, max - 1) \in Seq(S) /\ Len(SubSeq(R, 1, max - 1)) = max - 1
          /\ \A i \in 1..(max - 1) : SubSeq(R, 1, max - 1)[i] = R[i]
      BY <1>2, <3>1
    <3> HIDE DEF older
    <3>5. ASSUME NEW i \in 1..(max - 1) PROVE older[i] = kept[max - i]
      <4>1. max - i \in 1..(max - 1) /\ i \in 1..Len(a)
        BY <3>1
      <4> QED
        BY <1>2, <3>1, <3>2, <3>3, <3>4, <4>1
    <3> QED
      BY <3>1, <3>2, <3>3, <3>4, <3>5
  <2> QED
    BY <2>1, <2>2
<1> HIDE DEF older
<1>4. new \in Seq(S) /\ Len(new) = k + 1 /\ new[k + 1] = e /\ \A i \in 1..k : new[i] = kept[i]
  BY <1>3
<1> DEFINE L == <<e>> \o older
<1>5. L \in Seq(S) /\ Len(L) = k + 1 /\ L[1] = e /\ \A i \in 2..(k + 1) : L[i] = older[i - 1]
  BY <1>3
<1> HIDE DEF L, new, k
<1>6. ASSUME NEW i \in 1..(k + 1) PROVE L[i] = new[k + 2 - i]
  <2>1. CASE i = 1
    BY <1>3, <1>4, <1>5, <2>1
  <2>2. CASE i # 1
    <3>1. i - 1 \in 1..k /\ i \in 2..(k + 1) /\ k + 2 - i \in 1..k /\ k + 1 - (i - 1) = k + 2 - i
      BY <1>3, <2>2
    <3>2. L[i] = older[i - 1]
      BY <1>5, <3>1
    <3>3. older[i - 1] = kept[k + 2 - i]
      BY <1>3, <3>1
    <3>4. new[k + 2 - i] = kept[k + 2 - i]
      BY <1>4, <3>1
    <3> QED
      BY <3>2, <3>3, <3>4
  <2> QED
    BY <2>1, <2>2
<1>7. L = [i \in 1..(k + 1) |-> L[i]]
  BY <1>3, <1>5
<1>8. Reversed(new) = [i \in 1..(k + 1) |-> new[k + 2 - i]]
  <2>1. \A i \in 1..(k + 1) : Len(new) + 1 - i = k + 2 - i
    BY <1>3, <1>4
  <2> QED
    BY <1>4, <2>1 DEF Reversed
<1>9. Reversed(new) = L
  BY <1>6, <1>7, <1>8
<1> QED
  BY <1>9 DEF L, new, older

\* The login audit is a log of the newest entries: the abstract specification that
\* the ring of events implements, implemented once more.
THEOREM AuditIsLog == Spec => AuditSpec
<1>1. Init => AuditLog!Init
  BY DEF Init, AuditLog!Init, Reversed
<1>2. TypeOK /\ [Next]_vars => [AuditLog!Next]_(Reversed(loginAudit))
  <2> SUFFICES ASSUME TypeOK, [Next]_vars
               PROVE  AuditLog!Next \/ Reversed(loginAudit)' = Reversed(loginAudit)
    OBVIOUS
  <2>1. ASSUME NEW n \in Names \cup {"unknown"}, NEW r \in Roles \cup {None}, NEW ok \in BOOLEAN,
               RecordLogin(n, r, ok)
        PROVE  AuditLog!Next
    <3> DEFINE e == [name |-> n, role |-> r, ok |-> ok]
               kept == IF Len(loginAudit) >= AuditMax THEN Tail(loginAudit) ELSE loginAudit
    <3>1. e \in Entry
      BY DEF Entry
    <3>2. loginAudit' = Append(kept, e)
      BY <2>1 DEF RecordLogin
    <3>3. loginAudit \in Seq(Entry) /\ Len(loginAudit) <= AuditMax
      BY DEF TypeOK
    <3> HIDE DEF e
    <3>4. Reversed(Append(kept, e)) = IF Len(Reversed(loginAudit)) < AuditMax
                                      THEN <<e>> \o Reversed(loginAudit)
                                      ELSE <<e>> \o SubSeq(Reversed(loginAudit), 1, AuditMax - 1)
      BY <3>1, <3>3, OneMore, BoundsAssumption, ZenonT(60)
    <3>5. Reversed(loginAudit)' = Reversed(Append(kept, e))
      BY <3>2 DEF Reversed
    <3> QED
      BY <3>1, <3>4, <3>5 DEF AuditLog!Next, AuditLog!Remember
  <2>2. ASSUME NEW g \in Requests, LoginRecord(g) PROVE AuditLog!Next
    <3>1. req[g] \in [op : {"record"}, name : Names, secret : Secrets, role : Roles \cup {None}, recorded : BOOLEAN]
      BY <2>2 DEF LoginRecord, TypeOK, Request, Idle
    <3>2. req[g].name \in Names \cup {"unknown"} /\ req[g].role \in Roles \cup {None}
          /\ (req[g].role # None) \in BOOLEAN
      BY <3>1
    <3> QED
      BY <2>1, <2>2, <3>2 DEF LoginRecord
  <2>3. ASSUME NEW g \in Requests, RefreshRefused(g) PROVE AuditLog!Next
    BY <2>1, <2>3 DEF RefreshRefused
  <2>4. CASE loginAudit' = loginAudit
    BY <2>4 DEF Reversed
  <2> QED
    BY <2>2, <2>3, <2>4 DEF Next, Handler, vars, auditVars, tokenVars, LoginVerify, LoginAnswer, RefreshBegin,
        RefreshIssue, AdminBegin, Create, PatchPassword, PatchRole, Delete, Expire
<1> QED
  BY <1>1, <1>2, TypeCorrect, PTL DEF Spec, AuditSpec, AuditLog!Spec
===============================================================================
