------------------------------ MODULE Accounts ------------------------------
(***************************************************************************)
(* The users table: AuthService.register, UsersService.updateRole (PATCH   *)
(* /admin/users/:id/role) and updateWebhookUrl (POST /webhooks/register).  *)
(*                                                                         *)
(* A request is a process and every query is a step.  The repository's     *)
(* save() of a loaded user is two of them: a SELECT that is compared with  *)
(* the object, column by column, and an UPDATE of the columns that differ. *)
(* What findById() loaded takes part in that comparison, the columns the   *)
(* handler did not touch included.                                         *)
(***************************************************************************)
EXTENDS Naturals, FiniteSets

CONSTANTS
  Requests,  \* requests that may be in flight together
  Ids,       \* bound: users that ever exist
  Emails,    \* addresses that people register with
  Urls,      \* webhook URLs that are registered
  Ordered,   \* bound: the roles admins assign
  First,     \* the users there are at first: a function from ids to rows
  None,      \* no user, no URL
  MayFail    \* a query may fail, or the instance stop, under a request

Roles == {"super_admin", "employer", "recruiter", "applicant"}

UserRows == [email : Emails, role : Roles, webhookUrl : Urls \cup {None}]

ASSUME OrderedAssumption == Ordered \subseteq Roles
ASSUME NoneAssumption == None \notin Ids \cup Urls
ASSUME FirstAssumption ==
  /\ DOMAIN First \subseteq Ids
  /\ First \in [DOMAIN First -> UserRows]
  /\ \A u, v \in DOMAIN First : First[u].email = First[v].email => u = v
  /\ \E u \in DOMAIN First : First[u].role = "super_admin"
ASSUME MayFailAssumption == MayFail \in BOOLEAN

VARIABLES
  users,  \* the users table, by id
  req,    \* the requests in flight
  given   \* history: the roles each user was given, at first or by an order

vars == <<users, req, given>>

Stages == {"idle", "findEmail", "insert", "guard", "find", "count", "select",
           "update"}
Ops == {"none", "register", "role", "webhook"}
Codes == {"none", "ok", "EMAIL_TAKEN", "FORBIDDEN", "CANNOT_CHANGE_OWN_ROLE",
          "LAST_ADMIN", "INTERNAL_ERROR"}

\* What a request carries: who sends it, whose row it is about, what it
\* asks for, the row it read with the change made, and what differed.
Idle(code) ==
  [pc |-> "idle", op |-> "none", by |-> None, target |-> None,
   email |-> None, role |-> "applicant", url |-> None, row |-> None,
   cols |-> {}, reply |-> code]

Reply(r, code) == req' = [req EXCEPT ![r] = Idle(code)]
Goto(r, stage) == req' = [req EXCEPT ![r].pc = stage]

Admins == {u \in DOMAIN users : users[u].role = "super_admin"}
Owners(e) == {u \in DOMAIN users : users[u].email = e}

Init ==
  /\ users = First
  /\ req = [r \in Requests |-> Idle("none")]
  /\ given = [u \in Ids |-> IF u \in DOMAIN First THEN {First[u].role} ELSE {}]

-----------------------------------------------------------------------------
\* register() of an address.
Register(r, e) ==
  /\ req[r].pc = "idle"
  /\ req' = [req EXCEPT ![r] = [Idle("none") EXCEPT
               !.pc = "findEmail", !.op = "register", !.email = e]]
  /\ UNCHANGED <<users, given>>

\* findByEmail(); then the password is hashed.
FindEmail(r) ==
  /\ req[r].pc = "findEmail"
  /\ IF Owners(req[r].email) # {} THEN Reply(r, "EMAIL_TAKEN")
     ELSE Goto(r, "insert")
  /\ UNCHANGED <<users, given>>

\* Mutant of Insert: the column is not UNIQUE.
InsertAnyway(r) ==
  /\ req[r].pc = "insert"
  /\ \E u \in Ids \ DOMAIN users :
       /\ users' = [v \in DOMAIN users \cup {u} |->
                      IF v = u THEN [email |-> req[r].email,
                                     role |-> "applicant",
                                     webhookUrl |-> None]
                      ELSE users[v]]
       /\ given' = [given EXCEPT ![u] = {"applicant"}]
  /\ Reply(r, "ok")

\* INSERT of the user, an applicant.  The UNIQUE constraint on the address
\* fails with an error that no one maps: HttpExceptionFilter answers 500.
Insert(r) ==
  /\ req[r].pc = "insert"
  /\ \/ /\ Owners(req[r].email) = {}
        /\ \E u \in Ids \ DOMAIN users :
             /\ users' = [v \in DOMAIN users \cup {u} |->
                            IF v = u THEN [email |-> req[r].email,
                                           role |-> "applicant",
                                           webhookUrl |-> None]
                            ELSE users[v]]
             /\ given' = [given EXCEPT ![u] = {"applicant"}]
        /\ Reply(r, "ok")
     \/ /\ Owners(req[r].email) # {}
        /\ Reply(r, "INTERNAL_ERROR")
        /\ UNCHANGED <<users, given>>

-----------------------------------------------------------------------------
\* An admin's order to give a user a role.
UpdateRole(r, by, target, role) ==
  /\ req[r].pc = "idle"
  /\ req' = [req EXCEPT ![r] = [Idle("none") EXCEPT
               !.pc = "guard", !.op = "role", !.by = by, !.target = target,
               !.role = role]]
  /\ UNCHANGED <<users, given>>

\* A user registers a webhook URL of their own.
UpdateWebhookUrl(r, by, url) ==
  /\ req[r].pc = "idle"
  /\ req' = [req EXCEPT ![r] = [Idle("none") EXCEPT
               !.pc = "guard", !.op = "webhook", !.by = by, !.target = by,
               !.url = url]]
  /\ UNCHANGED <<users, given>>

\* @Roles of the two routes.
Allowed(op) == IF op = "role" THEN {"super_admin"}
               ELSE {"employer", "super_admin"}

\* JwtStrategy loads the sender, and RolesGuard looks at the role loaded.
Guard(r) ==
  /\ req[r].pc = "guard"
  /\ IF users[req[r].by].role \in Allowed(req[r].op) THEN Goto(r, "find")
     ELSE Reply(r, "FORBIDDEN")
  /\ UNCHANGED <<users, given>>

\* The row with the change of the request made.
Changed(r, row) ==
  IF req[r].op = "role" THEN [row EXCEPT !.role = req[r].role]
  ELSE [row EXCEPT !.webhookUrl = req[r].url]

\* Mutant of Find: admins may change their own role.
FindAnyone(r) ==
  LET row == users[req[r].target]
      demotes == /\ req[r].op = "role"
                 /\ row.role = "super_admin" /\ req[r].role # "super_admin" IN
  /\ req[r].pc = "find"
  /\ req' = [req EXCEPT ![r].pc = IF demotes THEN "count" ELSE "select",
                        ![r].row = Changed(r, row)]
  /\ UNCHANGED <<users, given>>

\* findById() of the row, which exists: users are never deleted, so that
\* USER_NOT_FOUND is for ids nobody ever had.  Nobody changes their own role,
\* and the admins are counted before one of them is demoted.
Find(r) ==
  LET row == users[req[r].target]
      demotes == /\ req[r].op = "role"
                 /\ row.role = "super_admin" /\ req[r].role # "super_admin" IN
  /\ req[r].pc = "find"
  /\ IF req[r].op = "role" /\ req[r].target = req[r].by
     THEN Reply(r, "CANNOT_CHANGE_OWN_ROLE")
     ELSE req' = [req EXCEPT ![r].pc = IF demotes THEN "count" ELSE "select",
                             ![r].row = Changed(r, row)]
  /\ UNCHANGED <<users, given>>

\* SELECT COUNT of the admins.
Count(r) ==
  /\ req[r].pc = "count"
  /\ IF Cardinality(Admins) <= 1 THEN Reply(r, "LAST_ADMIN")
     ELSE Goto(r, "select")
  /\ UNCHANGED <<users, given>>

\* save(): its SELECT.  Nothing is written when nothing differs.
Select(r) ==
  LET row == users[req[r].target]
      cols == {c \in DOMAIN row : row[c] # req[r].row[c]} IN
  /\ req[r].pc = "select"
  /\ IF cols = {} THEN Reply(r, "ok")
     ELSE req' = [req EXCEPT ![r].pc = "update", ![r].cols = cols]
  /\ UNCHANGED <<users, given>>

\* Mutant of Update: the change of role is made to the sender's row.
UpdateSender(r) ==
  /\ req[r].pc = "update"
  /\ users' = [users EXCEPT ![req[r].by] =
                 [c \in DOMAIN @ |-> IF c \in req[r].cols THEN req[r].row[c]
                                     ELSE @[c]]]
  /\ given' = IF req[r].op = "role"
              THEN [given EXCEPT ![req[r].target] = @ \cup {req[r].role}]
              ELSE given
  /\ Reply(r, "ok")

\* Its UPDATE of the columns that differed.
Update(r) ==
  /\ req[r].pc = "update"
  /\ users' = [users EXCEPT ![req[r].target] =
                 [c \in DOMAIN @ |-> IF c \in req[r].cols THEN req[r].row[c]
                                     ELSE @[c]]]
  /\ given' = IF req[r].op = "role"
              THEN [given EXCEPT ![req[r].target] = @ \cup {req[r].role}]
              ELSE given
  /\ Reply(r, "ok")

-----------------------------------------------------------------------------
\* A query of a request fails, or its instance stops.
Abort(r) ==
  /\ MayFail
  /\ req[r].pc # "idle"
  /\ Reply(r, "INTERNAL_ERROR")
  /\ UNCHANGED <<users, given>>

\* Bound: an id is left for every registration under way.
Room == Cardinality({r \in Requests : req[r].op = "register"})
          < Cardinality(Ids \ DOMAIN users)

Call(r) ==
  \/ \E e \in Emails : Room /\ Register(r, e)
  \/ \E by, target \in DOMAIN users, role \in Ordered :
       UpdateRole(r, by, target, role)
  \/ \E by \in DOMAIN users, url \in Urls : UpdateWebhookUrl(r, by, url)

Step(r) ==
  \/ FindEmail(r) \/ Insert(r)
  \/ Guard(r) \/ Find(r) \/ Count(r) \/ Select(r) \/ Update(r)

Next == \E r \in Requests : Call(r) \/ Step(r) \/ Abort(r)

Spec == Init /\ [][Next]_vars

-----------------------------------------------------------------------------
RequestStates ==
  [pc : Stages, op : Ops, by : Ids \cup {None}, target : Ids \cup {None},
   email : Emails \cup {None}, role : Roles, url : Urls \cup {None},
   row : UserRows \cup {None},
   cols : SUBSET {"email", "role", "webhookUrl"}, reply : Codes]

\* What a request holds at each of its stages; the address of a user is
\* never among the columns a save() writes.
RequestOK(r) ==
  /\ req[r].pc \in {"findEmail", "insert"} =>
       req[r].op = "register" /\ req[r].email \in Emails
  /\ req[r].pc \in {"guard", "find", "count", "select", "update"} =>
       /\ req[r].op \in {"role", "webhook"}
       /\ req[r].by \in DOMAIN users /\ req[r].target \in DOMAIN users
  /\ req[r].pc \in {"count", "select", "update"} =>
       /\ req[r].row \in UserRows
       /\ req[r].row.email = users[req[r].target].email
       /\ req[r].op = "role" => req[r].target # req[r].by
  /\ req[r].pc = "update" => "email" \notin req[r].cols

\* Every variable has its type.
TypeOK ==
  /\ DOMAIN users \subseteq Ids
  /\ users \in [DOMAIN users -> UserRows]
  /\ req \in [Requests -> RequestStates]
  /\ given \in [Ids -> SUBSET Roles]
  /\ \A r \in Requests : RequestOK(r)

\* However registrations and updates of rows interleave, an address belongs
\* to one user.
UniqueEmails ==
  \A u, v \in DOMAIN users : users[u].email = users[v].email => u = v

\* A save() may write back a role that was read before another one was
\* assigned; but the role of a user is always one that they were given, never
\* one that belongs to the sender or to another order.
RolesGiven == \A u \in DOMAIN users : users[u].role \in given[u]

\* users.service.ts:86, "Cannot demote the last super_admin": there is an
\* admin at all times.
AdminKept == Admins # {}
=============================================================================
