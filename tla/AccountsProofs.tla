---------------------------- MODULE AccountsProofs ----------------------------
(***************************************************************************)
(* Proofs about Accounts, for any requests, ids, addresses, URLs, orders   *)
(* and users at first, whether queries may fail or not.                    *)
(***************************************************************************)
EXTENDS Accounts, TLAPS

-----------------------------------------------------------------------------
\* Rows, and what an UPDATE of some columns makes of one.

UserColumns == {"email", "role", "webhookUrl"}

Overwritten(old, new, cols) ==
  [c \in DOMAIN old |-> IF c \in cols THEN new[c] ELSE old[c]]

LEMMA UserRowParts ==
  ASSUME NEW row \in UserRows
  PROVE  /\ DOMAIN row = UserColumns
         /\ row.email \in Emails /\ row.role \in Roles
         /\ row.webhookUrl \in Urls \cup {None}
BY DEF UserRows, UserColumns

LEMMA OverwrittenRow ==
  ASSUME NEW old \in UserRows, NEW new \in UserRows, NEW cols,
         "email" \notin cols
  PROVE  /\ Overwritten(old, new, cols) \in UserRows
         /\ Overwritten(old, new, cols).email = old.email
         /\ Overwritten(old, new, cols).role =
              IF "role" \in cols THEN new.role ELSE old.role
<1> DEFINE w == Overwritten(old, new, cols)
<1>1. w = [c \in UserColumns |-> IF c \in cols THEN new[c] ELSE old[c]]
  BY UserRowParts DEF Overwritten
<1>2. w = [email |-> w.email, role |-> w.role, webhookUrl |-> w.webhookUrl]
  BY <1>1 DEF UserColumns
<1>3. /\ w.email = old.email
      /\ w.role = IF "role" \in cols THEN new.role ELSE old.role
      /\ w.webhookUrl =
           IF "webhookUrl" \in cols THEN new.webhookUrl ELSE old.webhookUrl
  BY <1>1 DEF UserColumns
<1>4. /\ w.email \in Emails /\ w.role \in Roles
      /\ w.webhookUrl \in Urls \cup {None}
  BY <1>3, UserRowParts
<1> HIDE DEF w
<1>5. w \in UserRows
  BY <1>2, <1>4 DEF UserRows
<1>6. QED
  BY <1>3, <1>5 DEF w

LEMMA ChangedRow ==
  ASSUME NEW r, NEW row \in UserRows,
         req[r].role \in Roles, req[r].url \in Urls \cup {None}
  PROVE  /\ Changed(r, row) \in UserRows
         /\ Changed(r, row).email = row.email
         /\ Changed(r, row).role =
              IF req[r].op = "role" THEN req[r].role ELSE row.role
BY DEF Changed, UserRows

-----------------------------------------------------------------------------
\* The requests after a step of one of them.

\* The types of the variables, without what the stages of a request imply.
Shape ==
  /\ DOMAIN users \subseteq Ids
  /\ users \in [DOMAIN users -> UserRows]
  /\ req \in [Requests -> RequestStates]
  /\ given \in [Ids -> SUBSET Roles]

LEMMA IdleState ==
  ASSUME NEW code \in Codes
  PROVE  /\ Idle(code) \in RequestStates
         /\ Idle(code).pc = "idle"
BY DEF Idle, RequestStates, Stages, Ops, Roles

LEMMA ReplyState ==
  ASSUME Shape, NEW r \in Requests, NEW code \in Codes, Reply(r, code)
  PROVE  /\ req' \in [Requests -> RequestStates]
         /\ req'[r].pc = "idle"
         /\ \A q \in Requests \ {r} : req'[q] = req[q]
BY IdleState DEF Reply, Shape

LEMMA GotoState ==
  ASSUME Shape, NEW r \in Requests, NEW stage \in Stages, Goto(r, stage)
  PROVE  /\ req' \in [Requests -> RequestStates]
         /\ req'[r].pc = stage /\ req'[r].op = req[r].op
         /\ req'[r].by = req[r].by /\ req'[r].target = req[r].target
         /\ req'[r].email = req[r].email /\ req'[r].role = req[r].role
         /\ req'[r].row = req[r].row /\ req'[r].cols = req[r].cols
         /\ \A q \in Requests \ {r} : req'[q] = req[q]
BY DEF Goto, Shape, RequestStates

-----------------------------------------------------------------------------
(***************************************************************************)
(* The inductive invariant.  Beside the types it says where the role in a  *)
(* row about to be written comes from: the order, or the roles its user    *)
(* was given before, as an UPDATE may write back a role read long ago.     *)
(***************************************************************************)
HoldsRow(r) == req[r].pc \in {"count", "select", "update"}

RowGiven(r) ==
  HoldsRow(r) =>
    /\ req[r].op = "role" => req[r].row.role = req[r].role
    /\ req[r].op = "webhook" => req[r].row.role \in given[req[r].target]

RowsGiven == \A r \in Requests : RowGiven(r)

IInv == TypeOK /\ UniqueEmails /\ RolesGiven /\ RowsGiven

\* The stages and what they hold, of the request that takes the step.
LEMMA OwnRequest ==
  ASSUME IInv, NEW r \in Requests
  PROVE  /\ Shape /\ req[r] \in RequestStates /\ RequestOK(r) /\ RowGiven(r)
         /\ req[r].role \in Roles /\ req[r].url \in Urls \cup {None}
BY DEF IInv, TypeOK, RowsGiven, Shape, RequestStates

\* A step that keeps the addresses of users and takes no role from what they
\* were given leaves the other requests as they should be.
LEMMA OthersKeep ==
  ASSUME IInv, NEW r \in Requests, NEW q \in Requests \ {r}, req'[q] = req[q],
         DOMAIN users \subseteq DOMAIN users',
         \A u \in DOMAIN users : /\ users'[u].email = users[u].email
                                 /\ given[u] \subseteq given'[u]
  PROVE  RequestOK(q)' /\ RowGiven(q)'
<1>1. RequestOK(q) /\ RowGiven(q)
  BY OwnRequest
<1>2. RequestOK(q)'
  BY <1>1 DEF RequestOK
<1>3. HoldsRow(q) => req[q].target \in DOMAIN users
  BY <1>1 DEF RequestOK, HoldsRow
<1>4. QED
  BY <1>1, <1>2, <1>3 DEF RowGiven, HoldsRow

\* A step of r keeps the invariant when it leaves the tables alone and the
\* request as it should be.
LEMMA Quiet ==
  ASSUME IInv, NEW r \in Requests, UNCHANGED <<users, given>>,
         req' \in [Requests -> RequestStates],
         \A q \in Requests \ {r} : req'[q] = req[q],
         RequestOK(r)', RowGiven(r)'
  PROVE  IInv'
<1>1. \A q \in Requests : RequestOK(q)' /\ RowGiven(q)'
  BY OthersKeep
<1>2. QED
  BY <1>1 DEF IInv, TypeOK, UniqueEmails, RolesGiven, RowsGiven

LEMMA Answered ==
  ASSUME IInv, NEW r \in Requests, NEW code \in Codes, Reply(r, code),
         UNCHANGED <<users, given>>
  PROVE  IInv'
<1>1. /\ req' \in [Requests -> RequestStates]
      /\ req'[r].pc = "idle"
      /\ \A q \in Requests \ {r} : req'[q] = req[q]
  BY ReplyState, OwnRequest
<1>2. RequestOK(r)' /\ RowGiven(r)'
  BY <1>1 DEF RequestOK, RowGiven, HoldsRow
<1>3. QED
  BY <1>1, <1>2, Quiet

\* A new user is an applicant, with an address nobody has.
LEMMA InsertKeeps ==
  ASSUME IInv, NEW r \in Requests, Insert(r)
  PROVE  IInv'
<1> USE OwnRequest
<1>1. CASE Reply(r, "INTERNAL_ERROR") /\ UNCHANGED <<users, given>>
  BY <1>1, Answered DEF Codes
<1>2. CASE Owners(req[r].email) = {} /\ Reply(r, "ok")
  <2> DEFINE row == [email |-> req[r].email, role |-> "applicant",
                     webhookUrl |-> None]
  <2>1. PICK u \in Ids \ DOMAIN users :
          /\ users' = [v \in DOMAIN users \cup {u} |->
                         IF v = u THEN row ELSE users[v]]
          /\ given' = [given EXCEPT ![u] = {"applicant"}]
    BY <1>2 DEF Insert
  <2>2. row \in UserRows
    BY DEF Insert, RequestOK, UserRows, Roles
  <2>3. /\ DOMAIN users' = DOMAIN users \cup {u}
        /\ users' \in [DOMAIN users' -> UserRows] /\ users'[u] = row
        /\ \A v \in DOMAIN users : users'[v] = users[v]
    BY <2>1, <2>2 DEF Shape
  <2>4. /\ given' \in [Ids -> SUBSET Roles] /\ given'[u] = {"applicant"}
        /\ \A v \in DOMAIN users : given'[v] = given[v]
    BY <2>1 DEF Shape, Roles
  <2>5. /\ req' \in [Requests -> RequestStates] /\ req'[r].pc = "idle"
        /\ \A q \in Requests \ {r} : req'[q] = req[q]
    BY <1>2, ReplyState DEF Codes
  <2>6. RequestOK(r)' /\ RowGiven(r)'
    BY <2>5 DEF RequestOK, RowGiven, HoldsRow
  <2>7. \A q \in Requests : RequestOK(q)' /\ RowGiven(q)'
    BY <2>3, <2>4, <2>5, <2>6, OthersKeep
  <2>8. TypeOK' /\ RowsGiven'
    BY <2>3, <2>4, <2>5, <2>7 DEF TypeOK, RowsGiven, Shape
  <2>9. UniqueEmails'
    BY <1>2, <2>3 DEF IInv, UniqueEmails, Owners
  <2>10. RolesGiven'
    BY <2>3, <2>4 DEF IInv, RolesGiven
  <2>11. QED
    BY <2>8, <2>9, <2>10 DEF IInv
<1>3. QED
  BY <1>1, <1>2 DEF Insert

\* An UPDATE writes no address, and a role only that was given.
LEMMA UpdateKeeps ==
  ASSUME IInv, NEW r \in Requests, Update(r)
  PROVE  IInv'
<1> USE OwnRequest
<1> DEFINE u == req[r].target
           row == Overwritten(users[u], req[r].row, req[r].cols)
<1>1. /\ u \in DOMAIN users /\ u \in Ids /\ users[u] \in UserRows
      /\ req[r].row \in UserRows /\ req[r].op \in {"role", "webhook"}
      /\ "email" \notin req[r].cols
      /\ HoldsRow(r)
  BY DEF Update, RequestOK, Shape, HoldsRow
<1>2. /\ row \in UserRows /\ row.email = users[u].email
      /\ row.role = IF "role" \in req[r].cols THEN req[r].row.role
                    ELSE users[u].role
  BY <1>1, OverwrittenRow
<1>3. users' = [users EXCEPT ![u] = row]
  BY <1>1 DEF Update, Overwritten
<1> HIDE DEF row
<1>4. /\ DOMAIN users' = DOMAIN users
      /\ users' \in [DOMAIN users -> UserRows] /\ users'[u] = row
      /\ \A v \in DOMAIN users \ {u} : users'[v] = users[v]
  BY <1>1, <1>2, <1>3 DEF Shape
<1>5. /\ given' \in [Ids -> SUBSET Roles]
      /\ \A v \in Ids : given[v] \subseteq given'[v]
      /\ req[r].op = "role" => req[r].role \in given'[u]
  BY <1>1 DEF Update, Shape
<1>6. /\ req' \in [Requests -> RequestStates] /\ req'[r].pc = "idle"
      /\ \A q \in Requests \ {r} : req'[q] = req[q]
  BY ReplyState DEF Codes, Update
<1>7. RequestOK(r)' /\ RowGiven(r)'
  BY <1>6 DEF RequestOK, RowGiven, HoldsRow
<1>8. \A v \in DOMAIN users : /\ users'[v].email = users[v].email
                              /\ given[v] \subseteq given'[v]
  BY <1>2, <1>4, <1>5 DEF Shape
<1>9. \A q \in Requests : RequestOK(q)' /\ RowGiven(q)'
  BY <1>4, <1>6, <1>7, <1>8, OthersKeep
<1>10. TypeOK' /\ RowsGiven'
  BY <1>4, <1>5, <1>6, <1>9 DEF TypeOK, RowsGiven, Shape
<1>11. UniqueEmails'
  BY <1>4, <1>8 DEF IInv, UniqueEmails
<1>12. RolesGiven'
  <2>1. users[u].role \in given[u]
    BY <1>1 DEF IInv, RolesGiven
  <2>2. row.role \in given'[u]
    BY <1>1, <1>2, <1>5, <2>1 DEF RowGiven
  <2>3. QED
    BY <1>4, <1>8, <2>2 DEF IInv, RolesGiven
<1>13. QED
  BY <1>10, <1>11, <1>12 DEF IInv

\* The calls that begin a request.
LEMMA CallKeeps ==
  ASSUME IInv, NEW r \in Requests, Call(r)
  PROVE  IInv'
<1> USE OwnRequest
<1>1. ASSUME NEW e \in Emails, Register(r, e)
      PROVE  IInv'
  <2> DEFINE next == [Idle("none") EXCEPT
                        !.pc = "findEmail", !.op = "register", !.email = e]
  <2>1. /\ next \in RequestStates /\ next.pc = "findEmail"
        /\ next.op = "register" /\ next.email = e
    BY DEF Idle, RequestStates, Stages, Ops, Roles, Codes
  <2>2. req' = [req EXCEPT ![r] = next] /\ UNCHANGED <<users, given>>
    BY <1>1 DEF Register
  <2> HIDE DEF next
  <2>3. /\ req' \in [Requests -> RequestStates] /\ req'[r] = next
        /\ \A q \in Requests \ {r} : req'[q] = req[q]
    BY <2>1, <2>2 DEF Shape
  <2>4. RequestOK(r)' /\ RowGiven(r)'
    BY <2>1, <2>3 DEF RequestOK, RowGiven, HoldsRow
  <2>5. QED
    BY <2>2, <2>3, <2>4, Quiet
<1>2. ASSUME NEW next \in RequestStates,
             next.pc = "guard", next.op \in {"role", "webhook"},
             next.by \in DOMAIN users, next.target \in DOMAIN users,
             req' = [req EXCEPT ![r] = next], UNCHANGED <<users, given>>
      PROVE  IInv'
  <2>1. /\ req' \in [Requests -> RequestStates] /\ req'[r] = next
        /\ \A q \in Requests \ {r} : req'[q] = req[q]
    BY <1>2 DEF Shape
  <2>2. RequestOK(r)' /\ RowGiven(r)'
    BY <1>2, <2>1 DEF RequestOK, RowGiven, HoldsRow
  <2>3. QED
    BY <1>2, <2>1, <2>2, Quiet
<1>3. ASSUME NEW by \in DOMAIN users, NEW target \in DOMAIN users,
             NEW role \in Ordered, UpdateRole(r, by, target, role)
      PROVE  IInv'
  <2> DEFINE next == [Idle("none") EXCEPT
                        !.pc = "guard", !.op = "role", !.by = by,
                        !.target = target, !.role = role]
  <2>1. by \in Ids /\ target \in Ids /\ role \in Roles
    BY OrderedAssumption DEF Shape
  <2>2. /\ next \in RequestStates /\ next.pc = "guard" /\ next.op = "role"
        /\ next.by = by /\ next.target = target
    BY <2>1 DEF Idle, RequestStates, Stages, Ops, Codes
  <2>3. req' = [req EXCEPT ![r] = next] /\ UNCHANGED <<users, given>>
    BY <1>3 DEF UpdateRole
  <2> HIDE DEF next
  <2>4. QED
    BY <1>2, <2>2, <2>3
<1>4. ASSUME NEW by \in DOMAIN users, NEW url \in Urls,
             UpdateWebhookUrl(r, by, url)
      PROVE  IInv'
  <2> DEFINE next == [Idle("none") EXCEPT
                        !.pc = "guard", !.op = "webhook", !.by = by,
                        !.target = by, !.url = url]
  <2>1. by \in Ids
    BY DEF Shape
  <2>2. /\ next \in RequestStates /\ next.pc = "guard" /\ next.op = "webhook"
        /\ next.by = by /\ next.target = by
    BY <2>1 DEF Idle, RequestStates, Stages, Ops, Codes, Roles
  <2>3. req' = [req EXCEPT ![r] = next] /\ UNCHANGED <<users, given>>
    BY <1>4 DEF UpdateWebhookUrl
  <2> HIDE DEF next
  <2>4. QED
    BY <1>2, <2>2, <2>3
<1>5. QED
  BY <1>1, <1>3, <1>4 DEF Call

\* The queries of a request that only read.
LEMMA ReadKeeps ==
  ASSUME IInv, NEW r \in Requests,
         \/ FindEmail(r) \/ Guard(r) \/ Find(r) \/ Count(r) \/ Select(r)
         \/ Abort(r)
  PROVE  IInv'
<1> USE OwnRequest
<1>0. UNCHANGED <<users, given>>
  BY DEF FindEmail, Guard, Find, Count, Select, Abort
<1>1. ASSUME NEW code \in Codes, Reply(r, code)
      PROVE  IInv'
  BY <1>0, <1>1, Answered
<1>2. ASSUME NEW stage \in Stages, Goto(r, stage),
             \/ stage = "insert" /\ req[r].pc = "findEmail"
             \/ stage = "find" /\ req[r].pc = "guard"
             \/ stage = "select" /\ req[r].pc = "count"
      PROVE  IInv'
  <2>1. RequestOK(r)' /\ RowGiven(r)'
    BY <1>0, <1>2, GotoState DEF RequestOK, RowGiven, HoldsRow
  <2>2. QED
    BY <1>0, <1>2, <2>1, GotoState, Quiet
<1>3. CASE FindEmail(r) \/ Guard(r) \/ Count(r) \/ Abort(r)
  <2>1. {"insert", "find", "select"} \subseteq Stages
    BY DEF Stages
  <2>2. {"EMAIL_TAKEN", "FORBIDDEN", "LAST_ADMIN", "INTERNAL_ERROR"}
           \subseteq Codes
    BY DEF Codes
  <2>3. QED
    BY <1>1, <1>2, <1>3, <2>1, <2>2 DEF FindEmail, Guard, Count, Abort
<1>4. CASE Find(r)
  <2> DEFINE u == req[r].target
             row == Changed(r, users[u])
  <2>1. CASE Reply(r, "CANNOT_CHANGE_OWN_ROLE")
    BY <1>1, <2>1 DEF Codes
  <2>2. ASSUME req[r].op = "role" => u # req[r].by,
               NEW stage \in {"count", "select"},
               req' = [req EXCEPT ![r].pc = stage, ![r].row = row]
        PROVE  IInv'
    <3>1. /\ u \in DOMAIN users /\ users[u] \in UserRows
          /\ req[r].by \in DOMAIN users /\ req[r].op \in {"role", "webhook"}
          /\ users[u].role \in given[u]
      BY <1>4 DEF Find, RequestOK, Shape, IInv, RolesGiven
    <3>2. /\ row \in UserRows /\ row.email = users[u].email
          /\ row.role = IF req[r].op = "role" THEN req[r].role
                        ELSE users[u].role
      BY <3>1, ChangedRow
    <3>3. req' = [req EXCEPT ![r].pc = stage, ![r].row = row]
      BY <2>2
    <3> HIDE DEF row
    <3>4. /\ req' \in [Requests -> RequestStates]
          /\ req'[r].pc = stage /\ req'[r].op = req[r].op
          /\ req'[r].by = req[r].by /\ req'[r].target = u
          /\ req'[r].role = req[r].role /\ req'[r].row = row
          /\ \A q \in Requests \ {r} : req'[q] = req[q]
      BY <3>2, <3>3 DEF Shape, RequestStates, Stages
    <3>5. RequestOK(r)' /\ RowGiven(r)'
      BY <1>0, <2>2, <3>1, <3>2, <3>4 DEF RequestOK, RowGiven, HoldsRow
    <3>6. QED
      BY <1>0, <3>4, <3>5, Quiet
  <2>3. QED
    BY <1>4, <2>1, <2>2 DEF Find
<1>5. CASE Select(r)
  <2> DEFINE row == users[req[r].target]
             cols == {c \in DOMAIN row : row[c] # req[r].row[c]}
  <2>1. CASE Reply(r, "ok")
    BY <1>1, <2>1 DEF Codes
  <2>2. CASE req' = [req EXCEPT ![r].pc = "update", ![r].cols = cols]
    <3>1. /\ req[r].pc = "select" /\ row \in UserRows
          /\ row.email = req[r].row.email
      BY <1>5 DEF Select, RequestOK, Shape
    <3>2. cols \in SUBSET {"email", "role", "webhookUrl"} /\ "email" \notin cols
      BY <3>1, UserRowParts DEF UserColumns
    <3> HIDE DEF cols
    <3>3. /\ req' \in [Requests -> RequestStates]
          /\ req'[r].pc = "update" /\ req'[r].op = req[r].op
          /\ req'[r].by = req[r].by /\ req'[r].target = req[r].target
          /\ req'[r].role = req[r].role /\ req'[r].row = req[r].row
          /\ req'[r].cols = cols
          /\ \A q \in Requests \ {r} : req'[q] = req[q]
      BY <2>2, <3>2 DEF Shape, RequestStates, Stages
    <3>4. RequestOK(r)' /\ RowGiven(r)'
      BY <1>0, <3>1, <3>2, <3>3 DEF RequestOK, RowGiven, HoldsRow
    <3>5. QED
      BY <1>0, <3>3, <3>4, Quiet
  <2>3. QED
    BY <1>5, <2>1, <2>2 DEF Select
<1>6. QED
  BY <1>3, <1>4, <1>5

LEMMA Invariance == Spec => []IInv
<1>1. Init => IInv
  <2> SUFFICES ASSUME Init
               PROVE  IInv
    OBVIOUS
  <2>1. \A r \in Requests : req[r].pc = "idle" /\ req[r] \in RequestStates
    BY IdleState DEF Init, Codes
  <2>2. TypeOK
    <3>1. req \in [Requests -> RequestStates]
      BY <2>1 DEF Init
    <3>2. users \in [DOMAIN users -> UserRows] /\ DOMAIN users \subseteq Ids
      BY FirstAssumption DEF Init
    <3>3. given \in [Ids -> SUBSET Roles]
      BY FirstAssumption DEF Init, UserRows
    <3>4. QED
      BY <2>1, <3>1, <3>2, <3>3 DEF TypeOK, RequestOK
  <2>3. UniqueEmails /\ RolesGiven
    BY FirstAssumption DEF Init, UniqueEmails, RolesGiven
  <2>4. RowsGiven
    BY <2>1 DEF RowsGiven, RowGiven, HoldsRow
  <2>5. QED
    BY <2>2, <2>3, <2>4 DEF IInv
<1>2. IInv /\ [Next]_vars => IInv'
  <2>1. CASE UNCHANGED vars
    BY <2>1
    DEF vars, IInv, TypeOK, RequestOK, UniqueEmails, RolesGiven, RowsGiven,
        RowGiven, HoldsRow
  <2>2. QED
    BY <2>1, CallKeeps, InsertKeeps, UpdateKeeps, ReadKeeps DEF Next, Step
<1>3. QED
  BY <1>1, <1>2, PTL DEF Spec

\* Every reachable state is well typed: in particular no save() of a user
\* writes their address, however long ago it read the row.
THEOREM TypeCorrect == Spec => []TypeOK
<1>1. IInv => TypeOK
  BY DEF IInv
<1>2. QED
  BY <1>1, Invariance, PTL

\* An address belongs to one user, however registrations and updates of rows
\* interleave.
THEOREM EmailsUnique == Spec => []UniqueEmails
<1>1. IInv => UniqueEmails
  BY DEF IInv
<1>2. QED
  BY <1>1, Invariance, PTL

\* The role of a user is always one that they were given, although a save()
\* may write back a role that was read before another was assigned.
THEOREM RolesWereGiven == Spec => []RolesGiven
<1>1. IInv => RolesGiven
  BY DEF IInv
<1>2. QED
  BY <1>1, Invariance, PTL


-----------------------------------------------------------------------------
(***************************************************************************)
(* The last admin.  Two orders at once may demote each other's senders     *)
(* (the run Accounts_last_admin finds how).  One request at a time cannot: *)
(* the sender of an order is an admin when its UPDATE is made, and it is   *)
(* not the user demoted; and a webhook URL is saved with the role as it    *)
(* is.                                                                     *)
(***************************************************************************)
SenderStays(r) ==
  /\ req[r].pc \in {"find", "count", "select", "update"} /\ req[r].op = "role" =>
       users[req[r].by].role = "super_admin"
  /\ req[r].pc = "count" => req[r].op = "role"
  /\ req[r].pc = "select" /\ req[r].op = "webhook" =>
       req[r].row.role = users[req[r].target].role
  /\ req[r].pc = "update" /\ req[r].op = "webhook" => "role" \notin req[r].cols

AdminInv == AdminKept /\ \A r \in Requests : SenderStays(r)

LEMMA AdminStep ==
  ASSUME \A q, r \in Requests : q = r,
         IInv, AdminInv, [Next]_vars
  PROVE  AdminInv'
<1> SUFFICES ASSUME NEW r \in Requests, Call(r) \/ Step(r) \/ Abort(r)
             PROVE  AdminKept' /\ SenderStays(r)'
  <2>1. CASE UNCHANGED vars
    BY <2>1 DEF vars, AdminInv, AdminKept, Admins, SenderStays
  <2>2. QED
    BY <2>1 DEF Next, AdminInv
<1> USE OwnRequest
<1>0. AdminKept /\ SenderStays(r)
  BY DEF AdminInv
<1>1. UNCHANGED users => AdminKept'
  BY <1>0 DEF AdminKept, Admins
<1>2. req'[r].pc \in {"idle", "findEmail", "insert", "guard"} => SenderStays(r)'
  BY DEF SenderStays
<1>3. ASSUME NEW code \in Codes, Reply(r, code)
      PROVE  SenderStays(r)'
  BY <1>2, <1>3, ReplyState
<1>4. CASE Call(r)
  <2>1. ASSUME NEW e, Register(r, e)
        PROVE  UNCHANGED users /\ req'[r].pc = "findEmail"
    BY <2>1 DEF Register, Shape, Idle
  <2>2. ASSUME NEW by, NEW target, NEW role, UpdateRole(r, by, target, role)
        PROVE  UNCHANGED users /\ req'[r].pc = "guard"
    BY <2>2 DEF UpdateRole, Shape, Idle
  <2>3. ASSUME NEW by, NEW url, UpdateWebhookUrl(r, by, url)
        PROVE  UNCHANGED users /\ req'[r].pc = "guard"
    BY <2>3 DEF UpdateWebhookUrl, Shape, Idle
  <2>4. QED
    BY <1>1, <1>2, <1>4, <2>1, <2>2, <2>3 DEF Call
<1>5. CASE FindEmail(r) \/ Abort(r)
  <2>1. UNCHANGED users /\ {"EMAIL_TAKEN", "INTERNAL_ERROR"} \subseteq Codes
    BY <1>5 DEF FindEmail, Abort, Codes
  <2>2. CASE Goto(r, "insert")
    BY <1>1, <1>2, <2>1, <2>2, GotoState DEF Stages
  <2>3. QED
    BY <1>1, <1>3, <1>5, <2>1, <2>2 DEF FindEmail, Abort
<1>6. CASE Insert(r)
  <2>1. /\ DOMAIN users \subseteq DOMAIN users'
        /\ \A u \in DOMAIN users : users'[u] = users[u]
    BY <1>6 DEF Insert
  <2>2. {"ok", "INTERNAL_ERROR"} \subseteq Codes
    BY DEF Codes
  <2>3. QED
    BY <1>0, <1>3, <1>6, <2>1, <2>2 DEF Insert, AdminKept, Admins
<1>7. CASE Guard(r)
  <2>1. UNCHANGED users /\ "find" \in Stages /\ "FORBIDDEN" \in Codes
    BY <1>7 DEF Guard, Stages, Codes
  <2>2. CASE users[req[r].by].role \in Allowed(req[r].op) /\ Goto(r, "find")
    <3>1. /\ req'[r].pc = "find" /\ req'[r].op = req[r].op
          /\ req'[r].by = req[r].by
      BY <2>1, <2>2, GotoState
    <3>2. req[r].op = "role" => users[req[r].by].role = "super_admin"
      BY <2>2 DEF Allowed
    <3>3. QED
      BY <1>1, <2>1, <3>1, <3>2 DEF SenderStays
  <2>3. QED
    BY <1>1, <1>3, <1>7, <2>1, <2>2 DEF Guard
<1>8. CASE Find(r)
  <2> DEFINE row == Changed(r, users[req[r].target])
  <2>1. UNCHANGED users /\ "CANNOT_CHANGE_OWN_ROLE" \in Codes
    BY <1>8 DEF Find, Codes
  <2>2. ASSUME NEW stage \in {"count", "select"},
               stage = "count" => req[r].op = "role",
               req' = [req EXCEPT ![r].pc = stage, ![r].row = row]
        PROVE  SenderStays(r)'
    <3>1. users[req[r].target] \in UserRows
      BY <1>8 DEF Find, RequestOK, Shape
    <3>2. req[r].op = "webhook" => row.role = users[req[r].target].role
      BY <3>1, ChangedRow
    <3>3. req' = [req EXCEPT ![r].pc = stage, ![r].row = row]
      BY <2>2
    <3> HIDE DEF row
    <3>4. /\ req'[r].pc = stage /\ req'[r].op = req[r].op
          /\ req'[r].by = req[r].by /\ req'[r].target = req[r].target
          /\ req'[r].row = row
      BY <3>3 DEF Shape, RequestStates
    <3>5. QED
      BY <1>0, <1>8, <2>1, <2>2, <3>2, <3>4 DEF SenderStays, Find
  <2>3. QED
    BY <1>1, <1>3, <1>8, <2>1, <2>2 DEF Find
<1>9. CASE Count(r)
  <2>1. /\ UNCHANGED users /\ "select" \in Stages /\ "LAST_ADMIN" \in Codes
        /\ req[r].pc = "count"
    BY <1>9 DEF Count, Stages, Codes
  <2>2. CASE Goto(r, "select")
    <3>1. /\ req'[r].pc = "select" /\ req'[r].op = req[r].op
          /\ req'[r].by = req[r].by
      BY <2>1, <2>2, GotoState
    <3>2. req[r].op = "role"
      BY <1>0, <2>1 DEF SenderStays
    <3>3. QED
      BY <1>0, <1>1, <2>1, <3>1, <3>2 DEF SenderStays
  <2>3. QED
    BY <1>1, <1>3, <1>9, <2>1, <2>2 DEF Count
<1>10. CASE Select(r)
  <2>1. UNCHANGED users /\ "ok" \in Codes /\ req[r].pc = "select"
    BY <1>10 DEF Select, Codes
  <2> DEFINE cols == {c \in DOMAIN users[req[r].target] :
                        users[req[r].target][c] # req[r].row[c]}
  <2>2. CASE req' = [req EXCEPT ![r].pc = "update", ![r].cols = cols]
    <3>1. req[r].op = "webhook" => "role" \notin cols
      BY <1>0, <2>1 DEF SenderStays
    <3>2. req' = [req EXCEPT ![r].pc = "update", ![r].cols = cols]
      BY <2>2
    <3> HIDE DEF cols
    <3>3. /\ req'[r].pc = "update" /\ req'[r].op = req[r].op
          /\ req'[r].by = req[r].by /\ req'[r].cols = cols
      BY <3>2 DEF Shape, RequestStates
    <3>4. QED
      BY <1>0, <1>1, <2>1, <3>1, <3>3 DEF SenderStays
  <2>3. QED
    BY <1>1, <1>3, <1>10, <2>1, <2>2 DEF Select
<1>11. CASE Update(r)
  <2> DEFINE u == req[r].target
             row == Overwritten(users[u], req[r].row, req[r].cols)
  <2>1. /\ u \in DOMAIN users /\ users[u] \in UserRows
        /\ req[r].row \in UserRows /\ "email" \notin req[r].cols
        /\ req[r].op \in {"role", "webhook"} /\ req[r].by \in DOMAIN users
        /\ req[r].op = "role" => u # req[r].by
    BY <1>11 DEF Update, RequestOK, Shape
  <2>2. row.role = IF "role" \in req[r].cols THEN req[r].row.role
                   ELSE users[u].role
    BY <2>1, OverwrittenRow
  <2>3. users' = [users EXCEPT ![u] = row]
    BY <1>11, <2>1 DEF Update, Overwritten
  <2> HIDE DEF row
  <2>4. ASSUME req[r].op = "role"
        PROVE  AdminKept'
    <3>1. users'[req[r].by].role = "super_admin" /\ req[r].by \in DOMAIN users'
      BY <1>0, <1>11, <2>1, <2>3, <2>4 DEF Update, SenderStays
    <3>2. QED
      BY <3>1 DEF AdminKept, Admins
  <2>5. ASSUME req[r].op = "webhook"
        PROVE  AdminKept'
    <3>1. row.role = users[u].role
      BY <1>0, <1>11, <2>2, <2>5 DEF Update, SenderStays
    <3>2. /\ DOMAIN users' = DOMAIN users
          /\ \A v \in DOMAIN users : users'[v].role = users[v].role
      BY <2>1, <2>3, <3>1
    <3>3. QED
      BY <1>0, <3>2 DEF AdminKept, Admins
  <2>6. AdminKept'
    BY <2>1, <2>4, <2>5
  <2>7. SenderStays(r)'
    BY <1>3, <1>11 DEF Update, Codes
  <2>8. QED
    BY <2>6, <2>7
<1>12. QED
  BY <1>4, <1>5, <1>6, <1>7, <1>8, <1>9, <1>10, <1>11 DEF Step

\* With one request at a time there is an admin at all times, also when
\* requests fail half way: it takes two at once to lose the last one.
THEOREM OneAtATimeKeepsAdmin ==
  ASSUME \A q, r \in Requests : q = r
  PROVE  Spec => []AdminKept
<1>1. Init => AdminInv
  BY FirstAssumption, IdleState
  DEF Init, AdminInv, AdminKept, Admins, SenderStays, Codes
<1>2. IInv /\ AdminInv /\ [Next]_vars => AdminInv'
  BY AdminStep
<1>3. AdminInv => AdminKept
  BY DEF AdminInv
<1>4. QED
  BY <1>1, <1>2, <1>3, Invariance, PTL DEF Spec
=============================================================================
