--------------------------- MODULE SessionsProofs ---------------------------
(***************************************************************************)
(* Proofs about Sessions, for any requests, users, ids and token           *)
(* lifetimes, and whatever part of a token its hash depends on.            *)
(***************************************************************************)
EXTENDS Sessions, TLAPS

\* The types of the variables, without what the stages of a request imply.
Shape ==
  /\ now \in Instants
  /\ Issued \subseteq Ids /\ rows \in [Issued -> Rows]
  /\ DOMAIN blacklist \subseteq Issued
  /\ blacklist \in [DOMAIN blacklist -> Instants]
  /\ req \in [Requests -> RequestStates]
  /\ loggedOut \subseteq Issued \X Headers
  /\ torn \subseteq Issued
  /\ ended \cup lost \cup dropped \subseteq Ids

\* Rows are added, and change in nothing but "revoked", which is only set.
RowsGrow ==
  /\ Issued \subseteq Issued'
  /\ \A i \in Issued : /\ rows'[i].user = rows[i].user
                       /\ rows'[i].iat = rows[i].iat
                       /\ rows'[i].session = rows[i].session
                       /\ rows[i].revoked => rows'[i].revoked

\* The state every request starts from and ends in.
LEMMA IdleState == Idle \in RequestStates /\ Idle.pc = "idle"
BY TimeAssumption DEF Idle, RequestStates, Epoch, Instants, Stages

LEMMA AfterInstant ==
  ASSUME now \in Instants, NEW s \in Nat
  PROVE  After(s) \in Instants
BY DEF After, Instants

\* Where a reply leaves the requests.
LEMMA ReplyState ==
  ASSUME Shape, NEW r \in Requests, Reply(r)
  PROVE  /\ req' \in [Requests -> RequestStates]
         /\ req'[r].pc = "idle"
         /\ \A q \in Requests \ {r} : req'[q] = req[q]
BY IdleState DEF Reply, Shape

\* Where a change of stage leaves them.
LEMMA GotoState ==
  ASSUME Shape, NEW r \in Requests, NEW s \in Stages, Goto(r, s)
  PROVE  /\ req' \in [Requests -> RequestStates]
         /\ req'[r].pc = s
         /\ req'[r].op = req[r].op
         /\ req'[r].user = req[r].user
         /\ req'[r].token = req[r].token
         /\ req'[r].header = req[r].header
         /\ req'[r].stored = req[r].stored
         /\ req'[r].iat = req[r].iat
         /\ req'[r].ttl = req[r].ttl
         /\ \A q \in Requests \ {r} : req'[q] = req[q]
BY DEF Goto, Shape, RequestStates

\* Revoking the rows of a user keeps the table well formed.
LEMMA RevokeRowsState ==
  ASSUME Shape, NEW u, RevokeRows(u)
  PROVE  /\ Issued' = Issued
         /\ rows' \in [Issued -> Rows]
         /\ RowsGrow
         /\ \A i \in Issued : rows[i].user = u => rows'[i].revoked
         /\ \A i \in Issued : rows[i].user # u => rows'[i] = rows[i]
         /\ ended \subseteq ended'
         /\ ended' \subseteq Ids
         /\ \A i \in Issued : rows[i].user = u => rows[i].session \in ended'
<1>1. rows \in [Issued -> Rows] /\ ended \subseteq Ids
  BY DEF Shape
<1>2. rows' = [i \in Issued |-> IF rows[i].user = u
                               THEN [rows[i] EXCEPT !.revoked = TRUE]
                               ELSE rows[i]]
  BY DEF RevokeRows
<1>3. Issued' = Issued
  BY <1>2 DEF Issued
<1>4. ASSUME NEW i \in Issued
      PROVE  /\ rows'[i] \in Rows
             /\ rows'[i].user = rows[i].user
             /\ rows'[i].iat = rows[i].iat
             /\ rows'[i].session = rows[i].session
             /\ rows[i].revoked => rows'[i].revoked
             /\ rows[i].user = u => rows'[i].revoked
             /\ rows[i].user # u => rows'[i] = rows[i]
  <2>1. rows[i] \in Rows
    BY <1>1
  <2>2. rows'[i] = IF rows[i].user = u THEN [rows[i] EXCEPT !.revoked = TRUE]
                   ELSE rows[i]
    BY <1>2
  <2>3. QED
    BY <2>1, <2>2 DEF Rows
<1>5. rows' \in [Issued -> Rows]
  BY <1>2, <1>4
<1>6. /\ ended' = ended \cup
           {rows[i].session : i \in {k \in Issued : rows[k].user = u}}
      /\ \A i \in Issued : rows[i].session \in Ids
  BY <1>1 DEF RevokeRows, Rows
<1>7. QED
  BY <1>1, <1>3, <1>4, <1>5, <1>6 DEF RowsGrow

\* A request that a step does not touch keeps what its stage gave it.
LEMMA UntouchedRequest ==
  ASSUME NEW q \in Requests, RequestOK(q), RowsGrow, req'[q] = req[q]
  PROVE  RequestOK(q)'
BY DEF RequestOK, HoldsRow, RowsGrow, Issuing, Decodes

LEMMA IdleRequest ==
  ASSUME NEW q \in Requests, req'[q].pc = "idle"
  PROVE  RequestOK(q)'
BY DEF RequestOK, HoldsRow, Issuing

LEMMA RowsSame ==
  ASSUME rows' = rows
  PROVE  RowsGrow /\ Issued' = Issued
BY DEF RowsGrow, Issued

-----------------------------------------------------------------------------
\* The stages a new request can be at.
LEMMA CallStage ==
  ASSUME Shape, NEW r \in Requests, Call(r)
  PROVE  req'[r].pc \in {"idle", "hash", "select", "guard"}
<1>1. ASSUME NEW i \in Issued, Refuse(r, i)
      PROVE  req'[r].pc = "idle"
  BY <1>1 DEF Refuse, vars
<1>2. ASSUME NEW u \in Users, Login(r, u)
      PROVE  req'[r].pc = "hash"
  BY <1>2 DEF Login, Idle, Shape
<1>3. ASSUME NEW i \in Issued, Refresh(r, i)
      PROVE  req'[r].pc = "select"
  BY <1>3 DEF Refresh, Idle, Shape
<1>4. ASSUME NEW i \in Issued, NEW op, NEW h, Arrive(r, i, op, h)
      PROVE  req'[r].pc = "guard"
  BY <1>4 DEF Arrive, Idle, Shape
<1>5. QED
  BY <1>1, <1>2, <1>3, <1>4 DEF Call

\* Each step keeps the types and leaves the rows of other requests theirs.
LEMMA StepTyped ==
  ASSUME TypeOK, NEW r \in Requests, Call(r) \/ Step(r) \/ Abort(r)
  PROVE  Shape' /\ RowsGrow /\ RequestOK(r)'
         /\ (\A q \in Requests \ {r} : req'[q] = req[q])
<1> DEFINE Goal == Shape' /\ RowsGrow /\ RequestOK(r)'
                   /\ (\A q \in Requests \ {r} : req'[q] = req[q])
<1>0. Shape /\ RequestOK(r) /\ req[r] \in RequestStates
  BY DEF TypeOK, Shape
<1>a. ASSUME Reply(r),
             UNCHANGED <<now, rows, blacklist, history>>
      PROVE  Goal
  BY <1>0, <1>a, ReplyState, IdleRequest, RowsSame DEF Shape, Issued, history
<1>b. ASSUME NEW s \in Stages, Goto(r, s), RequestOK(r)',
             UNCHANGED <<now, rows, blacklist, history>>
      PROVE  Goal
  BY <1>0, <1>b, GotoState, RowsSame DEF Shape, Issued, history
<1>c. ASSUME req' \in [Requests -> RequestStates],
             \A q \in Requests \ {r} : req'[q] = req[q], RequestOK(r)',
             UNCHANGED <<now, rows, blacklist, history>>
      PROVE  Goal
  BY <1>0, <1>c, RowsSame DEF Shape, Issued, history
<1>1. ASSUME NEW u \in Users, Login(r, u)
      PROVE  Goal
  <2>1. req'[r] = [Idle EXCEPT
                     !.pc = "hash", !.op = "login", !.user = u, !.iat = now.sec]
    BY <1>0, <1>1 DEF Login, Shape
  <2>2. /\ req'[r] \in RequestStates
        /\ req'[r].pc = "hash" /\ req'[r].op = "login" /\ req'[r].user = u
    <3>1. now.sec \in Nat
      BY <1>0 DEF Shape, Instants
    <3>2. QED
      BY <2>1, <3>1, IdleState DEF RequestStates, Stages
  <2>3. RequestOK(r)'
    BY <2>2 DEF RequestOK, HoldsRow, Issuing
  <2>4. /\ req' \in [Requests -> RequestStates]
        /\ \A q \in Requests \ {r} : req'[q] = req[q]
    BY <1>0, <1>1, <2>1, <2>2 DEF Login, Shape
  <2>5. QED
    BY <1>1, <1>c, <2>3, <2>4 DEF Login
<1>2. ASSUME NEW i \in Issued, Refresh(r, i)
      PROVE  Goal
  <2>1. req'[r] = [Idle EXCEPT !.pc = "select", !.op = "refresh",
                     !.user = rows[i].user, !.token = i]
    BY <1>0, <1>2 DEF Refresh, Shape
  <2>2. rows[i].user \in Users /\ i \in Ids
    BY <1>0 DEF Shape, Rows
  <2>3. /\ req'[r] \in RequestStates
        /\ req'[r].pc = "select" /\ req'[r].op = "refresh"
        /\ req'[r].user = rows[i].user /\ req'[r].token = i
    BY <2>1, <2>2, IdleState DEF RequestStates, Stages
  <2>4. RequestOK(r)'
    BY <1>2, <2>2, <2>3 DEF Refresh, RequestOK, HoldsRow, Issuing, Issued
  <2>5. /\ req' \in [Requests -> RequestStates]
        /\ \A q \in Requests \ {r} : req'[q] = req[q]
    BY <1>0, <1>2, <2>1, <2>3 DEF Refresh, Shape
  <2>6. QED
    BY <1>2, <1>c, <2>4, <2>5 DEF Refresh
<1>3. ASSUME NEW i \in Issued, NEW op \in {"logout", "access"},
             NEW h \in Headers \cup {"none"}, op = "logout" => h \in Headers,
             Arrive(r, i, op, h)
      PROVE  Goal
  <2>1. req'[r] = [Idle EXCEPT !.pc = "guard", !.op = op,
                     !.user = rows[i].user, !.token = i, !.header = h]
    BY <1>0, <1>3 DEF Arrive, Shape
  <2>2. rows[i].user \in Users /\ i \in Ids
    BY <1>0 DEF Shape, Rows
  <2>3. /\ req'[r] \in RequestStates
        /\ req'[r].pc = "guard" /\ req'[r].op = op /\ req'[r].header = h
        /\ req'[r].user = rows[i].user /\ req'[r].token = i
    BY <2>1, <2>2, IdleState DEF RequestStates, Stages
  <2>4. RequestOK(r)'
    BY <1>3, <2>2, <2>3 DEF Arrive, RequestOK, HoldsRow, Issuing, Issued
  <2>5. /\ req' \in [Requests -> RequestStates]
        /\ \A q \in Requests \ {r} : req'[q] = req[q]
    BY <1>0, <1>3, <2>1, <2>3 DEF Arrive, Shape
  <2>6. QED
    BY <1>3, <1>c, <2>4, <2>5 DEF Arrive
<1>4. CASE Hash(r)
  <2>1. /\ req'[r] \in RequestStates
        /\ req'[r].pc = "insert" /\ req'[r].op = req[r].op
        /\ req'[r].user = req[r].user /\ req'[r].token = req[r].token
        /\ req'[r].stored = req[r].stored /\ req'[r].header = req[r].header
    BY <1>0, <1>4, AfterInstant, TimeAssumption
    DEF Hash, Shape, RequestStates, Stages
  <2>2. /\ req' \in [Requests -> RequestStates]
        /\ \A q \in Requests \ {r} : req'[q] = req[q]
    BY <1>0, <1>4, <2>1 DEF Hash, Shape
  <2>3. RequestOK(r)'
    BY <1>0, <1>4, <2>1 DEF Hash, RequestOK, HoldsRow, Issuing, Issued
  <2>4. QED
    BY <1>4, <1>c, <2>2, <2>3 DEF Hash
<1>5. CASE Insert(r)
  <2>1. PICK i \in Ids \ Issued :
          rows' = [j \in Issued \cup {i} |->
                     IF j = i
                     THEN [user |-> req[r].user, iat |-> req[r].iat,
                           expiresAt |-> req[r].expiresAt, revoked |-> FALSE,
                           session |-> IF req[r].op = "login" THEN i
                                       ELSE rows[req[r].stored].session]
                     ELSE rows[j]]
    BY <1>5 DEF Insert
  <2>2. Issued' = Issued \cup {i} /\ Issued \subseteq Ids
    BY <1>0, <2>1 DEF Issued, Shape
  <2>3. \A j \in Issued : rows'[j] = rows[j]
    BY <2>1
  <2>4. rows'[i] \in Rows
    <3>1. req[r].user \in Users /\ req[r].op \in {"login", "refresh"}
      BY <1>0, <1>5 DEF Insert, RequestOK, Issuing
    <3>2. req[r].op = "refresh" => rows[req[r].stored].session \in Ids
      BY <1>0, <1>5 DEF Insert, RequestOK, HoldsRow, Issuing, Shape, Rows
    <3>3. req[r].iat \in Nat /\ req[r].expiresAt \in Instants
      BY <1>0 DEF RequestStates
    <3>4. QED
      BY <2>1, <3>1, <3>2, <3>3 DEF Rows
  <2>5. rows' \in [Issued' -> Rows]
    BY <1>0, <2>1, <2>2, <2>3, <2>4 DEF Shape
  <2>6. RowsGrow
    BY <2>2, <2>3 DEF RowsGrow
  <2>7. /\ req' \in [Requests -> RequestStates]
        /\ req'[r].pc = "idle"
        /\ \A q \in Requests \ {r} : req'[q] = req[q]
    BY <1>0, <1>5, ReplyState DEF Insert
  <2>8. QED
    BY <1>0, <1>5, <2>2, <2>5, <2>6, <2>7, IdleRequest
    DEF Insert, Shape, history
<1>6. CASE Select(r)
  <2>1. CASE Reply(r)
    BY <1>6, <1>a, <2>1 DEF Select
  <2>2. ASSUME NEW i \in Newest(req[r].user),
               req' = [req EXCEPT ![r].pc = "compare", ![r].stored = i]
        PROVE  Goal
    <3>1. i \in Issued /\ rows[i].user = req[r].user /\ i \in Ids
      BY <1>0, <2>2 DEF Newest, Live, Shape
    <3>2. /\ req'[r] \in RequestStates
          /\ req'[r].pc = "compare" /\ req'[r].op = req[r].op
          /\ req'[r].user = req[r].user /\ req'[r].token = req[r].token
          /\ req'[r].stored = i /\ req'[r].header = req[r].header
      BY <1>0, <2>2, <3>1 DEF Shape, RequestStates, Stages
    <3>3. /\ req' \in [Requests -> RequestStates]
          /\ \A q \in Requests \ {r} : req'[q] = req[q]
      BY <1>0, <2>2, <3>2 DEF Shape
    <3>4. RequestOK(r)'
      BY <1>0, <1>6, <3>1, <3>2
      DEF Select, RequestOK, HoldsRow, Issuing, Issued
    <3>5. QED
      BY <1>6, <1>c, <3>3, <3>4 DEF Select
  <2>3. QED
    BY <1>6, <2>1, <2>2 DEF Select
<1>7. CASE Compare(r)
  <2>1. PICK s \in {"revoke", "revokeFamily"} : Goto(r, s)
    BY <1>7 DEF Compare
  <2>2. s \in Stages
    BY DEF Stages
  <2>3. RequestOK(r)'
    BY <1>0, <1>7, <2>1, <2>2, GotoState
    DEF Compare, RequestOK, HoldsRow, Issuing, Issued
  <2>4. QED
    BY <1>7, <1>b, <2>1, <2>2, <2>3 DEF Compare
<1>8. CASE RevokeFamily(r)
  <2>1. /\ req' \in [Requests -> RequestStates]
        /\ req'[r].pc = "idle"
        /\ \A q \in Requests \ {r} : req'[q] = req[q]
    BY <1>0, <1>8, ReplyState DEF RevokeFamily
  <2>2. QED
    BY <1>0, <1>8, <2>1, RevokeRowsState, IdleRequest DEF RevokeFamily, Shape
<1>9. CASE Revoke(r)
  <2>1. req[r].stored \in Issued
    BY <1>0, <1>9 DEF Revoke, RequestOK, HoldsRow
  <2>2. Issued' = Issued
    BY <1>9 DEF Revoke, Issued
  <2>3. rows' \in [Issued -> Rows] /\ RowsGrow
    BY <1>0, <1>9, <2>1, <2>2 DEF Revoke, Shape, Rows, RowsGrow
  <2>4. "findUser" \in Stages
    BY DEF Stages
  <2>5. RequestOK(r)'
    BY <1>0, <1>9, <2>2, <2>3, <2>4, GotoState
    DEF Revoke, RequestOK, HoldsRow, Issuing, RowsGrow
  <2>6. QED
    BY <1>0, <1>9, <2>2, <2>3, <2>4, <2>5, GotoState DEF Revoke, Shape, history
<1>10. CASE FindUser(r)
  <2>1. /\ req'[r] \in RequestStates
        /\ req'[r].pc = "hash" /\ req'[r].op = req[r].op
        /\ req'[r].user = req[r].user /\ req'[r].token = req[r].token
        /\ req'[r].stored = req[r].stored /\ req'[r].header = req[r].header
    BY <1>0, <1>10 DEF FindUser, Shape, RequestStates, Stages, Instants
  <2>2. /\ req' \in [Requests -> RequestStates]
        /\ \A q \in Requests \ {r} : req'[q] = req[q]
    BY <1>0, <1>10, <2>1 DEF FindUser, Shape
  <2>3. RequestOK(r)'
    BY <1>0, <1>10, <2>1 DEF FindUser, RequestOK, HoldsRow, Issuing, Issued
  <2>4. QED
    BY <1>10, <1>c, <2>2, <2>3 DEF FindUser
<1>11. CASE Guard(r)
  <2>1. CASE Reply(r)
    BY <1>11, <1>a, <2>1 DEF Guard
  <2>2. CASE Goto(r, "loadUser")
    <3>1. "loadUser" \in Stages
      BY DEF Stages
    <3>2. RequestOK(r)'
      BY <1>0, <1>11, <2>2, <3>1, GotoState
      DEF Guard, RequestOK, HoldsRow, Issuing, Issued
    <3>3. QED
      BY <1>11, <1>b, <2>2, <3>1, <3>2 DEF Guard
  <2>3. QED
    BY <1>11, <2>1, <2>2 DEF Guard
<1>12. CASE LoadUser(r)
  <2>0. {"blacklist", "revokeAll"} \subseteq Stages
    BY DEF Stages
  <2>1. CASE Reply(r)
    BY <1>12, <1>a, <2>1 DEF LoadUser
  <2>2. CASE req[r].op = "logout" /\ Goto(r, "revokeAll")
    <3>1. RequestOK(r)'
      BY <1>0, <1>12, <2>0, <2>2, GotoState
      DEF LoadUser, RequestOK, HoldsRow, Issuing, Issued
    <3>2. QED
      BY <1>12, <1>b, <2>0, <2>2, <3>1 DEF LoadUser
  <2>3. CASE /\ req[r].op = "logout" /\ Decodes(req[r].header)
             /\ AccessExp(req[r].token) > now.sec
             /\ req' = [req EXCEPT ![r].pc = "blacklist",
                          ![r].ttl = AccessExp(req[r].token) - now.sec]
    <3>1. req[r].token \in Issued
      BY <1>0, <1>12 DEF LoadUser, RequestOK
    <3>2. AccessExp(req[r].token) - now.sec \in Nat
      BY <1>0, <2>3, <3>1, TimeAssumption DEF AccessExp, Shape, Rows, Instants
    <3>3. /\ req'[r] \in RequestStates
          /\ req'[r].pc = "blacklist" /\ req'[r].op = req[r].op
          /\ req'[r].user = req[r].user /\ req'[r].token = req[r].token
          /\ req'[r].stored = req[r].stored /\ req'[r].header = req[r].header
      BY <1>0, <2>0, <2>3, <3>2 DEF Shape, RequestStates
    <3>4. /\ req' \in [Requests -> RequestStates]
          /\ \A q \in Requests \ {r} : req'[q] = req[q]
      BY <1>0, <2>3, <3>3 DEF Shape
    <3>5. RequestOK(r)'
      BY <1>0, <1>12, <2>3, <3>3
      DEF LoadUser, RequestOK, HoldsRow, Issuing, Issued, Decodes
    <3>6. QED
      BY <1>12, <1>c, <3>4, <3>5 DEF LoadUser
  <2>4. QED
    BY <1>12, <2>1, <2>2, <2>3 DEF LoadUser
<1>13. CASE Blacklist(r)
  <2>0. "revokeAll" \in Stages
    BY DEF Stages
  <2>1. req[r].token \in Issued /\ req[r].ttl \in Nat
    BY <1>0, <1>13 DEF Blacklist, RequestOK, RequestStates
  <2>2. After(req[r].ttl) \in Instants
    BY <1>0, <2>1, AfterInstant DEF Shape
  <2>3. /\ DOMAIN blacklist' \subseteq Issued
        /\ blacklist' \in [DOMAIN blacklist' -> Instants]
    BY <1>0, <1>13, <2>1, <2>2 DEF Blacklist, Shape
  <2>4. RequestOK(r)'
    BY <1>0, <1>13, <2>0, GotoState
    DEF Blacklist, RequestOK, HoldsRow, Issuing, Issued
  <2>5. QED
    BY <1>0, <1>13, <2>0, <2>3, <2>4, GotoState, RowsSame
    DEF Blacklist, Shape, Issued
<1>14. CASE RevokeAll(r)
  <2>1. /\ req' \in [Requests -> RequestStates]
        /\ req'[r].pc = "idle"
        /\ \A q \in Requests \ {r} : req'[q] = req[q]
    BY <1>0, <1>14, ReplyState DEF RevokeAll
  <2>2. loggedOut' \subseteq Issued \X Headers
    BY <1>0, <1>14 DEF RevokeAll, RequestOK, Shape
  <2>3. QED
    BY <1>0, <1>14, <2>1, <2>2, RevokeRowsState, IdleRequest
    DEF RevokeAll, Shape
<1>15. CASE Abort(r)
  <2>1. torn' \subseteq Issued
    <3>1. req[r].pc = "revokeAll" => req[r].token \in Issued
      BY <1>0 DEF RequestOK
    <3>2. QED
      BY <1>0, <1>15, <3>1 DEF Abort, Shape
  <2>2. dropped' \subseteq Ids
    <3>1. req[r].op = "refresh" /\ req[r].pc \in {"findUser"} \cup Issuing =>
            rows[req[r].stored].session \in Ids
      BY <1>0 DEF RequestOK, HoldsRow, Shape, Rows
    <3>2. QED
      BY <1>0, <1>15, <3>1 DEF Abort, Shape
  <2>3. /\ req' \in [Requests -> RequestStates]
        /\ req'[r].pc = "idle"
        /\ \A q \in Requests \ {r} : req'[q] = req[q]
    BY <1>0, <1>15, ReplyState DEF Abort
  <2>4. QED
    BY <1>0, <1>15, <2>1, <2>2, <2>3, IdleRequest, RowsSame
    DEF Abort, Shape, Issued
<1> HIDE DEF Goal
<1>16. CASE Call(r)
  <2>0. ASSUME NEW i \in Issued, Refuse(r, i)
        PROVE  Goal
    <3>1. req' = req /\ rows' = rows /\ UNCHANGED vars
      BY <2>0 DEF Refuse, vars
    <3>2. Shape' /\ RowsGrow
      BY <1>0, <3>1, RowsSame DEF vars, Shape, Issued
    <3>3. RequestOK(r)'
      BY <1>0, <3>1, <3>2, UntouchedRequest
    <3>4. QED
      BY <3>1, <3>2, <3>3 DEF Goal
  <2>1. Goal
    BY <1>1, <1>2, <1>3, <1>16, <2>0, HeadersAssumption DEF Call
  <2>2. QED
    BY <2>1 DEF Goal
<1>17. CASE Step(r)
  BY <1>4, <1>5, <1>6, <1>7, <1>8, <1>9, <1>10, <1>11, <1>12, <1>13, <1>14,
     <1>17 DEF Step
<1>18. QED
  BY <1>15, <1>16, <1>17

\* Every reachable state is well typed, and every request has what its stage
\* needs, whatever fails and whatever Redis drops.
THEOREM TypeCorrect == Spec => []TypeOK
<1>1. Init => TypeOK
  <2> SUFFICES ASSUME Init
               PROVE  TypeOK
    OBVIOUS
  <2>1. Shape
    BY IdleState, TimeAssumption
    DEF Init, Shape, Epoch, Instants, Issued
  <2>2. ASSUME NEW r \in Requests
        PROVE  RequestOK(r)
    BY DEF Init, Idle, RequestOK, HoldsRow, Issuing
  <2>3. QED
    BY <2>1, <2>2 DEF TypeOK, Shape
<1>2. TypeOK /\ [Next]_vars => TypeOK'
  <2> SUFFICES ASSUME TypeOK, [Next]_vars
               PROVE  TypeOK'
    OBVIOUS
  <2>0. Shape /\ \A q \in Requests : RequestOK(q)
    BY DEF TypeOK, Shape
  <2>1. ASSUME Shape', RowsGrow,
               \A q \in Requests : req'[q] = req[q] \/ RequestOK(q)'
        PROVE  TypeOK'
    <3>1. \A q \in Requests : RequestOK(q)'
      BY <2>0, <2>1, UntouchedRequest
    <3>2. QED
      BY <2>1, <3>1 DEF TypeOK, Shape
  <2>2. ASSUME NEW r \in Requests, Call(r) \/ Step(r) \/ Abort(r)
        PROVE  TypeOK'
    BY <2>1, <2>2, StepTyped
  <2>3. ASSUME NEW j \in Ids, Evict(j)
        PROVE  TypeOK'
    <3>1. Shape'
      BY <2>0, <2>3 DEF Evict, Shape, Issued
    <3>2. QED
      BY <2>1, <2>3, <3>1, RowsSame DEF Evict
  <2>4. CASE Tick
    <3>1. now' \in Instants
      BY <2>0, <2>4, TimeAssumption DEF Tick, Shape, Instants
    <3>2. Shape'
      BY <2>0, <2>4, <3>1 DEF Tick, Shape, Issued, history
    <3>3. QED
      BY <2>1, <2>4, <3>2, RowsSame DEF Tick, history
  <2>5. CASE UNCHANGED vars
    <3>1. Shape'
      BY <2>0, <2>5 DEF vars, Shape, Issued
    <3>2. QED
      BY <2>1, <2>5, <3>1, RowsSame DEF vars
  <2>6. QED
    BY <2>2, <2>3, <2>4, <2>5 DEF Next
<1>3. QED
  BY <1>1, <1>2, PTL DEF Spec

-----------------------------------------------------------------------------
(***************************************************************************)
(* The blacklist.  The inductive invariant says more than BlacklistCovers: *)
(* it follows the lifetime a logout computed from its clock reading to the *)
(* key it sets, and needs whole seconds only.  A key that Redis drops is    *)
(* remembered in lost, until the next SET for its token.                   *)
(***************************************************************************)
Covered(j) ==
  now.sec < AccessExp(j) =>
    \/ j \in lost
    \/ j \in DOMAIN blacklist /\ blacklist[j].sec >= AccessExp(j)

RequestCovered(r) ==
  /\ req[r].pc = "blacklist" =>
       now.sec + req[r].ttl >= AccessExp(req[r].token)
  /\ req[r].pc = "revokeAll" /\ Decodes(req[r].header) =>
       Covered(req[r].token)

CoverInv ==
  /\ \A j \in Cut : Covered(j)
  /\ \A r \in Requests : RequestCovered(r)

LEMMA CutIssued ==
  ASSUME TypeOK
  PROVE  Cut \subseteq Issued
BY DEF TypeOK, Cut

LEMMA CutSame ==
  ASSUME TypeOK, UNCHANGED <<loggedOut, torn>>
  PROVE  Cut' \subseteq Cut
BY DEF TypeOK, Cut

\* What is covered stays covered, for tokens and for the requests a step
\* leaves alone, while the clock and the blacklist are unchanged.
LEMMA CoverUntouched ==
  ASSUME TypeOK, CoverInv, RowsGrow, UNCHANGED <<now, blacklist, lost>>
  PROVE  /\ \A j \in Issued : Covered(j) => Covered(j)'
         /\ \A j \in Cut : Covered(j)'
         /\ \A q \in Requests : req'[q] = req[q] => RequestCovered(q)'
<1>1. \A j \in Issued : AccessExp(j)' = AccessExp(j)
  BY DEF RowsGrow, AccessExp
<1>2. \A j \in Issued : Covered(j) => Covered(j)'
  BY <1>1 DEF Covered
<1>3. \A j \in Cut : Covered(j)'
  BY <1>2, CutIssued DEF CoverInv
<1>4. ASSUME NEW q \in Requests, req'[q] = req[q]
      PROVE  RequestCovered(q)'
  <2>1. CASE req[q].pc \in {"blacklist", "revokeAll"}
    <3>1. PICK j \in Issued : j = req[q].token
      BY <2>1 DEF TypeOK, RequestOK
    <3>2. RequestCovered(q)
      BY DEF CoverInv
    <3>3. req[q].pc = "blacklist" => now'.sec + req'[q].ttl >= AccessExp(j)'
      BY <1>1, <1>4, <3>1, <3>2 DEF RequestCovered
    <3>4. req[q].pc = "revokeAll" /\ Decodes(req[q].header) => Covered(j)'
      BY <1>2, <3>1, <3>2 DEF RequestCovered
    <3>5. QED
      BY <1>4, <3>1, <3>3, <3>4 DEF RequestCovered, Covered, AccessExp, Decodes
  <2>2. CASE req[q].pc \notin {"blacklist", "revokeAll"}
    BY <1>4, <2>2 DEF RequestCovered
  <2>3. QED
    BY <2>1, <2>2
<1>5. QED
  BY <1>2, <1>3, <1>4

\* A step that touches neither the clock nor the blacklist, cuts off only
\* tokens that are covered, and leaves its request outside the two stages of a
\* logout, keeps the invariant.
LEMMA CoverKept ==
  ASSUME TypeOK, CoverInv, RowsGrow, NEW r \in Requests,
         UNCHANGED <<now, blacklist, lost>>,
         \A j \in Cut' \ Cut : j \in Issued /\ Covered(j),
         \A q \in Requests \ {r} : req'[q] = req[q],
         req'[r].pc \notin {"blacklist", "revokeAll"}
  PROVE  CoverInv'
<1>1. RequestCovered(r)'
  BY DEF RequestCovered
<1>2. \A j \in Cut' : Covered(j)'
  BY CoverUntouched
<1>3. QED
  BY <1>1, <1>2, CoverUntouched DEF CoverInv

LEMMA CoverStep ==
  ASSUME TypeOK, TypeOK', CoverInv, [Next]_vars
  PROVE  CoverInv'
<1>0. Shape /\ Shape'
  BY DEF TypeOK, Shape
<1>1. ASSUME NEW r \in Requests, Call(r) \/ Step(r) \/ Abort(r)
      PROVE  CoverInv'
  <2>0. /\ RowsGrow
        /\ \A q \in Requests \ {r} : req'[q] = req[q]
    BY <1>1, StepTyped
  <2>1. CASE Call(r)
    <3>1. UNCHANGED <<now, blacklist, history>>
      BY <2>1 DEF Call, Login, Refresh, Refuse, Arrive, vars, history
    <3>2. req'[r].pc \in {"idle", "hash", "select", "guard"}
      BY <1>0, <2>1, CallStage
    <3>3. Cut' \subseteq Cut
      BY <3>1, CutSame DEF history
    <3>4. QED
      BY <2>0, <3>1, <3>2, <3>3, CoverKept DEF history
  <2>2. CASE Hash(r) \/ Insert(r) \/ Select(r) \/ Compare(r)
             \/ RevokeFamily(r) \/ Revoke(r) \/ FindUser(r) \/ Guard(r)
    <3>1. UNCHANGED <<now, blacklist, loggedOut, torn, lost>>
      BY <2>2 DEF Hash, Insert, Select, Compare, RevokeFamily, Revoke,
                  FindUser, Guard, history
    <3>2. req'[r].pc \notin {"blacklist", "revokeAll"}
      BY <1>0, <2>2
      DEF Hash, Insert, Select, Compare, RevokeFamily, Revoke, FindUser,
          Guard, Reply, Goto, Idle, Shape, RequestStates
    <3>3. Cut' \subseteq Cut
      BY <3>1, CutSame
    <3>4. QED
      BY <2>0, <3>1, <3>2, <3>3, CoverKept
  <2>3. CASE LoadUser(r)
    <3>1. PICK j \in Issued : j = req[r].token
      BY <2>3 DEF LoadUser, TypeOK, RequestOK
    <3>2. UNCHANGED <<now, rows, blacklist, loggedOut, torn, lost>>
      BY <2>3 DEF LoadUser, history
    <3>3. now.sec \in Nat /\ AccessExp(j) \in Nat
      BY <1>0, <3>1, TimeAssumption DEF Shape, Rows, Instants, AccessExp
    <3>4. req'[r].pc = "blacklist" =>
            req'[r].token = j /\ req'[r].ttl = AccessExp(j) - now.sec
      BY <1>0, <2>3, <3>1
      DEF LoadUser, Reply, Goto, Idle, Shape, RequestStates
    <3>5. req'[r].pc = "revokeAll" =>
            /\ req'[r].token = j /\ req'[r].header = req[r].header
            /\ ~(Decodes(req[r].header) /\ AccessExp(j) > now.sec)
      BY <1>0, <2>3, <3>1
      DEF LoadUser, Reply, Goto, Idle, Shape, RequestStates
    <3>6. RequestCovered(r)'
      BY <3>2, <3>3, <3>4, <3>5 DEF RequestCovered, Covered, AccessExp, Decodes
    <3>7. Cut' \subseteq Cut
      BY <3>2, CutSame
    <3>8. QED
      BY <2>0, <3>2, <3>6, <3>7, CoverUntouched DEF CoverInv
  <2>4. CASE Blacklist(r)
    <3>1. PICK j \in Issued : j = req[r].token
      BY <2>4 DEF Blacklist, TypeOK, RequestOK
    <3>2. /\ UNCHANGED <<now, rows, loggedOut, torn>>
          /\ lost' = lost \ {j}
          /\ req'[r].pc = "revokeAll" /\ req'[r].token = j
      BY <1>0, <2>4, <3>1 DEF Blacklist, Goto, Shape, RequestStates
    <3>3. now.sec + req[r].ttl >= AccessExp(j)
      BY <2>4, <3>1 DEF Blacklist, CoverInv, RequestCovered
    <3>4. j \in DOMAIN blacklist' /\ blacklist'[j].sec = now.sec + req[r].ttl
      BY <1>0, <2>4, <3>1 DEF Blacklist, After, Shape, Instants
    <3>5. \A k : AccessExp(k)' = AccessExp(k)
      BY <3>2 DEF AccessExp
    <3>6. Covered(j)'
      BY <3>3, <3>4, <3>5 DEF Covered
    <3>7. \A k : k # j /\ Covered(k) => Covered(k)'
      BY <2>4, <3>1, <3>2, <3>5 DEF Blacklist, Covered
    <3>8. \A k : Covered(k) => Covered(k)'
      BY <3>6, <3>7
    <3>9. ASSUME NEW q \in Requests
          PROVE  RequestCovered(q)'
      <4>1. CASE q = r
        BY <3>2, <3>6, <4>1 DEF RequestCovered, Covered, AccessExp
      <4>2. CASE q # r
        <5>1. PICK k : k = req[q].token
          OBVIOUS
        <5>2. RequestCovered(q)
          BY DEF CoverInv
        <5>3. req'[q] = req[q]
          BY <2>0, <4>2
        <5>4. req[q].pc = "revokeAll" /\ Decodes(req[q].header) => Covered(k)'
          BY <3>8, <5>1, <5>2 DEF RequestCovered
        <5>5. req[q].pc = "blacklist" =>
                now'.sec + req'[q].ttl >= AccessExp(k)'
          BY <3>2, <3>5, <5>1, <5>2, <5>3 DEF RequestCovered
        <5>6. QED
          BY <5>1, <5>3, <5>4, <5>5
          DEF RequestCovered, Covered, AccessExp, Decodes
      <4>3. QED
        BY <4>1, <4>2
    <3>10. Cut' \subseteq Cut
      BY <3>2, CutSame
    <3>11. QED
      BY <3>8, <3>9, <3>10 DEF CoverInv
  <2>5. CASE RevokeAll(r) \/ Abort(r)
    <3>1. /\ UNCHANGED <<now, blacklist, lost>>
          /\ req'[r].pc = "idle"
      BY <1>0, <2>5 DEF RevokeAll, Abort, Reply, Idle, Shape
    <3>2. ASSUME NEW j \in Cut' \ Cut
          PROVE  /\ j = req[r].token
                 /\ req[r].pc = "revokeAll" /\ Decodes(req[r].header)
      <4>1. CASE RevokeAll(r)
        <5>1. /\ loggedOut' = loggedOut \cup {<<req[r].token, req[r].header>>}
              /\ torn' = torn /\ Issued' = Issued
          BY <1>0, <4>1, RevokeRowsState DEF RevokeAll
        <5>2. PICK h \in Headers : <<j, h>> \in loggedOut' /\ Decodes(h)
          BY <5>1 DEF Cut
        <5>3. <<j, h>> \notin loggedOut
          BY <5>1, <5>2 DEF Cut
        <5>4. QED
          BY <4>1, <5>1, <5>2, <5>3 DEF RevokeAll
      <4>2. CASE Abort(r)
        BY <4>2 DEF Abort, Cut, Issued
      <4>3. QED
        BY <2>5, <4>1, <4>2
    <3>3. ASSUME NEW j \in Cut' \ Cut
          PROVE  j \in Issued /\ Covered(j)
      BY <3>2, <3>3 DEF TypeOK, RequestOK, CoverInv, RequestCovered
    <3>4. QED
      BY <2>0, <3>1, <3>3, CoverKept
  <2>6. QED
    BY <1>1, <2>1, <2>2, <2>3, <2>4, <2>5 DEF Step
<1>2. ASSUME NEW j \in Ids, Evict(j)
      PROVE  CoverInv'
  <2>1. /\ UNCHANGED <<now, rows, req, loggedOut, torn>>
        /\ lost' = lost \cup {j}
        /\ DOMAIN blacklist' = DOMAIN blacklist \ {j}
        /\ \A k \in DOMAIN blacklist \ {j} : blacklist'[k] = blacklist[k]
    BY <1>2 DEF Evict
  <2>2. \A k : Covered(k) => Covered(k)'
    BY <2>1 DEF Covered, AccessExp
  <2>3. \A k \in Cut' : Covered(k)'
    BY <2>1, <2>2, CutSame DEF CoverInv
  <2>4. \A q \in Requests : RequestCovered(q)'
    <3>1. ASSUME NEW q \in Requests
          PROVE  RequestCovered(q)'
      <4>1. PICK k : k = req[q].token
        OBVIOUS
      <4>2. RequestCovered(q) /\ req' = req /\ now' = now
        BY <2>1 DEF CoverInv
      <4>3. req[q].pc = "revokeAll" /\ Decodes(req[q].header) => Covered(k)'
        BY <2>2, <4>1, <4>2 DEF RequestCovered
      <4>4. req[q].pc = "blacklist" => now'.sec + req'[q].ttl >= AccessExp(k)'
        BY <2>1, <4>1, <4>2 DEF RequestCovered, AccessExp
      <4>5. QED
        BY <4>1, <4>2, <4>3, <4>4 DEF RequestCovered, Covered, AccessExp, Decodes
    <3>2. QED
      BY <3>1
  <2>5. QED
    BY <2>3, <2>4 DEF CoverInv
<1>3. CASE Tick
  <2>1. /\ UNCHANGED <<rows, blacklist, req, loggedOut, torn, lost>>
        /\ now'.sec >= now.sec
        /\ now.sec \in Nat /\ now'.sec \in Nat
    BY <1>0, <1>3 DEF Tick, Shape, Instants, history
  <2>2. \A k \in Issued : AccessExp(k) \in Nat /\ AccessExp(k)' = AccessExp(k)
    BY <1>0, <2>1, TimeAssumption DEF AccessExp, Shape, Rows
  <2>3. \A k \in Issued : Covered(k) => Covered(k)'
    BY <2>1, <2>2 DEF Covered
  <2>4. \A j \in Cut' : Covered(j)'
    BY <2>1, <2>3, CutSame, CutIssued DEF CoverInv
  <2>5. ASSUME NEW q \in Requests
        PROVE  RequestCovered(q)'
    <3>1. CASE req[q].pc \in {"blacklist", "revokeAll"}
      <4>1. PICK k \in Issued : k = req[q].token
        BY <3>1 DEF TypeOK, RequestOK
      <4>2. RequestCovered(q) /\ req'[q] = req[q] /\ req[q].ttl \in Nat
        BY <1>0, <2>1 DEF CoverInv, Shape, RequestStates
      <4>3. req[q].pc = "revokeAll" /\ Decodes(req[q].header) => Covered(k)'
        BY <2>3, <4>1, <4>2 DEF RequestCovered
      <4>4. req[q].pc = "blacklist" => now'.sec + req'[q].ttl >= AccessExp(k)'
        BY <2>1, <2>2, <4>1, <4>2 DEF RequestCovered
      <4>5. QED
        BY <4>1, <4>2, <4>3, <4>4 DEF RequestCovered, Covered, AccessExp, Decodes
    <3>2. CASE req[q].pc \notin {"blacklist", "revokeAll"}
      BY <2>1, <3>2 DEF RequestCovered
    <3>3. QED
      BY <3>1, <3>2
  <2>6. QED
    BY <2>4, <2>5 DEF CoverInv
<1>4. CASE UNCHANGED vars
  BY <1>4 DEF vars, CoverInv, Cut, Issued, RequestCovered, Covered, AccessExp,
              Decodes
<1>5. QED
  BY <1>1, <1>2, <1>3, <1>4 DEF Next

LEMMA CoverImplies ==
  ASSUME TypeOK, CoverInv
  PROVE  BlacklistCovers
<1> SUFFICES ASSUME NEW j \in Cut, now.sec < AccessExp(j), j \notin lost
             PROVE  Blacklisted(j)
  BY DEF BlacklistCovers
<1>1. j \in DOMAIN blacklist /\ blacklist[j].sec >= AccessExp(j)
  BY DEF CoverInv, Covered
<1>2. blacklist[j] \in Instants /\ j \in Issued
  BY <1>1 DEF TypeOK
<1>3. AccessExp(j) \in Nat /\ now.sec \in Nat /\ blacklist[j].sec \in Nat
  BY <1>2, TimeAssumption DEF TypeOK, AccessExp, Rows, Instants
<1>4. QED
  BY <1>1, <1>3 DEF Blacklisted, Later

LEMMA CoverAlways == Spec => []CoverInv
<1>1. Init => CoverInv
  BY DEF Init, CoverInv, Cut, RequestCovered, Idle
<1>2. TypeOK /\ TypeOK' /\ CoverInv /\ [Next]_vars => CoverInv'
  BY CoverStep
<1>3. QED
  BY <1>1, <1>2, TypeCorrect, PTL DEF Spec

\* A token that a logout has read is in the blacklist until it expires, or
\* Redis dropped its key, for every lifetime, every resolution of the clock,
\* every interleaving of logouts and whatever fails.
THEOREM BlacklistSafe == Spec => []BlacklistCovers
<1>1. TypeOK /\ CoverInv => BlacklistCovers
  BY CoverImplies
<1>2. QED
  BY <1>1, TypeCorrect, CoverAlways, PTL

\* No request passes the guard with such a token before the token has expired,
\* unless Redis dropped its key.
THEOREM AccessCut == Spec => AccessCutOff
<1>1. TypeOK /\ TypeOK' /\ CoverInv /\ [Next]_vars =>
        [\A r \in Requests :
           req[r].pc = "guard" /\ req'[r].pc = "loadUser" =>
             \/ req[r].token \notin Cut
             \/ now.sec >= AccessExp(req[r].token)
             \/ req[r].token \in lost]_vars
  <2> SUFFICES ASSUME TypeOK, TypeOK', CoverInv, Next,
                      NEW r \in Requests,
                      req[r].pc = "guard", req'[r].pc = "loadUser",
                      req[r].token \in Cut, req[r].token \notin lost
               PROVE  now.sec >= AccessExp(req[r].token)
    BY DEF vars
  <2>1. Guard(r)
    <3>1. ASSUME NEW q \in Requests, Call(q) \/ Step(q) \/ Abort(q)
          PROVE  q = r
      BY <3>1, StepTyped
    <3>2. Call(r) \/ Step(r) \/ Abort(r)
      BY <3>1 DEF Next, Evict, Tick
    <3>3. ~Call(r)
      BY DEF Call, Login, Refresh, Refuse, Arrive, vars
    <3>4. ~Abort(r)
      BY DEF Abort, Reply, Idle, TypeOK
    <3>5. QED
      BY <3>2, <3>3, <3>4
      DEF Step, Hash, Insert, Select, Compare, RevokeFamily, Revoke,
          FindUser, LoadUser, Blacklist, RevokeAll
  <2>2. ~Blacklisted(req[r].token)
    BY <2>1 DEF Guard, Reply, Idle, TypeOK
  <2>3. ~(now.sec < AccessExp(req[r].token))
    BY <2>2, CoverImplies DEF BlacklistCovers
  <2>4. now.sec \in Nat /\ AccessExp(req[r].token) \in Nat
    BY TimeAssumption, CutIssued DEF TypeOK, AccessExp, Rows, Instants
  <2>5. QED
    BY <2>3, <2>4
<1>2. QED
  BY <1>1, TypeCorrect, CoverAlways, PTL DEF Spec, AccessCutOff

-----------------------------------------------------------------------------
(***************************************************************************)
(* The two halves of a logout.  LogoutComplete is inductive as it stands,  *)
(* since a token has the user of the request that logs out with it, and a  *)
(* logout that fails between the two is remembered in torn.                *)
(***************************************************************************)
InBetween(r, j) ==
  req[r].pc = "revokeAll" /\ req[r].token = j /\ Decodes(req[r].header)

LEMMA LogoutStep ==
  ASSUME TypeOK, LogoutComplete, [Next]_vars
  PROVE  LogoutComplete'
<1>0. \A j \in DOMAIN blacklist :
        rows[j].revoked \/ (\E q \in Requests : InBetween(q, j)) \/ j \in torn
  BY DEF LogoutComplete, InBetween
<1>1. ASSUME NEW r \in Requests, Call(r) \/ Step(r) \/ Abort(r)
      PROVE  LogoutComplete'
  <2>1. /\ RowsGrow
        /\ \A q \in Requests \ {r} : req'[q] = req[q]
        /\ DOMAIN blacklist \subseteq Issued
    BY <1>1, StepTyped DEF TypeOK
  <2>2. torn \subseteq torn'
    BY <1>1
    DEF Call, Login, Refresh, Refuse, Arrive, vars, Step, Hash, Insert, Select,
        Compare, RevokeFamily, Revoke, FindUser, Guard, LoadUser, Blacklist,
        RevokeAll, Abort, history
  <2>3. ASSUME \A j \in DOMAIN blacklist' \ DOMAIN blacklist : InBetween(r, j)',
               \A j \in DOMAIN blacklist :
                 InBetween(r, j) => rows'[j].revoked \/ j \in torn'
        PROVE  LogoutComplete'
    <3>1. ASSUME NEW j \in DOMAIN blacklist, NEW q \in Requests, InBetween(q, j)
          PROVE  \/ rows'[j].revoked
                 \/ \E p \in Requests : InBetween(p, j)'
                 \/ j \in torn'
      <4>1. CASE q = r
        BY <2>3, <3>1, <4>1
      <4>2. CASE q # r
        BY <2>1, <3>1, <4>2 DEF InBetween, Decodes
      <4>3. QED
        BY <4>1, <4>2
    <3>2. \A j \in DOMAIN blacklist' :
            \/ rows'[j].revoked
            \/ \E p \in Requests : InBetween(p, j)'
            \/ j \in torn'
      BY <1>0, <2>1, <2>2, <2>3, <3>1 DEF RowsGrow
    <3>3. QED
      BY <3>2 DEF LogoutComplete, InBetween, Decodes
  <2>4. CASE Blacklist(r)
    <3>1. \A j : ~InBetween(r, j)
      BY <2>4 DEF Blacklist, InBetween
    <3>2. /\ DOMAIN blacklist' = DOMAIN blacklist \cup {req[r].token}
          /\ req'[r].pc = "revokeAll" /\ req'[r].token = req[r].token
          /\ Decodes(req[r].header) /\ req'[r].header = req[r].header
      BY <2>4 DEF Blacklist, Goto, TypeOK, RequestOK, RequestStates
    <3>3. QED
      BY <2>3, <3>1, <3>2 DEF InBetween, Decodes
  <2>5. CASE RevokeAll(r)
    <3>1. /\ UNCHANGED blacklist
          /\ \A i \in Issued : rows[i].user = req[r].user => rows'[i].revoked
      BY <2>5, RevokeRowsState DEF RevokeAll, TypeOK, Shape
    <3>2. /\ req[r].token \in Issued
          /\ rows[req[r].token].user = req[r].user
      BY <2>5 DEF RevokeAll, TypeOK, RequestOK
    <3>3. QED
      BY <2>3, <3>1, <3>2 DEF InBetween
  <2>6. CASE Abort(r)
    <3>1. /\ UNCHANGED blacklist
          /\ \A j : InBetween(r, j) => j \in torn'
      BY <2>6 DEF Abort, InBetween
    <3>2. QED
      BY <2>3, <3>1
  <2>7. CASE UNCHANGED blacklist /\ req[r].pc # "revokeAll"
    BY <2>3, <2>7 DEF InBetween
  <2>8. CASE Call(r)
    <3>1. UNCHANGED blacklist /\ req[r].pc = "idle"
      BY <2>8 DEF Call, Login, Refresh, Refuse, Arrive, vars
    <3>2. QED
      BY <2>7, <3>1
  <2>9. CASE Step(r)
    BY <2>4, <2>5, <2>7, <2>9
    DEF Step, Hash, Insert, Select, Compare, RevokeFamily, Revoke, FindUser,
        Guard, LoadUser
  <2>10. QED
    BY <1>1, <2>6, <2>8, <2>9
<1>2. ASSUME NEW j \in Ids, Evict(j)
      PROVE  LogoutComplete'
  BY <1>2 DEF Evict, LogoutComplete, Decodes
<1>3. CASE Tick \/ UNCHANGED vars
  BY <1>3 DEF Tick, vars, history, LogoutComplete, Decodes
<1>4. QED
  BY <1>1, <1>2, <1>3 DEF Next

\* A logout is half done only after a failure between its two stores: any
\* other token on the blacklist has its row revoked, or its logout goes on.
\* Whatever Redis evicts, and however logouts with one token interleave.
THEOREM LogoutInBothStores == Spec => []LogoutComplete
<1>1. Init => LogoutComplete
  BY DEF Init, LogoutComplete
<1>2. TypeOK /\ LogoutComplete /\ [Next]_vars => LogoutComplete'
  BY LogoutStep
<1>3. QED
  BY <1>1, <1>2, TypeCorrect, PTL DEF Spec

-----------------------------------------------------------------------------
(***************************************************************************)
(* Sessions survive refreshes.  SessionKept is inductive as it stands: a   *)
(* refresh that revokes the last live row of a session becomes its         *)
(* successor in the same step, and stays it until its row is stored.       *)
(***************************************************************************)
Carries(i, s) == i \in Issued /\ rows[i].session = s /\ ~rows[i].revoked
Succeeds(r, s) ==
  /\ req[r].op = "refresh"
  /\ req[r].pc \in {"findUser", "hash", "insert"}
  /\ rows[req[r].stored].session = s
Kept(s) == \/ s \in ended \cup dropped
           \/ \E i \in Ids : Carries(i, s)
           \/ \E r \in Requests : Succeeds(r, s)

LEMMA KeptMeansKept ==
  ASSUME TypeOK
  PROVE  SessionKept <=> \A i \in Issued : Kept(rows[i].session)
BY DEF TypeOK, SessionKept, Kept, Carries, Succeeds, Carriers, Successors,
       Issuing

\* A step of r that revokes nothing, and keeps r a successor if it was one,
\* keeps every session.
LEMMA KeptUnlessRevoked ==
  ASSUME TypeOK, RowsGrow, NEW r \in Requests, NEW s, Kept(s),
         \A i \in Issued : rows'[i].revoked = rows[i].revoked,
         ended \cup dropped \subseteq ended' \cup dropped',
         \A q \in Requests \ {r} : req'[q] = req[q],
         Succeeds(r, s) => \/ Succeeds(r, s)'
                           \/ \E i \in Ids : Carries(i, s)'
                           \/ s \in dropped'
  PROVE  Kept(s)'
<1>1. ASSUME NEW i \in Ids, Carries(i, s)
      PROVE  Carries(i, s)'
  BY <1>1 DEF Carries, RowsGrow
<1>2. ASSUME NEW q \in Requests \ {r}, Succeeds(q, s)
      PROVE  Succeeds(q, s)'
  <2>1. req[q].stored \in Issued
    BY <1>2 DEF Succeeds, TypeOK, RequestOK, HoldsRow, Issuing
  <2>2. QED
    BY <1>2, <2>1 DEF Succeeds, RowsGrow
<1>3. QED
  BY <1>1, <1>2 DEF Kept

LEMMA SessionStep ==
  ASSUME TypeOK, TypeOK', SessionKept, [Next]_vars
  PROVE  SessionKept'
<1> SUFFICES ASSUME NEW i \in Issued'
             PROVE  Kept(rows[i].session)'
  BY KeptMeansKept DEF TypeOK, SessionKept, Kept, Carries, Succeeds, Carriers,
                       Successors, Issuing
<1>0. Shape
  BY DEF TypeOK, Shape
<1>1. \A k \in Issued : Kept(rows[k].session)
  BY KeptMeansKept
<1>2. ASSUME NEW r \in Requests, Call(r) \/ Step(r) \/ Abort(r)
      PROVE  Kept(rows[i].session)'
  <2>0. RowsGrow /\ \A q \in Requests \ {r} : req'[q] = req[q]
    BY <1>2, StepTyped
  <2>1. ASSUME UNCHANGED <<rows, ended, dropped>>,
               \A s : Succeeds(r, s) => Succeeds(r, s)'
        PROVE  Kept(rows[i].session)'
    <3>1. PICK s : s = rows[i].session
      OBVIOUS
    <3>2. Kept(s)
      BY <1>1, <2>1, <3>1 DEF Issued
    <3>3. Kept(s)'
      BY <2>0, <2>1, <3>2, KeptUnlessRevoked
    <3>4. QED
      BY <2>1, <3>1, <3>3
  <2>2. CASE Call(r)
    <3>1. req[r].pc = "idle" /\ UNCHANGED <<rows, ended, dropped>>
      BY <2>2 DEF Call, Login, Refresh, Refuse, Arrive, vars, history
    <3>2. QED
      BY <2>1, <3>1 DEF Succeeds
  <2>3. CASE Hash(r) \/ FindUser(r)
    <3>1. /\ UNCHANGED <<rows, ended, dropped>>
          /\ req'[r].pc \in {"hash", "insert"}
          /\ req'[r].op = req[r].op /\ req'[r].stored = req[r].stored
      BY <2>3 DEF Hash, FindUser, TypeOK, RequestStates, history
    <3>2. QED
      BY <2>1, <3>1 DEF Succeeds
  <2>4. CASE Select(r) \/ Compare(r) \/ Guard(r) \/ LoadUser(r) \/ Blacklist(r)
    <3>1. /\ UNCHANGED <<rows, ended, dropped>>
          /\ req[r].pc \in {"select", "compare", "guard", "loadUser", "blacklist"}
      BY <2>4 DEF Select, Compare, Guard, LoadUser, Blacklist, history
    <3>2. QED
      BY <2>1, <3>1 DEF Succeeds
  <2>5. CASE Insert(r)
    <3>1. PICK n \in Ids \ Issued :
            rows' = [j \in Issued \cup {n} |->
                       IF j = n
                       THEN [user |-> req[r].user, iat |-> req[r].iat,
                             expiresAt |-> req[r].expiresAt, revoked |-> FALSE,
                             session |-> IF req[r].op = "login" THEN n
                                         ELSE rows[req[r].stored].session]
                       ELSE rows[j]]
      BY <2>5 DEF Insert
    <3>2. /\ Issued' = Issued \cup {n}
          /\ \A k \in Issued : rows'[k] = rows[k]
          /\ UNCHANGED <<ended, dropped>>
      BY <2>5, <3>1 DEF Issued, Insert, history
    <3>3. Carries(n, rows[n].session)'
      BY <3>1, <3>2 DEF Carries
    <3>4. CASE i = n
      BY <3>3, <3>4 DEF Kept
    <3>5. CASE i \in Issued
      <4>1. PICK s : s = rows[i].session
        OBVIOUS
      <4>2. Succeeds(r, s) => Carries(n, s)'
        BY <3>1, <3>3 DEF Succeeds
      <4>3. Kept(s)'
        BY <1>1, <2>0, <3>2, <3>5, <4>1, <4>2, KeptUnlessRevoked
      <4>4. QED
        BY <3>2, <3>5, <4>1, <4>3
    <3>6. QED
      BY <3>2, <3>4, <3>5
  <2>6. CASE RevokeFamily(r) \/ RevokeAll(r)
    <3>1. PICK u : u = req[r].user
      OBVIOUS
    <3>2. /\ Issued' = Issued /\ ended \subseteq ended' /\ dropped' = dropped
          /\ \A k \in Issued : rows[k].user # u => rows'[k] = rows[k]
          /\ \A k \in Issued : rows[k].user = u => rows[k].session \in ended'
      BY <1>0, <2>6, <3>1, RevokeRowsState DEF RevokeFamily, RevokeAll
    <3>3. PICK s : s = rows[i].session
      OBVIOUS
    <3>4. i \in Issued /\ rows'[i].session = s /\ Kept(s)
      BY <1>1, <2>0, <3>2, <3>3 DEF RowsGrow
    <3>5. CASE s \in ended \cup dropped
      BY <3>2, <3>4, <3>5 DEF Kept
    <3>6. ASSUME NEW k \in Ids, Carries(k, s)
          PROVE  s \in ended' \/ Carries(k, s)'
      BY <3>2, <3>6 DEF Carries
    <3>7. ASSUME NEW q \in Requests, Succeeds(q, s)
          PROVE  Succeeds(q, s)'
      <4>1. q # r
        BY <2>6, <3>7 DEF RevokeFamily, RevokeAll, Succeeds
      <4>2. req[q].stored \in Issued
        BY <3>7 DEF Succeeds, TypeOK, RequestOK, HoldsRow, Issuing
      <4>3. QED
        BY <2>0, <3>7, <4>1, <4>2 DEF Succeeds, RowsGrow
    <3>8. QED
      BY <3>4, <3>5, <3>6, <3>7 DEF Kept
  <2>7. CASE Revoke(r)
    <3>1. PICK k \in Issued : k = req[r].stored
      BY <2>7 DEF Revoke, TypeOK, RequestOK, HoldsRow
    <3>2. req[r].op = "refresh"
      BY <2>7 DEF Revoke, TypeOK, RequestOK, HoldsRow
    <3>3. /\ Issued' = Issued /\ UNCHANGED <<ended, dropped>>
          /\ \A j \in Issued \ {k} : rows'[j] = rows[j]
      BY <2>7, <3>1 DEF Revoke, Issued, TypeOK, history
    <3>4. PICK s : s = rows[i].session
      OBVIOUS
    <3>5. i \in Issued /\ rows'[i].session = s /\ Kept(s)
      BY <1>1, <2>0, <3>3, <3>4 DEF RowsGrow
    <3>6. rows[k].session = s => Succeeds(r, s)'
      BY <2>0, <2>7, <3>1, <3>2
      DEF Revoke, Goto, Succeeds, RowsGrow, TypeOK, RequestStates
    <3>7. ASSUME NEW j \in Ids, Carries(j, s)
          PROVE  Carries(j, s)' \/ Succeeds(r, s)'
      BY <3>3, <3>6, <3>7 DEF Carries
    <3>8. ASSUME NEW q \in Requests, Succeeds(q, s)
          PROVE  Succeeds(q, s)'
      <4>1. q # r
        BY <2>7, <3>8 DEF Revoke, Succeeds
      <4>2. req[q].stored \in Issued
        BY <3>8 DEF Succeeds, TypeOK, RequestOK, HoldsRow, Issuing
      <4>3. QED
        BY <2>0, <3>8, <4>1, <4>2 DEF Succeeds, RowsGrow
    <3>9. QED
      BY <3>3, <3>5, <3>7, <3>8 DEF Kept
  <2>8. CASE Abort(r)
    <3>1. PICK s : s = rows[i].session
      OBVIOUS
    <3>2. UNCHANGED <<rows, ended>> /\ dropped \subseteq dropped' /\ Kept(s)
      BY <1>1, <2>8, <3>1 DEF Abort, Issued
    <3>3. Succeeds(r, s) => s \in dropped'
      BY <2>8 DEF Abort, Succeeds, Issuing
    <3>4. Kept(s)'
      BY <2>0, <3>2, <3>3, KeptUnlessRevoked
    <3>5. QED
      BY <3>1, <3>2, <3>4
  <2>9. QED
    BY <1>2, <2>2, <2>3, <2>4, <2>5, <2>6, <2>7, <2>8 DEF Step
<1>3. CASE Tick \/ UNCHANGED vars \/ \E j \in Ids : Evict(j)
  <2>1. UNCHANGED <<rows, req, ended, dropped>>
    BY <1>3 DEF Tick, vars, Evict, history
  <2>2. PICK s : s = rows[i].session
    OBVIOUS
  <2>3. rows'[i].session = s /\ Kept(s)
    BY <1>1, <2>1, <2>2 DEF Issued
  <2>4. QED
    BY <2>1, <2>3 DEF Kept, Carries, Succeeds, Issued
<1>4. QED
  BY <1>2, <1>3 DEF Next

\* No interleaving of refreshes and logouts loses a session that was not ended,
\* unless a refresh of it fails after it has revoked its row.
THEOREM SessionsSurvive == Spec => []SessionKept
<1>1. Init => SessionKept
  BY DEF Init, SessionKept, Issued
<1>2. TypeOK /\ TypeOK' /\ SessionKept /\ [Next]_vars => SessionKept'
  BY SessionStep
<1>3. QED
  BY <1>1, <1>2, TypeCorrect, PTL DEF Spec

-----------------------------------------------------------------------------
(***************************************************************************)
(* Signing out.  Whether a request is a login is known from the moment it  *)
(* begins to issue tokens: no other request turns into one.                *)
(***************************************************************************)
LoginsIssue == \A r \in Requests : req[r].op = "login" => req[r].pc \in Issuing

Bringing == {"compare", "revoke", "findUser", "hash", "insert"}

LEMMA LoginsStep ==
  ASSUME TypeOK, LoginsIssue, [Next]_vars
  PROVE  LoginsIssue'
<1>1. ASSUME NEW r \in Requests, Call(r) \/ Step(r) \/ Abort(r)
      PROVE  LoginsIssue'
  <2>1. \A q \in Requests \ {r} : req'[q] = req[q]
    BY <1>1, StepTyped
  <2>2. CASE Call(r)
    <3>1. ASSUME NEW u \in Users, Login(r, u)
          PROVE  req'[r].pc = "hash"
      BY <3>1 DEF Login, Idle, TypeOK
    <3>2. ASSUME NEW i \in Issued, Refresh(r, i)
          PROVE  req'[r].op = "refresh"
      BY <3>2 DEF Refresh, Idle, TypeOK
    <3>3. ASSUME NEW i \in Issued, NEW op \in {"logout", "access"}, NEW h,
                 Arrive(r, i, op, h)
          PROVE  req'[r].op = op
      BY <3>3 DEF Arrive, Idle, TypeOK
    <3>4. req'[r].op = "login" => req'[r].pc \in Issuing
      BY <2>2, <3>1, <3>2, <3>3
      DEF Call, Refuse, vars, LoginsIssue, Issuing
    <3>5. QED
      BY <2>1, <3>4 DEF LoginsIssue, Issuing
  <2>3. CASE Step(r) \/ Abort(r)
    <3>1. \/ req'[r].op = "none"
          \/ req'[r].op = req[r].op /\ req[r].pc \notin Issuing
          \/ req'[r].op = req[r].op /\ req'[r].pc = "insert"
      BY <2>3
      DEF Step, Abort, Hash, Insert, Select, Compare, RevokeFamily, Revoke,
          FindUser, Guard, LoadUser, Blacklist, RevokeAll, Reply, Goto, Idle,
          TypeOK, RequestStates, Issuing
    <3>2. QED
      BY <2>1, <3>1 DEF LoginsIssue, Issuing
  <2>4. QED
    BY <1>1, <2>2, <2>3
<1>2. CASE Tick \/ UNCHANGED vars \/ \E j \in Ids : Evict(j)
  BY <1>2 DEF Tick, vars, Evict, LoginsIssue
<1>3. QED
  BY <1>1, <1>2 DEF Next

\* A step of r after which r is not bringing u back, and which stores no row
\* of u, leaves u signed out.
LEMMA StaysOut ==
  ASSUME RowsGrow, NEW r \in Requests, NEW u, SignedOut(u),
         \A q \in Requests \ {r} : req'[q] = req[q],
         req'[r].user = u => req'[r].pc \notin Bringing,
         \A i \in Issued' \ Issued : rows'[i].user # u
  PROVE  SignedOut(u)'
<1>1. Live(u)' = {}
  BY DEF SignedOut, Live, RowsGrow
<1>2. QED
  BY <1>1 DEF SignedOut, Bringing, Issuing

LEMMA OutStep ==
  ASSUME TypeOK, LoginsIssue, Next, NEW u \in Users,
         SignedOut(u), ~SignedOut(u)'
  PROVE  \E r \in Requests : req'[r].op = "login" /\ req'[r].user = u
                               /\ req[r].op # "login"
<1>1. ASSUME NEW r \in Requests, Call(r) \/ Step(r) \/ Abort(r),
             ~(req'[r].op = "login" /\ req'[r].user = u /\ req[r].op # "login")
      PROVE  SignedOut(u)'
  <2>1. RowsGrow /\ \A q \in Requests \ {r} : req'[q] = req[q]
    BY <1>1, StepTyped
  <2>2. req[r].user = u => req[r].pc \notin Bringing
    BY DEF SignedOut, Bringing, Issuing
  <2>3. \A i \in Issued' \ Issued : rows'[i].user # u
    <3>1. CASE Insert(r)
      BY <2>2, <3>1 DEF Insert, Issued, Bringing
    <3>2. CASE ~Insert(r)
      <4>1. Issued' = Issued
        BY <1>1, <3>2
        DEF Call, Login, Refresh, Refuse, Arrive, vars, Step, Hash, Select,
            Compare, RevokeFamily, Revoke, RevokeRows, FindUser, Guard,
            LoadUser, Blacklist, RevokeAll, Abort, Issued
      <4>2. QED
        BY <4>1
    <3>3. QED
      BY <3>1, <3>2
  <2>4. req'[r].user = u => req'[r].pc \notin Bringing
    <3>1. CASE Call(r)
      <4>1. ASSUME NEW v \in Users, Login(r, v)
            PROVE  req'[r].user # u
        <5>1. req'[r].op = "login" /\ req'[r].user = v
          BY <4>1 DEF Login, Idle, TypeOK
        <5>2. req[r].op # "login"
          BY <4>1 DEF Login, LoginsIssue, Issuing
        <5>3. QED
          BY <1>1, <5>1, <5>2
      <4>2. \/ \E v \in Users : Login(r, v)
            \/ req'[r].pc \in {"select", "guard"}
            \/ req' = req
        <5>1. ASSUME NEW i \in Issued, Refresh(r, i)
              PROVE  req'[r].pc = "select"
          BY <5>1 DEF Refresh, Idle, TypeOK
        <5>2. ASSUME NEW i \in Issued, NEW op, NEW h, Arrive(r, i, op, h)
              PROVE  req'[r].pc = "guard"
          BY <5>2 DEF Arrive, Idle, TypeOK
        <5>3. ASSUME NEW i \in Issued, Refuse(r, i)
              PROVE  req' = req
          BY <5>3 DEF Refuse, vars
        <5>4. QED
          BY <3>1, <5>1, <5>2, <5>3 DEF Call
      <4>3. QED
        BY <2>2, <4>1, <4>2 DEF Bringing
    <3>2. CASE Select(r)
      <4>1. req[r].user = u => Reply(r)
        BY <3>2 DEF Select, Newest, SignedOut
      <4>2. \/ Reply(r)
            \/ req'[r].user = req[r].user
        BY <3>2 DEF Select, TypeOK, RequestStates
      <4>3. Reply(r) => req'[r].pc = "idle"
        BY ReplyState DEF TypeOK, Shape
      <4>4. QED
        BY <4>1, <4>2, <4>3 DEF Bringing
    <3>3. CASE ~Select(r) /\ (Step(r) \/ Abort(r))
      <4>1. \/ req'[r].pc \notin Bringing
            \/ req'[r].user = req[r].user /\ req[r].pc \in Bringing
        BY <3>3
        DEF Step, Abort, Hash, Insert, Compare, RevokeFamily, Revoke,
            FindUser, Guard, LoadUser, Blacklist, RevokeAll, Reply, Goto, Idle,
            TypeOK, RequestStates, Bringing
      <4>2. QED
        BY <2>2, <4>1
    <3>4. QED
      BY <1>1, <3>1, <3>2, <3>3
  <2>5. QED
    BY <2>1, <2>3, <2>4, StaysOut
<1>2. ASSUME UNCHANGED <<rows, req>>
      PROVE  FALSE
  BY <1>2 DEF SignedOut, Live, Issued
<1>3. QED
  BY <1>1, <1>2 DEF Next, Evict, Tick

\* Only a login brings a signed-out user back, whatever refresh tokens clients
\* still hold, whatever fails, and whatever the stored hashes depend on.
THEOREM OnlyLoginSignsIn == Spec => SignedOutStays
<1>1. Init => LoginsIssue
  BY DEF Init, LoginsIssue, Idle
<1>2. TypeOK /\ LoginsIssue /\ [Next]_vars => LoginsIssue'
  BY LoginsStep
<1>3. TypeOK /\ LoginsIssue /\ [Next]_vars =>
        [\A u \in Users :
           SignedOut(u) /\ ~SignedOut(u)' =>
             \E r \in Requests : req'[r].op = "login" /\ req'[r].user = u
                                  /\ req[r].op # "login"]_vars
  BY OutStep
<1>4. QED
  BY <1>1, <1>2, <1>3, TypeCorrect, PTL DEF Spec, SignedOutStays


-----------------------------------------------------------------------------
(***************************************************************************)
(* One request at a time.  The run Sessions_logout_race finds a logout     *)
(* that a refresh outlives.  That takes two requests at once: by itself, a *)
(* refresh continues a session that has not been ended, since the row it   *)
(* selected was live.                                                      *)
(***************************************************************************)
SessionsOwned ==
  \A i \in Issued : /\ rows[i].session \in Issued
                    /\ rows[rows[i].session].user = rows[i].user
Continues(r) == HoldsRow(r) => rows[req[r].stored].session \notin ended

SerialInv ==
  /\ LogoutFinal
  /\ SessionsOwned
  /\ ended \subseteq Issued
  /\ \A r \in Requests : Continues(r)

\* A step that stores no row and ends no session.
LEMMA SerialQuiet ==
  ASSUME TypeOK, SerialInv, RowsGrow, Issued' = Issued, ended' = ended,
         \A r \in Requests : Continues(r)'
  PROVE  SerialInv'
<1>1. \A i \in Issued : /\ rows'[i].session = rows[i].session
                        /\ rows'[i].user = rows[i].user
                        /\ rows[i].revoked => rows'[i].revoked
  BY DEF RowsGrow
<1>2. LogoutFinal'
  BY <1>1 DEF SerialInv, LogoutFinal
<1>3. SessionsOwned'
  BY <1>1 DEF SerialInv, SessionsOwned
<1>4. QED
  BY <1>2, <1>3 DEF SerialInv

\* The rows of a user are revoked, and with them all rows of their sessions.
LEMMA SerialRevoked ==
  ASSUME TypeOK, SerialInv, NEW u, RevokeRows(u),
         \A r \in Requests : req'[r].pc = "idle"
  PROVE  SerialInv'
<1>1. /\ Issued' = Issued /\ RowsGrow
      /\ \A i \in Issued : rows[i].user = u => rows'[i].revoked
  BY RevokeRowsState DEF TypeOK, Shape
<1>2. \A i \in Issued : /\ rows'[i].session = rows[i].session
                        /\ rows'[i].user = rows[i].user
                        /\ rows[i].revoked => rows'[i].revoked
  BY <1>1 DEF RowsGrow
<1>3. SessionsOwned'
  BY <1>1, <1>2 DEF SerialInv, SessionsOwned
<1>4. \A s \in ended' :
        s \in ended \/ \E k \in Issued : rows[k].user = u /\ rows[k].session = s
  BY DEF RevokeRows
<1>5. ended' \subseteq Issued'
  BY <1>1, <1>4 DEF SerialInv, SessionsOwned
<1>6. LogoutFinal'
  <2>1. ASSUME NEW i \in Issued, rows[i].session \in ended'
        PROVE  rows'[i].revoked
    <3>1. CASE rows[i].session \in ended
      BY <1>2, <3>1 DEF SerialInv, LogoutFinal
    <3>2. CASE \E k \in Issued : rows[k].user = u
                                 /\ rows[k].session = rows[i].session
      BY <1>1, <3>2 DEF SerialInv, SessionsOwned
    <3>3. QED
      BY <1>4, <2>1, <3>1, <3>2
  <2>2. QED
    BY <1>1, <1>2, <2>1 DEF LogoutFinal
<1>7. \A r \in Requests : Continues(r)'
  BY DEF Continues, HoldsRow, Issuing
<1>8. QED
  BY <1>3, <1>5, <1>6, <1>7 DEF SerialInv

LEMMA SerialStep ==
  ASSUME \A q, r \in Requests : q = r, TypeOK, SerialInv, [Next]_vars
  PROVE  SerialInv'
<1>1. ASSUME NEW r \in Requests, Call(r) \/ Step(r) \/ Abort(r)
      PROVE  SerialInv'
  <2>0. /\ Shape /\ RequestOK(r) /\ Continues(r) /\ RowsGrow /\ Shape'
        /\ \A q \in Requests : q = r
    BY <1>1, StepTyped DEF SerialInv, TypeOK, Shape
  <2>1. ASSUME UNCHANGED <<rows, ended>>, Continues(r)'
        PROVE  SerialInv'
    BY <2>0, <2>1, SerialQuiet DEF Issued
  <2>2. ASSUME UNCHANGED <<rows, ended>>, Reply(r)
        PROVE  SerialInv'
    <3>1. req'[r].pc = "idle"
      BY <2>0, <2>2, ReplyState
    <3>2. QED
      BY <2>1, <2>2, <3>1 DEF Continues, HoldsRow, Issuing
  <2>3. ASSUME UNCHANGED <<rows, ended>>,
               HoldsRow(r)' => HoldsRow(r) /\ req'[r].stored = req[r].stored
        PROVE  SerialInv'
    BY <2>0, <2>1, <2>3 DEF Continues
  <2>4. CASE Call(r)
    <3>2. CASE \E u \in Users : Login(r, u)
      <4>1. req'[r].pc = "hash" /\ req'[r].op = "login"
        BY <2>0, <3>2 DEF Login, Idle, Shape
      <4>2. QED
        BY <2>3, <3>2, <4>1 DEF Login, HoldsRow, Issuing, history
    <3>3. CASE \E i \in Issued : Refresh(r, i)
      <4>1. req'[r].pc = "select"
        BY <2>0, <3>3 DEF Refresh, Idle, Shape
      <4>2. QED
        BY <2>3, <3>3, <4>1 DEF Refresh, HoldsRow, Issuing, history
    <3>4. CASE \E i \in Issued, op \in {"logout", "access"},
                  h \in Headers \cup {"none"} : Arrive(r, i, op, h)
      <4>1. req'[r].pc = "guard"
        BY <2>0, <3>4 DEF Arrive, Idle, Shape
      <4>2. QED
        BY <2>3, <3>4, <4>1 DEF Arrive, HoldsRow, Issuing, history
    <3>5. CASE \E i \in Issued : Refuse(r, i)
      BY <2>3, <3>5 DEF Refuse, vars, HoldsRow
    <3>6. QED
      BY <2>4, <3>2, <3>3, <3>4, <3>5 DEF Call
  <2>5. CASE Abort(r)
    BY <2>2, <2>5 DEF Abort
  <2>6. CASE Hash(r)
    <3>1. /\ req[r].pc = "hash" /\ req'[r].pc = "insert"
          /\ req'[r].op = req[r].op /\ req'[r].stored = req[r].stored
          /\ UNCHANGED <<rows, ended>>
      BY <2>0, <2>6 DEF Hash, Shape, RequestStates, history
    <3>2. QED
      BY <2>3, <3>1 DEF HoldsRow, Issuing
  <2>7. CASE Insert(r)
    <3>1. PICK i \in Ids \ Issued :
            rows' = [j \in Issued \cup {i} |->
                  IF j = i
                  THEN [user |-> req[r].user, iat |-> req[r].iat,
                        expiresAt |-> req[r].expiresAt, revoked |-> FALSE,
                        session |-> IF req[r].op = "login" THEN i
                                    ELSE rows[req[r].stored].session]
                  ELSE rows[j]]
      BY <2>7 DEF Insert
    <3>2. /\ Issued' = Issued \cup {i} /\ ended' = ended
          /\ rows'[i].user = req[r].user
          /\ rows'[i].session = IF req[r].op = "login" THEN i
                                ELSE rows[req[r].stored].session
          /\ \A j \in Issued : rows'[j] = rows[j]
      BY <2>7, <3>1 DEF Insert, Issued, history
    <3>3. \/ req[r].op = "login" /\ rows'[i].session = i
          \/ /\ HoldsRow(r) /\ req[r].stored \in Issued
             /\ rows[req[r].stored].user = req[r].user
             /\ rows'[i].session = rows[req[r].stored].session
      BY <2>0, <2>7, <3>2 DEF Insert, RequestOK, HoldsRow, Issuing
    <3>4. rows'[i].session \notin ended
      BY <2>0, <3>3 DEF Continues, SerialInv
    <3>5. LogoutFinal'
      BY <3>2, <3>4 DEF SerialInv, LogoutFinal
    <3>6. SessionsOwned'
      <4>1. rows'[i].session \in Issued' /\ rows'[rows'[i].session].user = req[r].user
        BY <3>2, <3>3 DEF SerialInv, SessionsOwned
      <4>2. ASSUME NEW j \in Issued
            PROVE  /\ rows'[j].session \in Issued'
                   /\ rows'[rows'[j].session].user = rows'[j].user
        BY <3>2 DEF SerialInv, SessionsOwned
      <4>3. QED
        BY <3>2, <4>1, <4>2 DEF SessionsOwned
    <3>7. req'[r].pc = "idle"
      BY <2>0, <2>7, ReplyState DEF Insert
    <3>8. QED
      BY <2>0, <3>2, <3>5, <3>6, <3>7
         DEF SerialInv, Continues, HoldsRow, Issuing
  <2>8. CASE Select(r)
    <3>1. ASSUME NEW i \in Newest(req[r].user),
                 req' = [req EXCEPT ![r].pc = "compare", ![r].stored = i]
          PROVE  SerialInv'
      <4>1. i \in Issued /\ ~rows[i].revoked
        BY DEF Newest, Live
      <4>2. req'[r].stored = i
        BY <2>0, <3>1 DEF Shape, RequestStates
      <4>3. rows[i].session \notin ended
        BY <4>1 DEF SerialInv, LogoutFinal
      <4>4. UNCHANGED <<rows, ended>>
        BY <2>8 DEF Select, history
      <4>5. QED
        BY <2>1, <4>2, <4>3, <4>4 DEF Continues
    <3>2. QED
      BY <2>2, <2>8, <3>1 DEF Select, history
  <2>9. CASE Compare(r)
    <3>1. /\ req[r].pc = "compare" /\ req'[r].stored = req[r].stored
          /\ UNCHANGED <<rows, ended>>
      BY <2>0, <2>9, GotoState DEF Compare, Stages, history
    <3>2. QED
      BY <2>3, <3>1 DEF HoldsRow
  <2>10. CASE RevokeFamily(r) \/ RevokeAll(r)
    <3>1. RevokeRows(req[r].user) /\ Reply(r)
      BY <2>10 DEF RevokeFamily, RevokeAll
    <3>2. \A q \in Requests : req'[q].pc = "idle"
      BY <2>0, <3>1, ReplyState
    <3>3. QED
      BY <3>1, <3>2, SerialRevoked
  <2>11. CASE Revoke(r)
    <3>1. /\ req[r].pc = "revoke" /\ req'[r].stored = req[r].stored
          /\ ended' = ended /\ Issued' = Issued
      BY <2>0, <2>11, GotoState DEF Revoke, Stages, Issued, Shape, history
    <3>2. HoldsRow(r) /\ req[r].stored \in Issued
      BY <2>0, <3>1 DEF HoldsRow, RequestOK
    <3>3. Continues(r)'
      BY <2>0, <3>1, <3>2 DEF Continues, RowsGrow
    <3>4. QED
      BY <2>0, <3>1, <3>3, SerialQuiet
  <2>12. CASE FindUser(r)
    <3>1. /\ req[r].pc = "findUser" /\ req'[r].stored = req[r].stored
          /\ UNCHANGED <<rows, ended>>
      BY <2>0, <2>12 DEF FindUser, Shape, RequestStates, history
    <3>2. QED
      BY <2>3, <3>1 DEF HoldsRow
  <2>13. CASE Guard(r)
    <3>1. UNCHANGED <<rows, ended>> /\ (Reply(r) \/ Goto(r, "loadUser"))
      BY <2>13 DEF Guard, history
    <3>2. CASE Goto(r, "loadUser")
      BY <2>0, <2>3, <3>1, <3>2, GotoState DEF HoldsRow, Issuing, Stages
    <3>3. QED
      BY <2>2, <3>1, <3>2
  <2>14. CASE LoadUser(r)
    <3>1. UNCHANGED <<rows, ended>>
      BY <2>14 DEF LoadUser, history
    <3>2. Reply(r) \/ req'[r].pc \in {"blacklist", "revokeAll"}
      BY <2>0, <2>14, GotoState DEF LoadUser, Stages, Shape, RequestStates
    <3>3. QED
      BY <2>2, <2>3, <3>1, <3>2 DEF HoldsRow, Issuing
  <2>15. CASE Blacklist(r)
    BY <2>0, <2>3, <2>15, GotoState DEF Blacklist, HoldsRow, Issuing, Stages
  <2>16. QED
    BY <1>1, <2>4, <2>5, <2>6, <2>7, <2>8, <2>9, <2>10, <2>11, <2>12, <2>13,
       <2>14, <2>15 DEF Step
<1>2. CASE Tick \/ UNCHANGED vars \/ \E j \in Ids : Evict(j)
  <2>1. UNCHANGED <<rows, req, ended>>
    BY <1>2 DEF Tick, vars, Evict, history
  <2>2. QED
    BY <2>1
    DEF SerialInv, LogoutFinal, SessionsOwned, Continues, HoldsRow, Issued
<1>3. QED
  BY <1>1, <1>2 DEF Next

\* With one request at a time a logout is final: no row of a session that it
\* ended is live again, also when requests fail half way and Redis drops keys.
THEOREM OneAtATimeLogoutFinal ==
  ASSUME \A q, r \in Requests : q = r
  PROVE  Spec => []LogoutFinal
<1>1. Init => SerialInv
  BY DEF Init, SerialInv, LogoutFinal, SessionsOwned, Continues, HoldsRow, Idle,
         Issued, Issuing
<1>2. TypeOK /\ SerialInv /\ [Next]_vars => SerialInv'
  BY SerialStep
<1>3. SerialInv => LogoutFinal
  BY DEF SerialInv
<1>4. QED
  BY <1>1, <1>2, <1>3, TypeCorrect, PTL DEF Spec
=============================================================================
