------------------------------ MODULE Sessions ------------------------------
(***************************************************************************)
(* Tokens and sign-out: AuthService.refresh, logout and generateTokens,    *)
(* and the guard (JwtStrategy.validate under JwtAuthGuard) that every      *)
(* authenticated route runs.                                               *)
(*                                                                         *)
(* A login or a refresh hands out an access token and a refresh token and  *)
(* stores one row of refresh_tokens; one id stands for the row and for     *)
(* both tokens (the access token's jti).  Redis holds blacklist:<jti> keys *)
(* that carry a TTL.                                                       *)
(*                                                                         *)
(* Time is a second and a position within it, because tokens expire on     *)
(* whole seconds (exp is compared with the floor of the clock) while Redis *)
(* counts a TTL from the instant of the SET.                               *)
(***************************************************************************)
EXTENDS Naturals, FiniteSets

CONSTANTS
  Requests,      \* requests that may be in flight together
  Users,
  Ids,           \* bound: token pairs that are ever issued
  None,          \* no user, no token
  AccessTtl,     \* JWT_EXPIRES_IN, in seconds
  RefreshTtl,    \* JWT_REFRESH_EXPIRES_IN, in seconds
  SubSeconds,    \* positions of the clock within a second
  MaxSec,        \* bound: the second the clock stops at
  Headers,       \* spellings of the authorization header of a logout
  HashedClaims,  \* claims of a refresh token that its stored hash depends on
  MayEvict,      \* Redis may drop a key to free memory (allkeys-lru)
  MayFail        \* a command may fail, or the instance stop, under a request

\* bcrypt hashes the first 72 bytes of its input.  Of a refresh token these
\* are the header and 26 bytes of the payload, which end inside the "sub"
\* claim when ids are UUIDs: "iat" and the signature play no part, and the
\* deployed value is {"sub"}.
ASSUME HashAssumption == {"sub"} \subseteq HashedClaims
\* "other" stands for every spelling but "Bearer <token>" that passport takes:
\* the scheme in another case, or other blanks after it.
ASSUME HeadersAssumption == Headers \subseteq {"Bearer", "other"}
ASSUME NoneAssumption == None \notin Users \cup Ids
ASSUME TimeAssumption ==
  /\ AccessTtl \in Nat \ {0}
  /\ RefreshTtl \in Nat \ {0}
  /\ SubSeconds \in Nat \ {0}
  /\ MaxSec \in Nat
ASSUME SwitchesAssumption == MayEvict \in BOOLEAN /\ MayFail \in BOOLEAN

VARIABLES
  now,        \* the clock of the server
  rows,       \* the refresh_tokens table, by id
  blacklist,  \* instant at which each blacklist key expires, by jti
  req,        \* the requests in flight
  loggedOut,  \* history: logouts that were answered, by token and header
  ended,      \* history: sessions ended by revoking all rows of their user
  torn,       \* history: tokens of logouts that failed before their UPDATE
  lost,       \* history: tokens whose blacklist key Redis dropped
  dropped     \* history: sessions of refreshes that failed after a revocation

vars == <<now, rows, blacklist, req, loggedOut, ended, torn, lost, dropped>>
history == <<loggedOut, ended, torn, lost, dropped>>

Instants == [sec : Nat, sub : 0..SubSeconds - 1]
Later(a, b) == a.sec > b.sec \/ (a.sec = b.sec /\ a.sub > b.sub)
After(seconds) == [now EXCEPT !.sec = @ + seconds]

\* A row of refresh_tokens.  iat is the second its tokens were signed in,
\* and session, which the code does not store, the login it descends from.
Rows == [user : Users, iat : Nat, expiresAt : Instants, revoked : BOOLEAN,
         session : Ids]

Stages ==
  {"idle", "select", "compare", "revokeFamily", "revoke", "findUser", "hash",
   "insert", "guard", "loadUser", "blacklist", "revokeAll"}

\* The stages of generateTokens.
Issuing == {"hash", "insert"}

\* What a request carries across its awaits.
RequestStates ==
  [pc : Stages, op : {"none", "login", "refresh", "logout", "access"},
   user : Users \cup {None}, token : Ids \cup {None},
   header : Headers \cup {"none"},
   stored : Ids \cup {None}, iat : Nat, expiresAt : Instants, ttl : Nat]

Epoch == [sec |-> 0, sub |-> 0]

Idle ==
  [pc |-> "idle", op |-> "none", user |-> None, token |-> None,
   header |-> "none", stored |-> None, iat |-> 0, expiresAt |-> Epoch, ttl |-> 0]

\* The request is answered, whatever the answer.
Reply(r) == req' = [req EXCEPT ![r] = Idle]
Goto(r, stage) == req' = [req EXCEPT ![r].pc = stage]

Issued == DOMAIN rows
Live(u) == {i \in Issued : rows[i].user = u /\ ~rows[i].revoked}

\* Mutant of Newest: the query forgets revoked = false.
NewestOfAll(u) ==
  LET All == {i \in Issued : rows[i].user = u} IN
  {i \in All : \A k \in All : ~Later(rows[k].expiresAt, rows[i].expiresAt)}

\* The row findOne() returns for user u, if any: of the live rows, whichever
\* expires last.  The token presented plays no part in the choice.
Newest(u) ==
  {i \in Live(u) :
     \A k \in Live(u) : ~Later(rows[k].expiresAt, rows[i].expiresAt)}

AccessExp(i) == rows[i].iat + AccessTtl
RefreshExp(i) == rows[i].iat + RefreshTtl

Blacklisted(j) == j \in DOMAIN blacklist /\ Later(blacklist[j], now)

\* Room for one more pair, those being issued counted.
MayIssue ==
  Cardinality(Ids \ Issued) >
    Cardinality({r \in Requests : req[r].op \in {"login", "refresh"}})

\* Mutant of RevokeRows: revokes the newest row only.
RevokeNewest(u) ==
  /\ rows' = [i \in Issued |-> IF i \in Newest(u)
                               THEN [rows[i] EXCEPT !.revoked = TRUE]
                               ELSE rows[i]]
  /\ ended' = ended \cup
       {rows[i].session : i \in {k \in Issued : rows[k].user = u}}

\* UPDATE refresh_tokens SET revoked = true for the rows of a user; with
\* and without "AND revoked = false" it has the same effect.
RevokeRows(u) ==
  /\ rows' = [i \in Issued |-> IF rows[i].user = u
                               THEN [rows[i] EXCEPT !.revoked = TRUE]
                               ELSE rows[i]]
  /\ ended' = ended \cup
       {rows[i].session : i \in {k \in Issued : rows[k].user = u}}

Init ==
  /\ now = Epoch
  /\ rows = [i \in {} |-> {}]
  /\ blacklist = [j \in {} |-> {}]
  /\ req = [r \in Requests |-> Idle]
  /\ loggedOut = {}
  /\ ended = {}
  /\ torn = {}
  /\ lost = {}
  /\ dropped = {}

-----------------------------------------------------------------------------
\* Logging in and issuing tokens.

\* A login whose password was accepted (see LoginAttempts) signs its tokens
\* and starts to hash the refresh token.
Login(r, u) ==
  /\ req[r].pc = "idle"
  /\ MayIssue
  /\ req' = [req EXCEPT ![r] = [Idle EXCEPT
               !.pc = "hash", !.op = "login", !.user = u, !.iat = now.sec]]
  /\ UNCHANGED <<now, rows, blacklist, history>>

\* bcrypt.hash() is done; the expiry of the row is taken from the clock now.
Hash(r) ==
  /\ req[r].pc = "hash"
  /\ req' = [req EXCEPT ![r].pc = "insert", ![r].expiresAt = After(RefreshTtl)]
  /\ UNCHANGED <<now, rows, blacklist, history>>

\* INSERT of the row; only then do the tokens reach the client.
Insert(r) ==
  /\ req[r].pc = "insert"
  /\ \E i \in Ids \ Issued :
       rows' = [j \in Issued \cup {i} |->
                  IF j = i
                  THEN [user |-> req[r].user, iat |-> req[r].iat,
                        expiresAt |-> req[r].expiresAt, revoked |-> FALSE,
                        session |-> IF req[r].op = "login" THEN i
                                    ELSE rows[req[r].stored].session]
                  ELSE rows[j]]
  /\ Reply(r)
  /\ UNCHANGED <<now, blacklist, history>>

-----------------------------------------------------------------------------
\* Refreshing.

\* verify() of the signature and expiry of the refresh token of pair i; see
\* Refuse for one that has expired.
Refresh(r, i) ==
  /\ req[r].pc = "idle"
  /\ MayIssue
  /\ now.sec < RefreshExp(i)
  /\ req' = [req EXCEPT ![r] = [Idle EXCEPT
               !.pc = "select", !.op = "refresh", !.user = rows[i].user,
               !.token = i]]
  /\ UNCHANGED <<now, rows, blacklist, history>>

\* SELECT of the row.  It asks for revoked = false, so the branch of the code
\* that answers a revoked row by revoking the family is never taken.
Select(r) ==
  LET u == req[r].user IN
  /\ req[r].pc = "select"
  /\ \/ /\ Live(u) = {}
        /\ Reply(r)
     \/ \E i \in Newest(u) :
          req' = [req EXCEPT ![r].pc = "compare", ![r].stored = i]
  /\ UNCHANGED <<now, rows, blacklist, history>>

\* Whether bcrypt finds the token of pair i equal to the hash of row k; both
\* belong to the same user.
Matches(i, k) == "iat" \in HashedClaims => rows[i].iat = rows[k].iat

\* bcrypt.compare() of the token presented with the row selected.
Compare(r) ==
  /\ req[r].pc = "compare"
  /\ Goto(r, IF Matches(req[r].token, req[r].stored) THEN "revoke"
             ELSE "revokeFamily")
  /\ UNCHANGED <<now, rows, blacklist, history>>

\* A mismatch revokes every row of the user.
RevokeFamily(r) ==
  /\ req[r].pc = "revokeFamily"
  /\ RevokeRows(req[r].user)
  /\ Reply(r)
  /\ UNCHANGED <<now, blacklist, loggedOut, torn, lost, dropped>>

\* Mutant of Revoke: an UPDATE by user instead of a save() of the row.
RevokeByUser(r) ==
  /\ req[r].pc = "revoke"
  /\ rows' = [i \in Issued |->
                [rows[i] EXCEPT !.revoked = @ \/ rows[i].user = req[r].user]]
  /\ Goto(r, "findUser")
  /\ UNCHANGED <<now, blacklist, history>>

\* save() of the selected row, revoked.
Revoke(r) ==
  /\ req[r].pc = "revoke"
  /\ rows' = [rows EXCEPT ![req[r].stored].revoked = TRUE]
  /\ Goto(r, "findUser")
  /\ UNCHANGED <<now, blacklist, history>>

\* findById(); then the new tokens are signed.
FindUser(r) ==
  /\ req[r].pc = "findUser"
  /\ req' = [req EXCEPT ![r].pc = "hash", ![r].iat = now.sec]
  /\ UNCHANGED <<now, rows, blacklist, history>>

-----------------------------------------------------------------------------
\* Authenticated requests and logging out.

\* An authenticated request arrives with the access token of pair i; passport
\* checks its signature and expiry; see Refuse.  How its header is spelled
\* matters to a logout only.
Arrive(r, i, op, header) ==
  /\ req[r].pc = "idle"
  /\ now.sec < AccessExp(i)
  /\ req' = [req EXCEPT ![r] = [Idle EXCEPT
               !.pc = "guard", !.op = op, !.user = rows[i].user, !.token = i,
               !.header = header]]
  /\ UNCHANGED <<now, rows, blacklist, history>>

\* A refresh or an authenticated request with an expired token is refused
\* before anything is read or written.
Refuse(r, i) ==
  /\ req[r].pc = "idle"
  /\ now.sec >= AccessExp(i) \/ now.sec >= RefreshExp(i)
  /\ UNCHANGED vars

\* Mutant of Guard: the route that logs out does not look at the blacklist.
GuardNotForLogout(r) ==
  /\ req[r].pc = "guard"
  /\ IF Blacklisted(req[r].token) /\ req[r].op # "logout"
     THEN Reply(r)
     ELSE Goto(r, "loadUser")
  /\ UNCHANGED <<now, rows, blacklist, history>>

\* GET of the blacklist key.
Guard(r) ==
  /\ req[r].pc = "guard"
  /\ IF Blacklisted(req[r].token)
     THEN Reply(r)
     ELSE Goto(r, "loadUser")
  /\ UNCHANGED <<now, rows, blacklist, history>>

\* Whether logout() finds a jti: the controller cuts off "Bearer " and nothing
\* else, and decode() gives null for anything but a bare token.
Decodes(header) == header = "Bearer"

\* findById() of the guard, then the handler.  A logout takes the remaining
\* lifetime of its token; it skips the blacklist when it finds no jti or no
\* time is left.  Any other route is answered.
LoadUser(r) ==
  LET exp == AccessExp(req[r].token) IN
  /\ req[r].pc = "loadUser"
  /\ \/ /\ req[r].op = "access"
        /\ Reply(r)
     \/ /\ req[r].op = "logout"
        /\ IF Decodes(req[r].header) /\ exp > now.sec
           THEN req' = [req EXCEPT ![r].pc = "blacklist",
                                   ![r].ttl = exp - now.sec]
           ELSE Goto(r, "revokeAll")
  /\ UNCHANGED <<now, rows, blacklist, history>>

\* Mutant of Blacklist: a second is lost in the TTL.
BlacklistShort(r) ==
  /\ req[r].pc = "blacklist"
  /\ blacklist' = [j \in DOMAIN blacklist \cup {req[r].token} |->
                     IF j = req[r].token THEN After(req[r].ttl - 1)
                     ELSE blacklist[j]]
  /\ Goto(r, "revokeAll")
  /\ lost' = lost \ {req[r].token}
  /\ UNCHANGED <<now, rows, loggedOut, ended, torn, dropped>>

\* Mutant of Blacklist: the key is named after the user, not the token.
BlacklistUser(r) ==
  /\ req[r].pc = "blacklist"
  /\ blacklist' = [j \in DOMAIN blacklist \cup {req[r].user} |->
                     IF j = req[r].user THEN After(req[r].ttl)
                     ELSE blacklist[j]]
  /\ Goto(r, "revokeAll")
  /\ lost' = lost \ {req[r].token}
  /\ UNCHANGED <<now, rows, loggedOut, ended, torn, dropped>>

\* SET blacklist:<jti> EX ttl.
Blacklist(r) ==
  /\ req[r].pc = "blacklist"
  /\ blacklist' = [j \in DOMAIN blacklist \cup {req[r].token} |->
                     IF j = req[r].token THEN After(req[r].ttl)
                     ELSE blacklist[j]]
  /\ Goto(r, "revokeAll")
  /\ lost' = lost \ {req[r].token}
  /\ UNCHANGED <<now, rows, loggedOut, ended, torn, dropped>>

\* UPDATE of every row of the user; the logout is then answered.
RevokeAll(r) ==
  /\ req[r].pc = "revokeAll"
  /\ RevokeRows(req[r].user)
  /\ loggedOut' = loggedOut \cup {<<req[r].token, req[r].header>>}
  /\ Reply(r)
  /\ UNCHANGED <<now, blacklist, torn, lost, dropped>>

-----------------------------------------------------------------------------
\* The environment.

Tick ==
  /\ now.sec < MaxSec
  /\ now' = IF now.sub + 1 < SubSeconds THEN [now EXCEPT !.sub = @ + 1]
            ELSE [sec |-> now.sec + 1, sub |-> 0]
  /\ UNCHANGED <<rows, blacklist, req, history>>

\* Redis drops a key under memory pressure.
Evict(j) ==
  /\ MayEvict
  /\ Blacklisted(j)
  /\ blacklist' = [k \in DOMAIN blacklist \ {j} |-> blacklist[k]]
  /\ lost' = lost \cup {j}
  /\ UNCHANGED <<now, rows, req, loggedOut, ended, torn, dropped>>

\* A query or command of a request fails, or its instance stops.
Abort(r) ==
  /\ MayFail
  /\ req[r].pc # "idle"
  /\ Reply(r)
  /\ torn' = IF req[r].pc = "revokeAll" /\ Decodes(req[r].header)
             THEN torn \cup {req[r].token} ELSE torn
  /\ dropped' = IF req[r].op = "refresh" /\ req[r].pc \in {"findUser"} \cup Issuing
                THEN dropped \cup {rows[req[r].stored].session} ELSE dropped
  /\ UNCHANGED <<now, rows, blacklist, loggedOut, ended, lost>>

Call(r) ==
  \/ \E u \in Users : Login(r, u)
  \/ \E i \in Issued : \/ Refresh(r, i) \/ Refuse(r, i)
                       \/ Arrive(r, i, "access", "none")
                       \/ \E h \in Headers : Arrive(r, i, "logout", h)

Step(r) ==
  \/ Hash(r) \/ Insert(r)
  \/ Select(r) \/ Compare(r) \/ RevokeFamily(r) \/ Revoke(r) \/ FindUser(r)
  \/ Guard(r) \/ LoadUser(r) \/ Blacklist(r) \/ RevokeAll(r)

Next ==
  \/ \E r \in Requests : Call(r) \/ Step(r) \/ Abort(r)
  \/ \E j \in Ids : Evict(j)
  \/ Tick

Spec == Init /\ [][Next]_vars
-----------------------------------------------------------------------------
\* The stages in which a request holds the row it selected.
HoldsRow(r) ==
  \/ req[r].pc \in {"compare", "revokeFamily", "revoke", "findUser"}
  \/ req[r].pc \in Issuing /\ req[r].op = "refresh"

\* What the stages of a request have given it: a token that was issued, to
\* the user of the request, and from "compare" on a row of the same user.
RequestOK(r) ==
  /\ req[r].pc # "idle" => req[r].user \in Users
  /\ req[r].pc # "idle" /\ req[r].op # "login" =>
       /\ req[r].token \in Issued
       /\ rows[req[r].token].user = req[r].user
  /\ HoldsRow(r) =>
       /\ req[r].op = "refresh"
       /\ req[r].stored \in Issued
       /\ rows[req[r].stored].user = req[r].user
  /\ req[r].pc = "select" => req[r].op = "refresh"
  /\ req[r].pc \in Issuing => req[r].op \in {"login", "refresh"}
  /\ req[r].pc \in {"guard", "loadUser"} => req[r].op \in {"logout", "access"}
  /\ req[r].pc \in {"blacklist", "revokeAll"} => req[r].op = "logout"
  /\ req[r].pc # "idle" /\ req[r].op = "logout" => req[r].header \in Headers
  /\ req[r].pc = "blacklist" => Decodes(req[r].header)

\* Every variable has its type, the requests of auth.service.ts have what
\* their stage needs, and only issued tokens are blacklisted.
TypeOK ==
  /\ now \in Instants
  /\ Issued \subseteq Ids /\ rows \in [Issued -> Rows]
  /\ DOMAIN blacklist \subseteq Issued
  /\ blacklist \in [DOMAIN blacklist -> Instants]
  /\ req \in [Requests -> RequestStates]
  /\ loggedOut \subseteq Issued \X Headers
  /\ torn \subseteq Issued
  /\ ended \cup lost \cup dropped \subseteq Ids
  /\ \A r \in Requests : RequestOK(r)

\* Tokens that a logout has read and blacklisted, if any of their time was
\* left: it was answered, or failed before it revoked the rows.  Only these are
\* cut off, although DESIGN.md:180 says of every logged-out token that Redis
\* closes the gap until its expiry.
Cut == {j \in Issued : \E h \in Headers : <<j, h>> \in loggedOut /\ Decodes(h)}
         \cup torn

\* Redis and the clock of the tokens together close the gap a stateless token
\* leaves, as far as Redis keeps its keys: once a logout that found a jti in
\* its header is over, the key is there until the token expires, although its
\* TTL was computed from a clock read earlier and rounded down, and although no
\* key is set when it was 0.
BlacklistCovers ==
  \A j \in Cut : now.sec < AccessExp(j) => Blacklisted(j) \/ j \in lost

\* The guard reads the clock and the blacklist at different instants, and a
\* key may expire in between: such a token can pass only if Redis lost its
\* key, or if it reached the guard before its expiry and was looked up after.
\* The second try of a logout that failed half way is no exception: it is
\* refused, and the rows stay as they are.
AccessCutOff ==
  [][\A r \in Requests :
       req[r].pc = "guard" /\ req'[r].pc = "loadUser" =>
         \/ req[r].token \notin Cut
         \/ now.sec >= AccessExp(req[r].token)
         \/ req[r].token \in lost]_vars

\* The two halves of a logout, in Redis and in PostgreSQL, come apart only by
\* a failure in between: a token is blacklisted and the row issued with it is
\* live only while a logout with it is between the two, or if one failed there.
LogoutComplete ==
  \A j \in DOMAIN blacklist :
    \/ rows[j].revoked
    \/ \E r \in Requests : /\ req[r].pc = "revokeAll" /\ req[r].token = j
                           /\ Decodes(req[r].header)
    \/ j \in torn

\* The live rows of a session, and the refreshes that have revoked its row
\* and will store its successor.
Carriers(s) ==
  {i \in Issued : rows[i].session = s /\ ~rows[i].revoked}
Successors(s) ==
  {r \in Requests : /\ req[r].op = "refresh"
                    /\ req[r].pc \in {"findUser"} \cup Issuing
                    /\ rows[req[r].stored].session = s}

\* Refreshes that race revoke each other's rows, but between them never drop
\* a session: until all rows of the user are revoked, or a refresh of it fails
\* between its two writes, a live row of it exists or is about to be stored.
SessionKept ==
  \A s \in {rows[i].session : i \in Issued} :
    \/ s \in ended \cup dropped
    \/ Carriers(s) # {}
    \/ Successors(s) # {}

\* A user without a live row and without a request about to store one.
SignedOut(u) ==
  /\ Live(u) = {}
  /\ \A r \in Requests :
       req[r].user = u =>
         req[r].pc \notin {"compare", "revoke", "findUser"} \cup Issuing

\* Only a password brings a user back: whatever refresh tokens are still in
\* the hands of clients, the rows of a user who is signed out stay revoked
\* until a login of that user.
SignedOutStays ==
  [][\A u \in Users :
       SignedOut(u) /\ ~SignedOut(u)' =>
         \E r \in Requests : req'[r].op = "login" /\ req'[r].user = u
                              /\ req[r].op # "login"]_vars

\* DESIGN.md:176: a logout revokes the refresh tokens.  No row of a session
\* it ended is live.
LogoutFinal ==
  \A i \in Issued : rows[i].session \in ended => rows[i].revoked

\* auth.service.ts:137, "a previously revoked token was reused": a refresh
\* token whose row is revoked does not pass the comparison.
ReuseRefused ==
  [][\A r \in Requests :
       req[r].pc = "compare" /\ req'[r].pc = "revoke" =>
         ~rows[req[r].token].revoked]_vars
=============================================================================
