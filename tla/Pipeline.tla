------------------------------ MODULE Pipeline ------------------------------
(***************************************************************************)
(* What every request goes through before and after its handler: the       *)
(* throttler, the guards, the metrics interceptor, the validation pipe and *)
(* the exception filter, in the order NestJS runs them, in instances of    *)
(* the API that share PostgreSQL and Redis, which go down and come back.   *)
(*                                                                         *)
(* Three routes stand for the kinds of routes there are: GET health/ready  *)
(* (neither throttled nor guarded), POST auth/login (throttled by its own  *)
(* limit) and POST webhooks/register (guarded, with a validated body).     *)
(* A handler is the sequence of dependencies it awaits; what it does with  *)
(* them is in the modules of the services.                                 *)
(***************************************************************************)
EXTENDS PrivateRanges, Sequences, FiniteSets

CONSTANTS
  Requests,    \* bound: requests ever made, all of one client
  Instances,   \* processes that run the API
  Hosts,       \* hosts that URLs name
  Limit,       \* requests of a client to a route in a window
  MaxRestarts, \* bound: restarts of an instance
  None         \* no URL, no instance

ASSUME RequestsAssumption == IsFiniteSet(Requests)
ASSUME LimitAssumption == Limit \in [{"login", "register"} -> Nat \ {0}]
ASSUME BoundAssumption == MaxRestarts \in Nat
ASSUME HostsAssumption ==
  \A host \in Hosts :
    \/ host.kind = "address" /\ host.ip \in Addresses
    \/ host.kind = "name"
ASSUME NoneAssumption == None \notin Hosts \cup Instances

VARIABLES
  up,          \* the dependencies that answer
  req,         \* where each request is
  counted,     \* admissions in the memory of each instance's throttler
  recent,      \* history: admissions in the current window
  metrics,     \* the counters in the memory of each instance
  restarts,    \* restarts of each instance
  webhookUrl   \* host of the URL in the row of the employer who registers

vars == <<up, req, counted, recent, metrics, restarts, webhookUrl>>

Dependencies == {"db", "redis"}
Routes == {"ready", "login", "register"}

\* Who asks: a bad token or password, an account that LoginAttempts has locked,
\* the wrong role, or nothing of this.
Senders == {"unknown", "locked", "applicant", "employer"}

\* Those to whom the guards or the login answer 401.
Objected == {"unknown", "locked"}

\* Those that a route tells apart.
SendersTo(route) ==
  CASE route = "register" -> {"unknown", "applicant", "employer"}
    [] route = "login" -> {"unknown", "locked", "employer"}
    [] route = "ready" -> {"employer"}

\* The dependencies a handler asks, one for each call of a service, in order.
Awaits(route, sender) ==
  CASE route = "ready" -> <<"db", "redis">>
    [] route = "register" -> <<"db", "db">>
    [] route = "login" /\ sender = "unknown" -> <<"redis", "db", "redis">>
    [] route = "login" /\ sender = "locked" -> <<"redis">>
    [] OTHER -> <<"redis", "db", "redis", "db">>

Stages == {"new", "blacklist", "load", "pipe", "handler", "done", "lost"}

\* life is the number of restarts of at by then;
\* seen is history: the states the dependencies had while it was served.
RequestStates ==
  [pc : Stages, at : Instances \cup {None}, life : 0..MaxRestarts, route : Routes,
   sender : Senders, host : Hosts \cup {None}, left : Seq(Dependencies),
   healthy : BOOLEAN, seen : SUBSET (Dependencies \X BOOLEAN), status : Nat]

New == [pc |-> "new", at |-> None, life |-> 0, route |-> "ready",
        sender |-> "employer", host |-> None, left |-> <<>>, healthy |-> TRUE,
        seen |-> {}, status |-> 0]

\* Of a request that is over only where it was and its answer are kept.
Over(q, stage, status) ==
  [New EXCEPT !.pc = stage, !.at = q.at, !.life = q.life, !.route = q.route,
              !.status = status]

Active == {"blacklist", "load", "pipe", "handler"}
IsUp(d) == d \in up

Fresh == [active |-> 0, total |-> 0, errors |-> 0]

Init ==
  /\ up = Dependencies
  /\ req = [r \in Requests |-> New]
  /\ counted = [i \in Instances |-> {}]
  /\ recent = {}
  /\ metrics = [i \in Instances |-> Fresh]
  /\ restarts = [i \in Instances |-> 0]
  /\ webhookUrl = None

-----------------------------------------------------------------------------
\* The exception filter answers; nothing tells the interceptor.
Fail(r, status) ==
  req' = [req EXCEPT ![r] = Over(@, "done", status)]

\* Admissions of a route, among those of a set.
Of(route, admitted) == {q \in admitted : req[q].route = route}

\* Mutant of Throttled: the limit is compared before the request is counted.
ThrottledLate(i, route) ==
  route # "ready" /\ Cardinality(Of(route, counted[i])) > Limit[route]

\* ThrottlerGuard refuses the request that would be one too many.
Throttled(i, route) ==
  route # "ready" /\ Cardinality(Of(route, counted[i])) >= Limit[route]

\* Where a request that is admitted goes: guarded routes to the blacklist.
FirstStage(route) == IF route = "register" THEN "blacklist" ELSE "pipe"

\* A request reaches an instance, whose throttler counts it or refuses it.
Arrive(r, i, route, sender) ==
  LET admitted == [req[r] EXCEPT
        !.pc = FirstStage(route), !.at = i, !.life = restarts[i],
        !.route = route, !.sender = sender,
        !.seen = {<<d, IsUp(d)>> : d \in Dependencies}]
  IN
  /\ req[r].pc = "new"
  /\ \/ /\ Throttled(i, route)
        /\ req' = [req EXCEPT ![r] = Over(admitted, "done", 429)]
        /\ UNCHANGED <<counted, recent>>
     \/ /\ ~Throttled(i, route)
        /\ req' = [req EXCEPT ![r] = admitted]
        /\ counted' = IF route = "ready" THEN counted
                      ELSE [counted EXCEPT ![i] = @ \cup {r}]
        /\ recent' = IF route = "ready" THEN recent ELSE recent \cup {r}
  /\ UNCHANGED <<up, metrics, restarts, webhookUrl>>

\* Mutant of Blacklist: the null of a key that is not there is a value.
BlacklistNull(r) ==
  /\ req[r].pc = "blacklist"
  /\ Fail(r, 401)
  /\ UNCHANGED <<up, counted, recent, metrics, restarts, webhookUrl>>

\* JwtStrategy.validate() asks Redis; JwtAuthGuard answers 401 to whatever goes
\* wrong.
Blacklist(r) ==
  /\ req[r].pc = "blacklist"
  /\ IF req[r].sender # "unknown" /\ IsUp("redis")
     THEN req' = [req EXCEPT ![r].pc = "load"]
     ELSE Fail(r, 401)
  /\ UNCHANGED <<up, counted, recent, metrics, restarts, webhookUrl>>

\* findById() of the user, and then the role.
LoadUser(r) ==
  /\ req[r].pc = "load"
  /\ \/ ~IsUp("db") /\ Fail(r, 401)
     \/ IsUp("db") /\ req[r].sender = "applicant" /\ Fail(r, 403)
     \/ /\ IsUp("db") /\ req[r].sender = "employer"
        /\ req' = [req EXCEPT ![r].pc = "pipe"]
  /\ UNCHANGED <<up, counted, recent, metrics, restarts, webhookUrl>>

\* RegisterWebhookDto: IsNotPrivateUrl.
Valid(host) == ~IsUnsafe(host)

\* Mutant of Intercept: a request is counted as active only if it is valid.
InterceptValid(r) ==
  /\ req[r].pc = "pipe"
  /\ \E host \in Hosts :
       LET bad == req[r].route = "register" /\ ~Valid(host) IN
       /\ IF bad THEN Fail(r, 400)
          ELSE req' = [req EXCEPT ![r].pc = "handler", ![r].host = host,
                         ![r].left = Awaits(req[r].route, req[r].sender)]
       /\ metrics' = IF bad THEN metrics
                     ELSE [metrics EXCEPT ![req[r].at].active = @ + 1]
  /\ UNCHANGED <<up, counted, recent, restarts, webhookUrl>>

\* MetricsInterceptor counts the request as active; the ValidationPipe then
\* reads the body, and the handler starts if it is valid; that of a login is an
\* e-mail address and a password, or not.
Intercept(r) ==
  /\ req[r].pc = "pipe"
  /\ metrics' = [metrics EXCEPT ![req[r].at].active = @ + 1]
  /\ LET Handler(host) ==
           req' = [req EXCEPT ![r].pc = "handler", ![r].host = host,
                     ![r].left = Awaits(req[r].route, req[r].sender)]
     IN
     \/ req[r].route = "ready" /\ Handler(None)
     \/ /\ req[r].route = "login"
        /\ Handler(None) \/ Fail(r, 400)
     \/ /\ req[r].route = "register"
        /\ \E host \in Hosts :
             IF Valid(host) THEN Handler(host) ELSE Fail(r, 400)
  /\ UNCHANGED <<up, counted, recent, restarts, webhookUrl>>

\* Mutant of Noted: the answer of the last dependency alone counts.
NotedLast(r, d) == IsUp(d)

\* What the probe knows after it has asked d: whether all have answered so far.
Noted(r, d) == req[r].healthy /\ IsUp(d)

\* One query of a handler.  An error of it ends the request, except in the
\* probe, which takes note of it; the last query of register is the UPDATE.
Query(r) ==
  LET d == Head(req[r].left) IN
  /\ req[r].pc = "handler"
  /\ req[r].left # <<>>
  /\ \/ /\ ~IsUp(d)
        /\ req[r].route # "ready"
        /\ Fail(r, 500)
        /\ UNCHANGED webhookUrl
     \/ /\ IsUp(d) \/ req[r].route = "ready"
        /\ req' = [req EXCEPT ![r].left = Tail(@),
                              ![r].healthy = Noted(r, d)]
        /\ webhookUrl' = IF req[r].route = "register" /\ Len(req[r].left) = 1
                         THEN req[r].host ELSE webhookUrl
  /\ UNCHANGED <<up, counted, recent, metrics, restarts>>

\* tap() of MetricsInterceptor, reached by a value and not by an exception.
Tapped(m, status) ==
  [active |-> m.active - 1, total |-> m.total + 1,
   errors |-> m.errors + IF status >= 400 THEN 1 ELSE 0]

\* What the handler returns goes back through the interceptors.
Succeed(r, status) ==
  /\ req' = [req EXCEPT ![r] = Over(@, "done", status)]
  /\ metrics' = [metrics EXCEPT ![req[r].at] = Tapped(@, status)]

\* The handler returns, or throws: a probe that found a dependency down 503,
\* a login with a wrong password, or to a locked account, 401.
Finish(r) ==
  /\ req[r].pc = "handler"
  /\ req[r].left = <<>>
  /\ \/ ~req[r].healthy /\ Fail(r, 503) /\ UNCHANGED metrics
     \/ /\ req[r].route = "login" /\ req[r].sender \in Objected
        /\ Fail(r, 401) /\ UNCHANGED metrics
     \/ /\ req[r].healthy
        /\ ~(req[r].route = "login" /\ req[r].sender \in Objected)
        /\ Succeed(r, IF req[r].route = "register" THEN 201 ELSE 200)
  /\ UNCHANGED <<up, counted, recent, restarts, webhookUrl>>

-----------------------------------------------------------------------------
\* A dependency goes down or comes back.
Toggle(d) ==
  /\ up' = IF IsUp(d) THEN up \ {d} ELSE up \cup {d}
  /\ req' = [r \in Requests |->
               IF req[r].pc \in Active
               THEN [req[r] EXCEPT !.seen = @ \cup {<<d, ~IsUp(d)>>}]
               ELSE req[r]]
  /\ UNCHANGED <<counted, recent, metrics, restarts, webhookUrl>>

\* An admission leaves the window.
Elapse(r) ==
  /\ r \in recent
  /\ recent' = recent \ {r}
  /\ counted' = [i \in Instances |-> counted[i] \ {r}]
  /\ UNCHANGED <<up, req, metrics, restarts, webhookUrl>>

\* Mutant of Restart: the requests outlive the memory that counts them.
RestartServing(i) ==
  /\ restarts[i] < MaxRestarts
  /\ restarts' = [restarts EXCEPT ![i] = @ + 1]
  /\ counted' = [counted EXCEPT ![i] = {}]
  /\ metrics' = [metrics EXCEPT ![i] = Fresh]
  /\ UNCHANGED <<up, req, recent, webhookUrl>>

\* An instance stops and starts again, with nothing in its memory.
Restart(i) ==
  /\ restarts[i] < MaxRestarts
  /\ restarts' = [restarts EXCEPT ![i] = @ + 1]
  /\ req' = [r \in Requests |->
               IF req[r].pc \in Active /\ req[r].at = i
               THEN Over(req[r], "lost", 0) ELSE req[r]]
  /\ counted' = [counted EXCEPT ![i] = {}]
  /\ metrics' = [metrics EXCEPT ![i] = Fresh]
  /\ UNCHANGED <<up, recent, webhookUrl>>

Step(r) == Blacklist(r) \/ LoadUser(r) \/ Intercept(r) \/ Query(r) \/ Finish(r)

Next ==
  \/ \E r \in Requests, i \in Instances, route \in Routes :
       \E sender \in SendersTo(route) : Arrive(r, i, route, sender)
  \/ \E r \in Requests : Step(r) \/ Elapse(r)
  \/ \E d \in Dependencies : Toggle(d)
  \/ \E i \in Instances : Restart(i)

Spec == Init /\ [][Next]_vars
-----------------------------------------------------------------------------
\* Every variable has its type, and a request that was admitted is remembered
\* by the throttler of the instance it reached, or its window is over.
TypeOK ==
  /\ up \subseteq Dependencies
  /\ req \in [Requests -> RequestStates]
  /\ \A i \in Instances : \A r \in counted[i] : r \in recent /\ req[r].at = i
  /\ recent \subseteq Requests
  /\ metrics \in [Instances -> [active : Nat, total : Nat, errors : Nat]]
  /\ restarts \in [Instances -> 0..MaxRestarts]
  /\ webhookUrl \in Hosts \cup {None}

\* Requests that the throttler or a guard refused.
Refused == {r \in Requests : \/ req[r].status \in {429, 403}
                             \/ req[r].status = 401 /\ req[r].route = "register"}
Answered == {r \in Requests : req[r].pc = "done"}
Succeeded == {r \in Requests : req[r].status \in {200, 201}}

\* Requests that got past the guards of an instance since it started.
Entered(i) ==
  {r \in Requests : /\ req[r].pc = "handler" \/ r \in Answered \ Refused
                    /\ req[r].at = i /\ req[r].life = restarts[i]}

\* What the numbers of GET metrics mean: the gauge counts, besides the
\* requests in their handlers, every request that failed there since the
\* instance started, and the total counts the successes alone.
MetricsMeaning ==
  \A i \in Instances :
    /\ metrics[i].active = Cardinality(Entered(i) \ Succeeded)
    /\ metrics[i].total = Cardinality(Entered(i) \cap Succeeded)

\* The limit of a route holds for an instance between its restarts: with the
\* counters in its memory an instance admits at most the limit again each time
\* it restarts, in any window.
AdmittedBounded ==
  \A i \in Instances, route \in {"login", "register"} :
    Cardinality({r \in Of(route, recent) : req[r].at = i})
      <= Limit[route] * (1 + restarts[i])

\* Was d seen in a state while r was served?
Seen(r, d, state) == <<d, state>> \in req[r].seen
Answers(r, statuses) ==
  req[r].pc \in Active /\ req'[r].pc = "done" /\ req'[r].status \in statuses

\* The probe asks one dependency after the other.  Its 200 means that each was
\* up at some time while it was served, though maybe never both at once, and
\* its 503 that one was down; it has no other answer.
ReadySound ==
  [][\A r \in Requests :
       req[r].route = "ready" /\ Answers(r, Nat) =>
         \/ Answers(r, {200}) /\ \A d \in Dependencies : Seen(r, d, TRUE)
         \/ Answers(r, {503}) /\ \E d \in Dependencies : Seen(r, d, FALSE)]_vars

\* A request is refused with 401 for a bad token, a bad password or a locked
\* account, and else only because of an outage: it may be answered 401 with a
\* good token when Redis is down, as the guards do, but a right password never,
\* and 500 and 503 always mean that a dependency was down meanwhile.
RefusalExplained ==
  [][\A r \in Requests :
       Answers(r, {401, 500, 503}) =>
         \/ Answers(r, {401}) /\ req[r].sender \in Objected
         \/ /\ \E d \in Dependencies : Seen(r, d, FALSE)
            /\ Answers(r, {401}) => req[r].route = "register"]_vars

\* The URL of an employer never names a reserved network, whatever requests
\* wrote it: those of RFC 1918, 1122 and 3927, told by their octets.
RegisteredPublic ==
  webhookUrl # None /\ webhookUrl.kind = "address" => ~Reserved(webhookUrl.ip)

\* metrics.service.ts:44 calls http_request_errors_total the "Total number of
\* HTTP error responses (4xx, 5xx)".
ErrorsCounted ==
  \A i \in Instances :
    metrics[i].errors >= Cardinality(Entered(i) \cap (Answered \ Succeeded))
=============================================================================
