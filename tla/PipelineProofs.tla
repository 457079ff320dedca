--------------------------- MODULE PipelineProofs ---------------------------
(***************************************************************************)
(* For any number of requests and instances and for any set of hosts:      *)
(*   - no URL of a reserved network is ever stored: the validation pipe is *)
(*     between every body and the UPDATE, and its arithmetic is exact;     *)
(*   - what a request has seen of its dependencies explains its answer,    *)
(*     however they go down and come back between its queries;             *)
(*   - an instance admits at most the limit of a route in a window, once   *)
(*     more for each time it restarts;                                     *)
(*   - the metrics of an instance count what MetricsMeaning says.          *)
(***************************************************************************)
EXTENDS Pipeline, PrivateRangesProofs, FiniteSetTheorems

\* A host that has been validated, or none.
Validated(host) == host \in Hosts \cup {None} /\ (host # None => ~IsUnsafe(host))

\* What requests hold, and what the row of the employer holds, was validated.
HostsValidated ==
  /\ req \in [Requests -> RequestStates]
  /\ restarts \in [Instances -> 0..MaxRestarts]
  /\ Validated(webhookUrl)
  /\ \A r \in Requests : Validated(req[r].host)

\* A request that is over is one, without a host.
LEMMA OverIsState ==
  ASSUME NEW q \in RequestStates, NEW stage \in Stages, NEW status \in Nat
  PROVE  /\ Over(q, stage, status) \in RequestStates
         /\ Over(q, stage, status).host = None
<1>1. <<>> \in Seq(Dependencies) /\ {} \subseteq Dependencies \X BOOLEAN
  OBVIOUS
<1>2. "ready" \in Routes /\ "employer" \in Senders
  BY DEF Routes, Senders
<1>3. QED
  BY <1>1, <1>2 DEF Over, New, RequestStates

\* The exception filter leaves every request as it should be.
LEMMA FailKeeps ==
  ASSUME HostsValidated, NEW r \in Requests, NEW status \in Nat,
         Fail(r, status), UNCHANGED <<restarts, webhookUrl>>
  PROVE  HostsValidated'
<1>1. "done" \in Stages
  BY DEF Stages
<1>2. req[r] \in RequestStates
  BY DEF HostsValidated
<1>3. /\ Over(req[r], "done", status) \in RequestStates
      /\ Over(req[r], "done", status).host = None
  BY <1>1, <1>2, OverIsState
<1>4. req' = [req EXCEPT ![r] = Over(req[r], "done", status)]
  BY DEF Fail
<1>5. QED
  BY <1>3, <1>4 DEF HostsValidated, Validated

\* What a handler awaits.
LEMMA AwaitsType ==
  ASSUME NEW route \in Routes, NEW sender \in Senders
  PROVE  Awaits(route, sender) \in Seq(Dependencies)
<1>1. /\ <<"db", "redis">> \in Seq(Dependencies)
      /\ <<"db", "db">> \in Seq(Dependencies)
  BY DEF Dependencies
<1>2. <<"redis", "db", "redis">> \in Seq(Dependencies)
  BY DEF Dependencies
<1>3. <<"redis", "db", "redis", "db">> \in Seq(Dependencies)
  BY DEF Dependencies
<1>4. CASE route = "ready"
  BY <1>1, <1>4 DEF Awaits
<1>5. CASE route = "register"
  BY <1>1, <1>5 DEF Awaits
<1>6. CASE route = "login"
  BY <1>2, <1>3, <1>6 DEF Awaits
<1>7. QED
  BY <1>4, <1>5, <1>6 DEF Routes

\* A request that changes into another state without a host, or that keeps its
\* own, is as it should be.
LEMMA ChangeKeeps ==
  ASSUME HostsValidated, NEW r \in Requests, NEW q \in RequestStates,
         Validated(q.host), req' = [req EXCEPT ![r] = q],
         UNCHANGED <<restarts, webhookUrl>>
  PROVE  HostsValidated'
BY DEF HostsValidated, Validated

THEOREM Validation == Spec => []HostsValidated
<1>1. Init => HostsValidated
  <2> SUFFICES ASSUME Init PROVE HostsValidated
    OBVIOUS
  <2>1. New \in RequestStates /\ New.host = None
    <3>1. <<>> \in Seq(Dependencies) /\ {} \subseteq Dependencies \X BOOLEAN
      OBVIOUS
    <3>2. 0 \in 0..MaxRestarts
      BY BoundAssumption
    <3>3. QED
      BY <3>1, <3>2 DEF New, RequestStates, Stages, Routes, Senders
  <2>2. 0 \in 0..MaxRestarts
    BY BoundAssumption
  <2>3. QED
    BY <2>1, <2>2 DEF Init, HostsValidated, Validated
<1>2. HostsValidated /\ [Next]_vars => HostsValidated'
  <2> SUFFICES ASSUME HostsValidated, [Next]_vars
               PROVE  HostsValidated'
    OBVIOUS
  <2>0. \A r \in Requests : req[r] \in RequestStates /\ Validated(req[r].host)
    BY DEF HostsValidated
  <2>1. ASSUME NEW r \in Requests, NEW i \in Instances, NEW route \in Routes,
               NEW sender \in SendersTo(route), Arrive(r, i, route, sender)
        PROVE  HostsValidated'
    <3> DEFINE q == [req[r] EXCEPT
                  !.pc = FirstStage(route), !.at = i, !.life = restarts[i],
                  !.route = route, !.sender = sender,
                  !.seen = {<<d, IsUp(d)>> : d \in Dependencies}]
    <3>1. sender \in Senders
      BY <2>1 DEF SendersTo, Routes, Senders
    <3>2. FirstStage(route) \in Stages
      BY DEF FirstStage, Stages
    <3>3. {<<d, IsUp(d)>> : d \in Dependencies} \subseteq Dependencies \X BOOLEAN
      <4>1. \A d \in Dependencies : IsUp(d) \in BOOLEAN
        BY DEF IsUp
      <4>2. QED
        BY <4>1
    <3>4. restarts[i] \in 0..MaxRestarts
      BY DEF HostsValidated
    <3>5. q \in RequestStates /\ q.host = req[r].host
      BY <2>0, <3>1, <3>2, <3>3, <3>4 DEF RequestStates
    <3>6. /\ Over(q, "done", 429) \in RequestStates
          /\ Over(q, "done", 429).host = None
      <4>1. "done" \in Stages /\ 429 \in Nat
        BY DEF Stages
      <4> HIDE DEF q
      <4>2. QED
        BY <3>5, <4>1, OverIsState
    <3>7. \/ req' = [req EXCEPT ![r] = q]
          \/ req' = [req EXCEPT ![r] = Over(q, "done", 429)]
      BY <2>1 DEF Arrive
    <3>8. UNCHANGED <<restarts, webhookUrl>>
      BY <2>1 DEF Arrive
    <3> HIDE DEF q
    <3>9. QED
      BY <2>0, <3>5, <3>6, <3>7, <3>8, ChangeKeeps DEF Validated
  <2>2. ASSUME NEW r \in Requests, Blacklist(r)
        PROVE  HostsValidated'
    <3>1. CASE Fail(r, 401)
      BY <2>2, <3>1, FailKeeps DEF Blacklist
    <3>2. CASE req' = [req EXCEPT ![r].pc = "load"]
      <4> DEFINE q == [req[r] EXCEPT !.pc = "load"]
      <4>1. q \in RequestStates /\ q.host = req[r].host
        BY <2>0 DEF RequestStates, Stages
      <4>2. req' = [req EXCEPT ![r] = q]
        BY <3>2
      <4> HIDE DEF q
      <4>3. QED
        BY <2>0, <2>2, <4>1, <4>2, ChangeKeeps DEF Blacklist
    <3>3. QED
      BY <2>2, <3>1, <3>2 DEF Blacklist
  <2>3. ASSUME NEW r \in Requests, LoadUser(r)
        PROVE  HostsValidated'
    <3>1. CASE Fail(r, 401) \/ Fail(r, 403)
      BY <2>3, <3>1, FailKeeps DEF LoadUser
    <3>2. CASE req' = [req EXCEPT ![r].pc = "pipe"]
      <4> DEFINE q == [req[r] EXCEPT !.pc = "pipe"]
      <4>1. q \in RequestStates /\ q.host = req[r].host
        BY <2>0 DEF RequestStates, Stages
      <4>2. req' = [req EXCEPT ![r] = q]
        BY <3>2
      <4> HIDE DEF q
      <4>3. QED
        BY <2>0, <2>3, <4>1, <4>2, ChangeKeeps DEF LoadUser
    <3>3. QED
      BY <2>3, <3>1, <3>2 DEF LoadUser
  <2>4. ASSUME NEW r \in Requests, Intercept(r)
        PROVE  HostsValidated'
    <3>0. UNCHANGED <<restarts, webhookUrl>>
      BY <2>4 DEF Intercept
    <3>1. CASE Fail(r, 400)
      BY <3>0, <3>1, FailKeeps
    <3>2. ASSUME NEW host \in Hosts \cup {None}, Validated(host),
                 req' = [req EXCEPT ![r].pc = "handler", ![r].host = host,
                           ![r].left = Awaits(req[r].route, req[r].sender)]
          PROVE  HostsValidated'
      <4> DEFINE q == [req[r] EXCEPT !.pc = "handler", !.host = host,
                         !.left = Awaits(req[r].route, req[r].sender)]
      <4>1. Awaits(req[r].route, req[r].sender) \in Seq(Dependencies)
        BY <2>0, AwaitsType DEF RequestStates
      <4>2. q \in RequestStates /\ q.host = host
        BY <2>0, <4>1 DEF RequestStates, Stages
      <4>3. req' = [req EXCEPT ![r] = q]
        BY <3>2
      <4> HIDE DEF q
      <4>4. QED
        BY <3>0, <3>2, <4>2, <4>3, ChangeKeeps
    <3>3. QED
      BY <2>4, <3>1, <3>2 DEF Intercept, Validated, Valid
  <2>5. ASSUME NEW r \in Requests, Query(r)
        PROVE  HostsValidated'
    <3>1. CASE Fail(r, 500) /\ UNCHANGED webhookUrl
      BY <2>5, <3>1, FailKeeps DEF Query
    <3>2. CASE /\ req' = [req EXCEPT ![r].left = Tail(@),
                            ![r].healthy = Noted(r, Head(req[r].left))]
               /\ webhookUrl' \in {req[r].host, webhookUrl}
      <4> DEFINE q == [req[r] EXCEPT !.left = Tail(@),
                         !.healthy = Noted(r, Head(req[r].left))]
      <4>1. Tail(req[r].left) \in Seq(Dependencies)
        <5>1. req[r].left \in Seq(Dependencies) /\ req[r].left # <<>>
          BY <2>0, <2>5 DEF RequestStates, Query
        <5>2. QED
          BY <5>1
      <4>2. Noted(r, Head(req[r].left)) \in BOOLEAN
        BY DEF Noted
      <4>3. q \in RequestStates /\ q.host = req[r].host
        BY <2>0, <4>1, <4>2 DEF RequestStates
      <4>4. req' = [req EXCEPT ![r] = q]
        BY <3>2
      <4>5. UNCHANGED restarts
        BY <2>5 DEF Query
      <4> HIDE DEF q
      <4>6. QED
        BY <2>0, <3>2, <4>3, <4>4, <4>5 DEF HostsValidated, Validated
    <3>3. QED
      BY <2>5, <3>1, <3>2 DEF Query
  <2>6. ASSUME NEW r \in Requests, Finish(r)
        PROVE  HostsValidated'
    <3>1. CASE Fail(r, 503) \/ Fail(r, 401)
      BY <2>6, <3>1, FailKeeps DEF Finish
    <3>2. ASSUME NEW status \in {200, 201}, Succeed(r, status)
          PROVE  HostsValidated'
      <4>1. Fail(r, status)
        BY <3>2 DEF Succeed, Fail
      <4>2. QED
        BY <2>6, <4>1, FailKeeps DEF Finish
    <3>3. QED
      BY <2>6, <3>1, <3>2 DEF Finish
  <2>7. ASSUME NEW d \in Dependencies, Toggle(d)
        PROVE  HostsValidated'
    <3>1. \A r \in Requests :
            [req[r] EXCEPT !.seen = @ \cup {<<d, ~IsUp(d)>>}] \in RequestStates
      <4>1. <<d, ~IsUp(d)>> \in Dependencies \X BOOLEAN
        BY DEF IsUp
      <4>2. QED
        BY <2>0, <4>1 DEF RequestStates
    <3>2. QED
      BY <2>0, <2>7, <3>1 DEF Toggle, HostsValidated, Validated, RequestStates
  <2>8. ASSUME NEW r \in Requests, Elapse(r)
        PROVE  HostsValidated'
    BY <2>8 DEF Elapse, HostsValidated, Validated
  <2>9. ASSUME NEW i \in Instances, Restart(i)
        PROVE  HostsValidated'
    <3>1. \A r \in Requests : /\ Over(req[r], "lost", 0) \in RequestStates
                              /\ Over(req[r], "lost", 0).host = None
      BY <2>0, OverIsState DEF Stages
    <3>2. restarts' \in [Instances -> 0..MaxRestarts]
      BY <2>9, BoundAssumption DEF Restart, HostsValidated
    <3>3. QED
      BY <2>0, <2>9, <3>1, <3>2 DEF Restart, HostsValidated, Validated
  <2>10. CASE UNCHANGED vars
    BY <2>10 DEF vars, HostsValidated, Validated
  <2>11. QED
    BY <2>1, <2>2, <2>3, <2>4, <2>5, <2>6, <2>7, <2>8, <2>9, <2>10
       DEF Next, Step
<1>3. QED
  BY <1>1, <1>2, PTL DEF Spec

\* No request ever stores a URL that names an address of a reserved network.
THEOREM RegisteredIsPublic == Spec => []RegisteredPublic
<1>1. HostsValidated => RegisteredPublic
  <2> SUFFICES ASSUME HostsValidated, webhookUrl # None,
                      webhookUrl.kind = "address"
               PROVE  ~Reserved(webhookUrl.ip)
    BY DEF RegisteredPublic
  <2>1. webhookUrl.ip \in Addresses
    BY HostsAssumption DEF HostsValidated, Validated
  <2>2. ~IsInPrivateRange(webhookUrl.ip)
    BY DEF HostsValidated, Validated, IsUnsafe
  <2>3. QED
    BY <2>1, <2>2, RangesExact
<1>2. QED
  BY <1>1, Validation, PTL


-----------------------------------------------------------------------------
(***************************************************************************)
(* Where requests are, and what they have seen.                            *)
(***************************************************************************)

\* A request under way was admitted in the present life of its instance, and
\* has seen the dependencies as they are; a probe has seen up what it has asked
\* as long as it knows of nothing else.
Consistent(r) ==
  LET q == req[r] IN
  /\ q.pc \in Active =>
       /\ q.at \in Instances /\ q.life = restarts[q.at] /\ q.status = 0
       /\ \A d \in Dependencies : <<d, IsUp(d)>> \in q.seen
       /\ ~q.healthy => \E d \in Dependencies : <<d, FALSE>> \in q.seen
  /\ q.pc = "new" => q = New /\ r \notin recent
  /\ q.pc = "lost" => q.status = 0
  /\ q.at \in Instances => q.life <= restarts[q.at]
  /\ q.pc \in {"blacklist", "load"} => q.route = "register"
  /\ q.pc = "handler" /\ q.route = "ready" =>
       /\ q.left \in {<<"db", "redis">>, <<"redis">>, <<>>}
       /\ q.healthy /\ q.left # <<"db", "redis">> => <<"db", TRUE>> \in q.seen
       /\ q.healthy /\ q.left = <<>> => <<"redis", TRUE>> \in q.seen

AllConsistent == \A r \in Requests : Consistent(r)

LEMMA OverFields ==
  ASSUME NEW q, NEW stage, NEW status
  PROVE  /\ Over(q, stage, status).pc = stage
         /\ Over(q, stage, status).at = q.at
         /\ Over(q, stage, status).life = q.life
         /\ Over(q, stage, status).route = q.route
         /\ Over(q, stage, status).status = status
BY DEF Over, New

LEMMA FailFields ==
  ASSUME HostsValidated, NEW r \in Requests, NEW status, Fail(r, status)
  PROVE  /\ req'[r] = Over(req[r], "done", status)
         /\ req'[r].pc = "done" /\ req'[r].at = req[r].at
         /\ req'[r].life = req[r].life /\ req'[r].route = req[r].route
         /\ req'[r].status = status
         /\ \A q \in Requests \ {r} : req'[q] = req[q]
BY OverFields DEF Fail, HostsValidated

\* A step of a request leaves where it is, and every other request, alone.
LEMMA StepFrame ==
  ASSUME HostsValidated, NEW r \in Requests, Step(r)
  PROVE  /\ UNCHANGED <<up, counted, recent, restarts>>
         /\ \A q \in Requests \ {r} : req'[q] = req[q]
         /\ req[r].pc \in Active /\ req'[r].pc \in Active \cup {"done"}
         /\ req'[r].at = req[r].at /\ req'[r].life = req[r].life
         /\ req'[r].route = req[r].route
<1>0. req \in [Requests -> RequestStates]
  BY DEF HostsValidated
<1>1. ASSUME NEW status, Fail(r, status)
      PROVE  /\ \A q \in Requests \ {r} : req'[q] = req[q]
             /\ req'[r].pc = "done"
             /\ req'[r].at = req[r].at /\ req'[r].life = req[r].life
             /\ req'[r].route = req[r].route
  BY <1>1, FailFields
<1>2. CASE Blacklist(r)
  BY <1>0, <1>1, <1>2 DEF Blacklist, Active, RequestStates
<1>3. CASE LoadUser(r)
  BY <1>0, <1>1, <1>3 DEF LoadUser, Active, RequestStates
<1>4. CASE Intercept(r)
  <2>1. ASSUME NEW host,
               req' = [req EXCEPT ![r].pc = "handler", ![r].host = host,
                         ![r].left = Awaits(req[r].route, req[r].sender)]
        PROVE  /\ \A q \in Requests \ {r} : req'[q] = req[q]
               /\ req'[r].pc = "handler"
               /\ req'[r].at = req[r].at /\ req'[r].life = req[r].life
               /\ req'[r].route = req[r].route
    BY <1>0, <2>1 DEF RequestStates
  <2>2. /\ \A q \in Requests \ {r} : req'[q] = req[q]
        /\ req'[r].pc \in {"handler", "done"}
        /\ req'[r].at = req[r].at /\ req'[r].life = req[r].life
        /\ req'[r].route = req[r].route
    BY <1>1, <1>4, <2>1 DEF Intercept
  <2>3. QED
    BY <1>4, <2>2 DEF Intercept, Active
<1>5. CASE Query(r)
  BY <1>0, <1>1, <1>5 DEF Query, Active, RequestStates
<1>6. CASE Finish(r)
  <2>1. ASSUME NEW status, Succeed(r, status)
        PROVE  Fail(r, status)
    BY <2>1 DEF Succeed, Fail
  <2>2. QED
    BY <1>1, <1>6, <2>1 DEF Finish, Active
<1>7. QED
  BY <1>2, <1>3, <1>4, <1>5, <1>6 DEF Step

\* A request that has been answered has nothing more to keep up with.
LEMMA DoneConsistent ==
  ASSUME NEW r \in Requests, req'[r].pc = "done",
         req'[r].at \in Instances => req'[r].life <= restarts'[req'[r].at]
  PROVE  Consistent(r)'
BY DEF Consistent, Active

LEMMA ConsistentOwn ==
  ASSUME HostsValidated, NEW r \in Requests, Consistent(r), Step(r)
  PROVE  Consistent(r)'
<1>0. /\ req[r] \in RequestStates /\ req \in [Requests -> RequestStates]
      /\ req[r].pc \in Active
      /\ UNCHANGED <<up, recent, restarts>>
      /\ req'[r].at = req[r].at /\ req'[r].life = req[r].life
      /\ req'[r].route = req[r].route
      /\ req'[r].at \in Instances => req'[r].life <= restarts'[req'[r].at]
      /\ UNCHANGED <<up, restarts, recent>>
  BY StepFrame DEF HostsValidated, Consistent
<1>1. CASE req'[r].pc = "done"
  BY <1>0, <1>1, DoneConsistent
<1>2. ASSUME NEW stage \in {"load", "pipe"}, req' = [req EXCEPT ![r].pc = stage],
             stage = "load" => req[r].route = "register"
      PROVE  Consistent(r)'
  <2>1. /\ req'[r].pc = stage /\ req'[r].status = req[r].status
        /\ req'[r].seen = req[r].seen /\ req'[r].healthy = req[r].healthy
    BY <1>0, <1>2 DEF RequestStates
  <2>2. QED
    BY <1>0, <1>2, <2>1 DEF Consistent, IsUp, Active
<1>3. CASE Blacklist(r)
  BY <1>1, <1>2, <1>3, FailFields DEF Blacklist, Consistent
<1>4. CASE LoadUser(r)
  BY <1>1, <1>2, <1>4, FailFields DEF LoadUser
<1>5. CASE Intercept(r)
  <2>1. ASSUME NEW host,
               req' = [req EXCEPT ![r].pc = "handler", ![r].host = host,
                         ![r].left = Awaits(req[r].route, req[r].sender)]
        PROVE  Consistent(r)'
    <3>1. /\ req'[r].pc = "handler" /\ req'[r].status = req[r].status
          /\ req'[r].seen = req[r].seen /\ req'[r].healthy = req[r].healthy
          /\ req'[r].left = Awaits(req[r].route, req[r].sender)
      BY <1>0, <2>1 DEF RequestStates
    <3>2. req[r].route = "ready" => req'[r].left = <<"db", "redis">>
      BY <3>1 DEF Awaits
    <3>3. <<"db", "redis">> # <<>>
      OBVIOUS
    <3>4. QED
      BY <1>0, <3>1, <3>2, <3>3 DEF Consistent, IsUp, Active
  <2>2. QED
    BY <1>1, <1>5, <2>1, FailFields DEF Intercept
<1>6. CASE Query(r)
  <2> DEFINE d == Head(req[r].left)
  <2>1. CASE Fail(r, 500)
    BY <1>1, <2>1, FailFields
  <2>2. CASE req' = [req EXCEPT ![r].left = Tail(@), ![r].healthy = Noted(r, d)]
    <3>0. /\ req[r].pc = "handler" /\ req[r].left # <<>>
          /\ req[r].left \in Seq(Dependencies)
      BY <1>0, <1>6 DEF Query, RequestStates
    <3>1. d \in Dependencies
      BY <3>0
    <3>2. /\ req'[r].pc = "handler" /\ req'[r].status = req[r].status
          /\ req'[r].seen = req[r].seen /\ req'[r].left = Tail(req[r].left)
          /\ req'[r].healthy = (req[r].healthy /\ IsUp(d))
      BY <1>0, <2>2, <3>0 DEF RequestStates, Noted
    <3>3. /\ \A x \in Dependencies : <<x, IsUp(x)>> \in req[r].seen
          /\ \A x : IsUp(x) \in BOOLEAN
      <4>1. \A x \in Dependencies : <<x, IsUp(x)>> \in req[r].seen
        BY <1>0 DEF Consistent
      <4>2. \A x : IsUp(x) \in BOOLEAN
        BY DEF IsUp
      <4>3. QED
        BY <4>1, <4>2
    <3>a. /\ IsUp(d) => <<d, TRUE>> \in req[r].seen
          /\ ~IsUp(d) => <<d, FALSE>> \in req[r].seen
      <4>1. CASE IsUp(d)
        <5>1. IsUp(d) = TRUE
          BY <3>3, <4>1
        <5>2. QED
          BY <3>1, <3>3, <4>1, <5>1
      <4>2. CASE ~IsUp(d)
        <5>1. IsUp(d) = FALSE
          BY <3>3, <4>2
        <5>2. QED
          BY <3>1, <3>3, <4>2, <5>1
      <4>3. QED
        BY <4>1, <4>2
    <3>4. ~req'[r].healthy => \E x \in Dependencies : <<x, FALSE>> \in req[r].seen
      BY <1>0, <3>1, <3>2, <3>a DEF Consistent
    <3>5. ASSUME req[r].route = "ready"
          PROVE  \/ /\ req[r].left = <<"db", "redis">> /\ d = "db"
                    /\ req'[r].left = <<"redis">>
                 \/ /\ req[r].left = <<"redis">> /\ d = "redis"
                    /\ req'[r].left = <<>>
      <4>1. req[r].left \in {<<"db", "redis">>, <<"redis">>}
        BY <3>0, <3>5 DEF Consistent
      <4>2. /\ Head(<<"db", "redis">>) = "db" /\ Tail(<<"db", "redis">>) = <<"redis">>
            /\ Head(<<"redis">>) = "redis" /\ Tail(<<"redis">>) = <<>>
        OBVIOUS
      <4>3. QED
        BY <3>2, <4>1, <4>2
    <3>6. req[r].healthy /\ req[r].route = "ready" /\ req[r].left = <<"redis">> =>
            <<"db", TRUE>> \in req[r].seen
      <4>1. <<"redis">> # <<"db", "redis">>
        OBVIOUS
      <4>2. QED
        BY <3>0, <4>1 DEF Consistent
    <3>7. /\ <<"redis">> # <<>> /\ <<"redis">> # <<"db", "redis">>
          /\ <<>> # <<"db", "redis">>
      OBVIOUS
    <3> HIDE DEF d
    <3>8. req[r].route = "ready" =>
            /\ req'[r].left \in {<<"db", "redis">>, <<"redis">>, <<>>}
            /\ req'[r].healthy => <<"db", TRUE>> \in req[r].seen
            /\ req'[r].healthy /\ req'[r].left = <<>> =>
                 <<"redis", TRUE>> \in req[r].seen
      <4>1. req'[r].healthy <=> req[r].healthy /\ IsUp(d)
        BY <3>2
      <4> HIDE DEF IsUp
      <4>2. QED
        BY <3>a, <3>5, <3>6, <3>7, <4>1
    <3>9. QED
      BY <1>0, <3>2, <3>4, <3>8 DEF Consistent, IsUp, Active
  <2>3. QED
    BY <1>6, <2>1, <2>2 DEF Query
<1>7. CASE Finish(r)
  <2>1. ASSUME NEW status, Succeed(r, status)
        PROVE  Fail(r, status)
    BY <2>1 DEF Succeed, Fail
  <2>2. QED
    BY <1>1, <1>7, <2>1, FailFields DEF Finish
<1>8. QED
  BY <1>3, <1>4, <1>5, <1>6, <1>7 DEF Step


\* A request that is as it was stays consistent.
LEMMA ConsistentStays ==
  ASSUME NEW r \in Requests, Consistent(r), req'[r] = req[r],
         UNCHANGED <<up, restarts>>, r \in recent' => r \in recent
  PROVE  Consistent(r)'
BY DEF Consistent, IsUp

LEMMA ConsistentArrive ==
  ASSUME HostsValidated, AllConsistent,
         NEW r \in Requests, NEW i \in Instances, NEW route \in Routes,
         NEW sender \in SendersTo(route), Arrive(r, i, route, sender)
  PROVE  AllConsistent'
<1> DEFINE q == [req[r] EXCEPT
                  !.pc = FirstStage(route), !.at = i, !.life = restarts[i],
                  !.route = route, !.sender = sender,
                  !.seen = {<<d, IsUp(d)>> : d \in Dependencies}]
<1>0. /\ req[r] = New /\ req \in [Requests -> RequestStates]
      /\ UNCHANGED <<up, restarts>> /\ restarts[i] \in 0..MaxRestarts
      /\ recent' \subseteq recent \cup {r}
  BY DEF Arrive, AllConsistent, Consistent, HostsValidated
<1>1. /\ q.pc = FirstStage(route) /\ q.at = i /\ q.life = restarts[i]
      /\ q.route = route /\ q.status = 0 /\ q.healthy = TRUE
      /\ q.seen = {<<d, IsUp(d)>> : d \in Dependencies}
  BY <1>0 DEF New
<1>2. \/ req' = [req EXCEPT ![r] = q]
      \/ req' = [req EXCEPT ![r] = Over(q, "done", 429)]
  BY DEF Arrive
<1> HIDE DEF q
<1>3. ASSUME NEW p \in Requests \ {r}
      PROVE  Consistent(p)'
  BY <1>0, <1>2, ConsistentStays DEF AllConsistent
<1>4. CASE req' = [req EXCEPT ![r] = q]
  <2>1. req'[r] = q
    BY <1>0, <1>4
  <2>2. \A d \in Dependencies : <<d, IsUp(d)>> \in q.seen
    BY <1>1
  <2>3. /\ q.pc \in {"blacklist", "pipe"}
        /\ q.pc = "blacklist" => route = "register"
    BY <1>1 DEF FirstStage
  <2>4. q.life <= restarts[q.at]
    BY <1>0, <1>1
  <2>5. Consistent(r)'
    BY <1>0, <1>1, <2>1, <2>2, <2>3, <2>4 DEF Consistent, IsUp
  <2>6. QED
    BY <1>3, <2>5 DEF AllConsistent
<1>5. CASE req' = [req EXCEPT ![r] = Over(q, "done", 429)]
  <2>1. /\ req'[r].pc = "done" /\ req'[r].at = i /\ req'[r].life = restarts[i]
    BY <1>0, <1>1, <1>5, OverFields
  <2>2. req'[r].life <= restarts'[req'[r].at]
    BY <1>0, <2>1
  <2>3. Consistent(r)'
    BY <2>1, <2>2, DoneConsistent
  <2>4. QED
    BY <1>3, <2>3 DEF AllConsistent
<1>6. QED
  BY <1>2, <1>4, <1>5

LEMMA ConsistentToggle ==
  ASSUME HostsValidated, AllConsistent, NEW d \in Dependencies, Toggle(d)
  PROVE  AllConsistent'
<1> SUFFICES ASSUME NEW r \in Requests
             PROVE  Consistent(r)'
  BY DEF AllConsistent
<1>0. /\ Consistent(r) /\ req[r] \in RequestStates
      /\ UNCHANGED <<restarts, recent>>
  BY DEF AllConsistent, HostsValidated, Toggle
<1>1. CASE req[r].pc \in Active
  <2>1. req'[r] = [req[r] EXCEPT !.seen = @ \cup {<<d, ~IsUp(d)>>}]
    BY <1>1 DEF Toggle
  <2>2. /\ req'[r].pc = req[r].pc /\ req'[r].at = req[r].at
        /\ req'[r].life = req[r].life /\ req'[r].status = req[r].status
        /\ req'[r].healthy = req[r].healthy /\ req'[r].route = req[r].route
        /\ req'[r].left = req[r].left
        /\ req'[r].seen = req[r].seen \cup {<<d, ~IsUp(d)>>}
    BY <1>0, <2>1 DEF RequestStates
  <2>3. \A x \in Dependencies : <<x, IsUp(x)'>> \in req'[r].seen
    <3>1. \A x \in Dependencies : <<x, IsUp(x)>> \in req[r].seen
      BY <1>0, <1>1 DEF Consistent
    <3>2. \A x \in Dependencies \ {d} : IsUp(x)' = IsUp(x)
      BY DEF Toggle, IsUp
    <3>3. IsUp(d)' = ~IsUp(d)
      BY DEF Toggle, IsUp
    <3>4. ASSUME NEW x \in Dependencies
          PROVE  <<x, IsUp(x)'>> \in req'[r].seen
      <4>1. CASE x = d
        BY <2>2, <3>3, <4>1
      <4>2. CASE x # d
        <5>1. IsUp(x)' = IsUp(x)
          BY <3>2, <4>2
        <5>2. QED
          BY <2>2, <3>1, <5>1
      <4>3. QED
        BY <4>1, <4>2
    <3>5. QED
      BY <3>4
  <2>4. req[r].pc \notin {"new", "lost"}
    BY <1>1 DEF Active
  <2>5. QED
    BY <1>0, <1>1, <2>2, <2>3, <2>4 DEF Consistent
<1>2. CASE req[r].pc \notin Active
  <2>1. req'[r] = req[r]
    BY <1>2 DEF Toggle
  <2>2. QED
    BY <1>0, <1>2, <2>1 DEF Consistent, Active
<1>3. QED
  BY <1>1, <1>2

LEMMA ConsistentRestart ==
  ASSUME HostsValidated, AllConsistent, NEW i \in Instances, Restart(i)
  PROVE  AllConsistent'
<1> SUFFICES ASSUME NEW r \in Requests
             PROVE  Consistent(r)'
  BY DEF AllConsistent
<1>0. /\ Consistent(r) /\ req[r] \in RequestStates
      /\ UNCHANGED <<up, recent>>
      /\ restarts \in [Instances -> Nat] /\ req[r].life \in Nat
      /\ restarts' = [restarts EXCEPT ![i] = @ + 1]
  BY BoundAssumption
  DEF AllConsistent, HostsValidated, Restart, RequestStates
<1>1. CASE req[r].pc \in Active /\ req[r].at = i
  <2>1. /\ req'[r].pc = "lost" /\ req'[r].status = 0
        /\ req'[r].at = i /\ req'[r].life = req[r].life
    BY <1>1, OverFields DEF Restart
  <2>2. req'[r].life <= restarts'[i]
    BY <1>0, <1>1, <2>1 DEF Consistent
  <2>3. QED
    BY <2>1, <2>2 DEF Consistent, Active
<1>2. CASE ~(req[r].pc \in Active /\ req[r].at = i)
  <2>1. req'[r] = req[r]
    BY <1>2 DEF Restart
  <2>2. /\ req[r].pc \in Active => restarts'[req[r].at] = restarts[req[r].at]
        /\ req[r].at \in Instances => req[r].life <= restarts'[req[r].at]
    BY <1>0, <1>2 DEF Consistent
  <2>3. QED
    BY <1>0, <2>1, <2>2 DEF Consistent, IsUp
<1>3. QED
  BY <1>1, <1>2

LEMMA ConsistentAlways == Spec => []AllConsistent
<1>1. Init => AllConsistent
  <2> SUFFICES ASSUME Init, NEW r \in Requests
               PROVE  Consistent(r)
    BY DEF AllConsistent
  <2>1. req[r] = New /\ r \notin recent
    BY DEF Init
  <2>2. New.pc = "new" /\ New.at = None
    BY DEF New
  <2>3. New.at \notin Instances
    BY <2>2, NoneAssumption
  <2>4. QED
    BY <2>1, <2>2, <2>3 DEF Consistent, Active
<1>2. HostsValidated /\ AllConsistent /\ [Next]_vars => AllConsistent'
  <2> SUFFICES ASSUME HostsValidated, AllConsistent, [Next]_vars
               PROVE  AllConsistent'
    OBVIOUS
  <2>1. ASSUME NEW r \in Requests, Step(r)
        PROVE  AllConsistent'
    BY <2>1, StepFrame, ConsistentOwn, ConsistentStays DEF AllConsistent
  <2>2. ASSUME NEW r \in Requests, Elapse(r)
        PROVE  AllConsistent'
    BY <2>2, ConsistentStays DEF Elapse, AllConsistent
  <2>3. CASE UNCHANGED vars
    BY <2>3, ConsistentStays DEF vars, AllConsistent
  <2>4. QED
    BY <2>1, <2>2, <2>3, ConsistentArrive, ConsistentToggle, ConsistentRestart
    DEF Next
<1>3. QED
  BY <1>1, <1>2, Validation, PTL DEF Spec


-----------------------------------------------------------------------------
(***************************************************************************)
(* The answers of requests.                                                *)
(***************************************************************************)

\* A request is answered by a step of its own.
LEMMA AnsweredByStep ==
  ASSUME HostsValidated, [Next]_vars, NEW r \in Requests, NEW statuses,
         Answers(r, statuses)
  PROVE  Step(r)
<1>0. req[r].pc \in Active /\ req'[r].pc = "done" /\ "done" \notin Active
  BY DEF Answers, Active
<1>1. ASSUME NEW q \in Requests, NEW i \in Instances, NEW route \in Routes,
             NEW sender \in SendersTo(route), Arrive(q, i, route, sender)
      PROVE  FALSE
  <2>1. q # r
    BY <1>0, <1>1 DEF Arrive, Active
  <2>2. req'[r] = req[r]
    BY <1>1, <2>1 DEF Arrive, HostsValidated
  <2>3. QED
    BY <1>0, <2>2
<1>2. ASSUME NEW q \in Requests, Step(q), q # r
      PROVE  FALSE
  BY <1>0, <1>2, StepFrame
<1>3. ASSUME NEW d \in Dependencies, Toggle(d)
      PROVE  FALSE
  <2>1. req'[r].pc = req[r].pc
    BY <1>3 DEF Toggle, HostsValidated, RequestStates
  <2>2. QED
    BY <1>0, <2>1
<1>4. ASSUME NEW i \in Instances, Restart(i)
      PROVE  FALSE
  <2>1. req'[r].pc \in {req[r].pc, "lost"}
    BY <1>4, OverFields DEF Restart
  <2>2. QED
    BY <1>0, <2>1
<1>5. CASE UNCHANGED vars \/ \E q \in Requests : Elapse(q)
  BY <1>0, <1>5 DEF vars, Elapse
<1>6. QED
  BY <1>1, <1>2, <1>3, <1>4, <1>5 DEF Next

\* What a request has seen when it is answered, by status.
LEMMA AnswerSeen ==
  ASSUME HostsValidated, NEW r \in Requests, Consistent(r), Step(r),
         req'[r].pc = "done"
  PROVE  /\ req'[r].status \in {401, 500, 503} =>
              \/ req'[r].status = 401 /\ req[r].sender \in Objected
              \/ /\ \E d \in Dependencies : Seen(r, d, FALSE)
                 /\ req'[r].status = 401 => req[r].route = "register"
         /\ req[r].route = "ready" =>
              \/ /\ req'[r].status = 200
                 /\ \A d \in Dependencies : Seen(r, d, TRUE)
              \/ /\ req'[r].status = 503
                 /\ \E d \in Dependencies : Seen(r, d, FALSE)
<1>0. /\ req[r] \in RequestStates /\ req \in [Requests -> RequestStates]
      /\ {"db", "redis"} = Dependencies
      /\ \A q : q \in {"load", "pipe", "handler"} => q # "done"
  BY DEF HostsValidated, Dependencies
<1>1. ASSUME NEW d \in Dependencies, ~IsUp(d)
      PROVE  \E x \in Dependencies : Seen(r, x, FALSE)
  <2>1. IsUp(d) = FALSE
    BY <1>1 DEF IsUp
  <2>2. <<d, IsUp(d)>> \in req[r].seen
    BY StepFrame DEF Consistent
  <2>3. QED
    BY <2>1, <2>2 DEF Seen
<1>2. CASE Blacklist(r)
  <2>1. /\ req[r].route = "register"
        /\ req'[r].status = 401
        /\ req[r].sender = "unknown" \/ ~IsUp("redis")
    BY <1>0, <1>2, FailFields DEF Blacklist, Consistent, RequestStates
  <2>2. req[r].sender \in Objected
        \/ \E d \in Dependencies : Seen(r, d, FALSE)
    BY <1>0, <1>1, <2>1 DEF Objected
  <2>3. QED
    BY <2>1, <2>2
<1>3. CASE LoadUser(r)
  <2>1. /\ req[r].route = "register"
        /\ \/ req'[r].status = 401 /\ ~IsUp("db")
           \/ req'[r].status = 403
    BY <1>0, <1>3, FailFields DEF LoadUser, Consistent, RequestStates
  <2>2. ~IsUp("db") => \E d \in Dependencies : Seen(r, d, FALSE)
    BY <1>0, <1>1
  <2>3. req'[r].status = 403 => req'[r].status \notin {401, 500, 503}
    OBVIOUS
  <2>4. QED
    BY <2>1, <2>2, <2>3
<1>4. CASE Intercept(r)
  <2>1. ASSUME NEW host,
               req' = [req EXCEPT ![r].pc = "handler", ![r].host = host,
                         ![r].left = Awaits(req[r].route, req[r].sender)]
        PROVE  FALSE
    BY <1>0, <2>1 DEF RequestStates
  <2>2. Fail(r, 400) /\ req[r].route # "ready"
    BY <1>4, <2>1 DEF Intercept
  <2>3. req'[r].status = 400 /\ req[r].route # "ready"
    BY <2>2, FailFields
  <2>4. 400 \notin {401, 500, 503}
    OBVIOUS
  <2>5. QED
    BY <2>3, <2>4
<1>5. CASE Query(r)
  <2>1. CASE /\ ~IsUp(Head(req[r].left)) /\ req[r].route # "ready"
             /\ Fail(r, 500)
    <3>1. Head(req[r].left) \in Dependencies
      BY <1>0, <1>5 DEF Query, RequestStates
    <3>2. \E d \in Dependencies : Seen(r, d, FALSE)
      BY <1>1, <2>1, <3>1
    <3>3. req'[r].status = 500
      BY <2>1, FailFields
    <3>4. req'[r].status # 401
      BY <3>3
    <3>5. QED
      BY <2>1, <3>2, <3>4
  <2>2. CASE req' = [req EXCEPT ![r].left = Tail(@),
                       ![r].healthy = Noted(r, Head(req[r].left))]
    <3>1. req'[r].pc = "handler"
      BY <1>0, <1>5, <2>2 DEF Query, RequestStates
    <3>2. QED
      BY <3>1
  <2>3. QED
    BY <1>5, <2>1, <2>2 DEF Query
<1>6. CASE Finish(r)
  <2>0. req[r].pc = "handler" /\ req[r].left = <<>> /\ req[r].pc \in Active
    BY <1>6 DEF Finish, Active
  <2>1. CASE ~req[r].healthy /\ Fail(r, 503)
    <3>1. \E d \in Dependencies : Seen(r, d, FALSE)
      BY <2>0, <2>1 DEF Consistent, Seen
    <3>2. req'[r].status = 503
      BY <2>1, FailFields
    <3>3. req'[r].status # 401
      BY <3>2
    <3>4. QED
      BY <3>1, <3>2, <3>3
  <2>2. CASE /\ req[r].route = "login" /\ req[r].sender \in Objected
             /\ Fail(r, 401)
    <3>1. req[r].route # "ready" /\ req'[r].status = 401
      BY <2>2, FailFields
    <3>2. QED
      BY <2>2, <3>1
  <2>3. CASE /\ req[r].healthy
             /\ Succeed(r, IF req[r].route = "register" THEN 201 ELSE 200)
    <3>1. Fail(r, IF req[r].route = "register" THEN 201 ELSE 200)
      BY <2>3 DEF Succeed, Fail
    <3>2. req'[r].status = IF req[r].route = "register" THEN 201 ELSE 200
      BY <3>1, FailFields
    <3>3. <<>> # <<"db", "redis">>
      OBVIOUS
    <3>4. req[r].route = "ready" =>
            <<"db", TRUE>> \in req[r].seen /\ <<"redis", TRUE>> \in req[r].seen
      BY <2>0, <2>3, <3>3 DEF Consistent
    <3>5. req[r].route = "ready" => req'[r].status = 200
      BY <3>2
    <3>6. req'[r].status \notin {401, 500, 503}
      BY <3>2
    <3>7. req[r].route = "ready" => \A d \in Dependencies : Seen(r, d, TRUE)
      BY <1>0, <3>4 DEF Seen
    <3>8. QED
      BY <3>5, <3>6, <3>7
  <2>4. QED
    BY <1>6, <2>1, <2>2, <2>3 DEF Finish
<1>7. QED
  BY <1>2, <1>3, <1>4, <1>5, <1>6 DEF Step

\* The probe answers 200 only if each dependency was up at some time while it
\* was served, 503 only if one was down, and nothing else, however
\* dependencies go down and come back between its queries.
THEOREM ReadyIsSound == Spec => ReadySound
<1> DEFINE Sound ==
      \A r \in Requests :
        req[r].route = "ready" /\ Answers(r, Nat) =>
          \/ Answers(r, {200}) /\ \A d \in Dependencies : Seen(r, d, TRUE)
          \/ Answers(r, {503}) /\ \E d \in Dependencies : Seen(r, d, FALSE)
<1>1. HostsValidated /\ AllConsistent /\ [Next]_vars => [Sound]_vars
  <2> SUFFICES ASSUME HostsValidated, AllConsistent, [Next]_vars,
                      NEW r \in Requests,
                      req[r].route = "ready", Answers(r, Nat)
               PROVE  \/ /\ Answers(r, {200})
                         /\ \A d \in Dependencies : Seen(r, d, TRUE)
                      \/ /\ Answers(r, {503})
                         /\ \E d \in Dependencies : Seen(r, d, FALSE)
    OBVIOUS
  <2>1. req[r].pc \in Active /\ req'[r].pc = "done"
    BY DEF Answers
  <2>2. Step(r)
    BY AnsweredByStep
  <2>3. Consistent(r)
    BY DEF AllConsistent
  <2>4. \/ req'[r].status = 200 /\ \A d \in Dependencies : Seen(r, d, TRUE)
        \/ req'[r].status = 503 /\ \E d \in Dependencies : Seen(r, d, FALSE)
    BY <2>1, <2>2, <2>3, AnswerSeen
  <2>5. QED
    BY <2>1, <2>4 DEF Answers
<1>2. QED
  BY <1>1, Validation, ConsistentAlways, PTL DEF Spec, ReadySound

\* A request is answered 401 because of its sender, or on the guarded route
\* because a dependency was down while it was served; 500 and 503 mean that one
\* was.  A login that is neither locked nor wrong is never answered 401.
THEOREM RefusalsExplained == Spec => RefusalExplained
<1> DEFINE Explained ==
      \A r \in Requests :
        Answers(r, {401, 500, 503}) =>
          \/ Answers(r, {401}) /\ req[r].sender \in Objected
          \/ /\ \E d \in Dependencies : Seen(r, d, FALSE)
             /\ Answers(r, {401}) => req[r].route = "register"
<1>1. HostsValidated /\ AllConsistent /\ [Next]_vars => [Explained]_vars
  <2> SUFFICES ASSUME HostsValidated, AllConsistent, [Next]_vars,
                      NEW r \in Requests, Answers(r, {401, 500, 503})
               PROVE  \/ Answers(r, {401}) /\ req[r].sender \in Objected
                      \/ /\ \E d \in Dependencies : Seen(r, d, FALSE)
                         /\ Answers(r, {401}) => req[r].route = "register"
    OBVIOUS
  <2>1. /\ req[r].pc \in Active /\ req'[r].pc = "done"
        /\ req'[r].status \in {401, 500, 503}
    BY DEF Answers
  <2>2. Step(r)
    BY AnsweredByStep
  <2>3. Consistent(r)
    BY DEF AllConsistent
  <2>4. \/ req'[r].status = 401 /\ req[r].sender \in Objected
        \/ /\ \E d \in Dependencies : Seen(r, d, FALSE)
           /\ req'[r].status = 401 => req[r].route = "register"
    BY <2>1, <2>2, <2>3, AnswerSeen
  <2>5. QED
    BY <2>1, <2>4 DEF Answers
<1>2. QED
  BY <1>1, Validation, ConsistentAlways, PTL DEF Spec, RefusalExplained


-----------------------------------------------------------------------------
(***************************************************************************)
(* The throttler.  What an instance admitted in the window is in the       *)
(* memory of its throttler, which holds at most the limit, or was          *)
(* forgotten when it restarted, at most the limit each time.               *)
(***************************************************************************)

Throttles == {"login", "register"}
Held(i, route) == Of(route, counted[i])
Forgotten(i, route) ==
  {r \in Of(route, recent) : req[r].at = i /\ r \notin counted[i]}

WithinLimit(i, route) ==
  /\ Cardinality(Held(i, route)) <= Limit[route]
  /\ Cardinality(Forgotten(i, route)) <= Limit[route] * restarts[i]

ThrottleInv ==
  /\ counted \in [Instances -> SUBSET Requests]
  /\ \A i \in Instances : \A r \in counted[i] : r \in recent /\ req[r].at = i
  /\ recent \subseteq Requests
  /\ \A i \in Instances, route \in Throttles : WithinLimit(i, route)

LEMMA ThrottleFinite ==
  ASSUME ThrottleInv, NEW i \in Instances, NEW route
  PROVE  /\ IsFiniteSet(Held(i, route)) /\ Cardinality(Held(i, route)) \in Nat
         /\ IsFiniteSet(Forgotten(i, route))
         /\ Cardinality(Forgotten(i, route)) \in Nat
<1>1. Held(i, route) \subseteq Requests /\ Forgotten(i, route) \subseteq Requests
  BY DEF Held, Forgotten, Of, ThrottleInv
<1>2. QED
  BY <1>1, RequestsAssumption, FS_Subset, FS_CardinalityType

LEMMA BudgetType ==
  ASSUME HostsValidated, NEW i \in Instances, NEW route \in Throttles
  PROVE  /\ Limit[route] \in Nat \ {0} /\ restarts[i] \in Nat
         /\ Limit[route] * restarts[i] \in Nat
         /\ Limit[route] * (restarts[i] + 1) = Limit[route] * restarts[i] + Limit[route]
<1>1. Limit[route] \in Nat \ {0} /\ restarts[i] \in Nat
  BY LimitAssumption, BoundAssumption DEF Throttles, HostsValidated
<1>2. \A m, n \in Nat : m * n \in Nat /\ m * (n + 1) = m * n + m
  OBVIOUS
<1>3. QED
  BY <1>1, <1>2

LEMMA DisjointCardinality ==
  ASSUME NEW A, NEW B, IsFiniteSet(A), IsFiniteSet(B), A \cap B = {}
  PROVE  Cardinality(A \cup B) = Cardinality(A) + Cardinality(B)
<1>1. Cardinality(A) \in Nat /\ Cardinality(B) \in Nat
  BY FS_CardinalityType
<1>2. QED
  BY <1>1, FS_Union, FS_EmptySet

\* A step that admits nobody and restarts nothing.
LEMMA ThrottleStays ==
  ASSUME HostsValidated, ThrottleInv,
         \A r \in recent : req'[r].at = req[r].at /\ req'[r].route = req[r].route,
         counted' \in [Instances -> SUBSET Requests], recent' \subseteq recent,
         \A i \in Instances : /\ counted'[i] \subseteq counted[i] \cap recent'
                              /\ recent' \cap counted[i] \subseteq counted'[i],
         UNCHANGED restarts
  PROVE  ThrottleInv'
<1>1. /\ \A i \in Instances : \A r \in counted'[i] : r \in recent' /\ req'[r].at = i
      /\ recent' \subseteq Requests
  BY DEF ThrottleInv
<1>2. ASSUME NEW i \in Instances, NEW route \in Throttles
      PROVE  WithinLimit(i, route)'
  <2>1. WithinLimit(i, route) /\ counted[i] \subseteq recent
    BY DEF ThrottleInv
  <2>2. /\ Held(i, route)' \subseteq Held(i, route)
        /\ Forgotten(i, route)' \subseteq Forgotten(i, route)
    BY <2>1 DEF Held, Forgotten, Of
  <2>3. /\ Cardinality(Held(i, route)') <= Cardinality(Held(i, route))
        /\ Cardinality(Forgotten(i, route)') <= Cardinality(Forgotten(i, route))
        /\ Cardinality(Held(i, route)') \in Nat
        /\ Cardinality(Forgotten(i, route)') \in Nat
    BY <2>2, ThrottleFinite, FS_Subset, FS_CardinalityType
  <2>4. Limit[route] * restarts[i] \in Nat /\ Limit[route] \in Nat
    BY BudgetType
  <2>5. QED
    BY <2>1, <2>3, <2>4, ThrottleFinite DEF WithinLimit
<1>3. QED
  BY <1>1, <1>2 DEF ThrottleInv

\* The throttler counts the request that it admits.
LEMMA ThrottleArrive ==
  ASSUME HostsValidated, AllConsistent, ThrottleInv,
         NEW r \in Requests, NEW i \in Instances, NEW route \in Routes,
         NEW sender \in SendersTo(route), Arrive(r, i, route, sender)
  PROVE  ThrottleInv'
<1>0. /\ req \in [Requests -> RequestStates] /\ r \notin recent
      /\ \A j \in Instances : r \notin counted[j]
      /\ UNCHANGED restarts
      /\ \A q \in Requests \ {r} : req'[q] = req[q]
  <2>1. req \in [Requests -> RequestStates] /\ UNCHANGED restarts
    BY DEF Arrive, HostsValidated
  <2>2. r \notin recent
    BY DEF Arrive, AllConsistent, Consistent
  <2>3. \A j \in Instances : r \notin counted[j]
    BY <2>2 DEF ThrottleInv
  <2>4. \A q \in Requests \ {r} : req'[q] = req[q]
    BY <2>1 DEF Arrive
  <2>5. QED
    BY <2>1, <2>2, <2>3, <2>4
<1>1. CASE UNCHANGED <<counted, recent>>
  <2>1. \A q \in recent : req'[q] = req[q]
    BY <1>0 DEF ThrottleInv
  <2>2. QED
    BY <1>0, <1>1, <2>1, ThrottleStays DEF ThrottleInv
<1>2. CASE /\ ~Throttled(i, route) /\ route # "ready"
           /\ req'[r].at = i /\ req'[r].route = route
           /\ counted' = [counted EXCEPT ![i] = @ \cup {r}]
           /\ recent' = recent \cup {r}
  <2>1. /\ counted' \in [Instances -> SUBSET Requests]
        /\ recent' \subseteq Requests
        /\ \A j \in Instances : \A q \in counted'[j] : q \in recent' /\ req'[q].at = j
    BY <1>0, <1>2 DEF ThrottleInv
  <2>2. ASSUME NEW j \in Instances, NEW other \in Throttles
        PROVE  WithinLimit(j, other)'
    <3>1. /\ WithinLimit(j, other) /\ counted[j] \subseteq recent
          /\ recent \subseteq Requests /\ counted'[i] = counted[i] \cup {r}
          /\ j # i => counted'[j] = counted[j]
      BY <1>2 DEF ThrottleInv
    <3>2. Forgotten(j, other)' = Forgotten(j, other)
      BY <1>0, <1>2, <3>1 DEF Forgotten, Of
    <3>3. CASE j = i /\ other = route
      <4>1. Held(j, other)' = Held(j, other) \cup {r} /\ r \notin Held(j, other)
        BY <1>0, <1>2, <3>1, <3>3 DEF Held, Of
      <4>2. Cardinality(Held(j, other)') = Cardinality(Held(j, other)) + 1
        BY <4>1, ThrottleFinite, FS_AddElement
      <4>3. ~(Cardinality(Held(j, other)) >= Limit[other])
        BY <1>2, <3>3 DEF Throttled, Held
      <4>4. QED
        BY <1>0, <3>1, <3>2, <4>2, <4>3, ThrottleFinite, BudgetType
        DEF WithinLimit
    <3>4. CASE ~(j = i /\ other = route)
      <4>1. Held(j, other)' = Held(j, other)
        BY <1>0, <1>2, <3>1, <3>4 DEF Held, Of
      <4>2. QED
        BY <1>0, <3>1, <3>2, <4>1 DEF WithinLimit
    <3>5. QED
      BY <3>3, <3>4
  <2>3. QED
    BY <2>1, <2>2 DEF ThrottleInv
<1>3. QED
  <2>1. ASSUME NEW q \in RequestStates, req' = [req EXCEPT ![r] =
                 [q EXCEPT !.pc = FirstStage(route), !.at = i, !.life = restarts[i],
                    !.route = route, !.sender = sender,
                    !.seen = {<<d, IsUp(d)>> : d \in Dependencies}]]
        PROVE  req'[r].at = i /\ req'[r].route = route
    BY <1>0, <2>1 DEF RequestStates
  <2>2. ~Throttled(i, route) => req'[r].at = i /\ req'[r].route = route
    BY <1>0, <2>1 DEF Arrive
  <2>3. QED
    BY <1>1, <1>2, <2>2 DEF Arrive

\* A restart forgets what the throttler held: the limit once more.
LEMMA ThrottleRestart ==
  ASSUME HostsValidated, ThrottleInv, NEW i \in Instances, Restart(i)
  PROVE  ThrottleInv'
<1>0. /\ counted' = [counted EXCEPT ![i] = {}] /\ recent' = recent
      /\ restarts' = [restarts EXCEPT ![i] = @ + 1]
      /\ \A q \in Requests : req'[q].at = req[q].at /\ req'[q].route = req[q].route
  BY OverFields DEF Restart
<1>1. /\ counted' \in [Instances -> SUBSET Requests] /\ recent' \subseteq Requests
      /\ \A j \in Instances : \A q \in counted'[j] : q \in recent' /\ req'[q].at = j
  BY <1>0 DEF ThrottleInv
<1>2. ASSUME NEW j \in Instances, NEW route \in Throttles
      PROVE  WithinLimit(j, route)'
  <2>1. /\ WithinLimit(j, route) /\ counted[j] \subseteq recent
        /\ recent \subseteq Requests
    BY DEF ThrottleInv
  <2>2. CASE j # i
    <3>1. /\ Held(j, route)' = Held(j, route)
          /\ Forgotten(j, route)' = Forgotten(j, route)
          /\ restarts'[j] = restarts[j]
      BY <1>0, <2>1, <2>2 DEF Held, Forgotten, Of, ThrottleInv, HostsValidated
    <3>2. QED
      BY <2>1, <3>1 DEF WithinLimit
  <2>3. CASE j = i
    <3>1. Held(j, route)' = {} /\ restarts'[j] = restarts[j] + 1
      BY <1>0, <2>3 DEF Held, Of, ThrottleInv, HostsValidated
    <3>2. Forgotten(j, route)' \subseteq Held(j, route) \cup Forgotten(j, route)
      BY <1>0, <2>1 DEF Held, Forgotten, Of
    <3>3. Cardinality(Forgotten(j, route)')
            <= Cardinality(Held(j, route)) + Cardinality(Forgotten(j, route))
      <4>1. Held(j, route) \cap Forgotten(j, route) = {}
        BY DEF Held, Forgotten, Of
      <4>2. Cardinality(Held(j, route) \cup Forgotten(j, route))
              = Cardinality(Held(j, route)) + Cardinality(Forgotten(j, route))
        BY <4>1, ThrottleFinite, DisjointCardinality
      <4>3. IsFiniteSet(Held(j, route) \cup Forgotten(j, route))
        BY ThrottleFinite, FS_Union
      <4>4. Cardinality(Forgotten(j, route)')
              <= Cardinality(Held(j, route) \cup Forgotten(j, route))
        BY <3>2, <4>3, FS_Subset
      <4>5. QED
        BY <4>2, <4>4
    <3>4. Cardinality({}) = 0
      BY FS_EmptySet
    <3>5. /\ Limit[route] \in Nat
          /\ Cardinality(Held(j, route)') <= Limit[route]
      BY <3>1, <3>4, BudgetType
    <3>6. Cardinality(Forgotten(j, route)') <= Limit[route] * (restarts[j] + 1)
      <4>1. Cardinality(Forgotten(j, route)') \in Nat
        <5>1. Forgotten(j, route)' \subseteq Requests
          BY <1>0, <2>1 DEF Forgotten, Of
        <5>2. QED
          BY <5>1, RequestsAssumption, FS_Subset, FS_CardinalityType
      <4>2. QED
        BY <2>1, <3>3, <4>1, ThrottleFinite, BudgetType DEF WithinLimit
    <3>7. QED
      BY <3>1, <3>5, <3>6 DEF WithinLimit
  <2>4. QED
    BY <2>2, <2>3
<1>3. QED
  BY <1>1, <1>2 DEF ThrottleInv

LEMMA ThrottleAlways == Spec => []ThrottleInv
<1>1. Init => ThrottleInv
  <2> SUFFICES ASSUME Init PROVE ThrottleInv
    OBVIOUS
  <2>1. ASSUME NEW i \in Instances, NEW route \in Throttles
        PROVE  WithinLimit(i, route)
    <3>1. Held(i, route) = {} /\ Forgotten(i, route) = {} /\ restarts[i] = 0
      BY DEF Init, Held, Forgotten, Of
    <3>2. Limit[route] \in Nat /\ Limit[route] * 0 = 0
      BY LimitAssumption DEF Throttles
    <3>3. QED
      BY <3>1, <3>2, FS_EmptySet DEF WithinLimit
  <2>2. QED
    BY <2>1 DEF Init, ThrottleInv
<1>2. HostsValidated /\ AllConsistent /\ ThrottleInv /\ [Next]_vars => ThrottleInv'
  <2> SUFFICES ASSUME HostsValidated, AllConsistent, ThrottleInv, [Next]_vars
               PROVE  ThrottleInv'
    OBVIOUS
  <2>0. /\ counted \in [Instances -> SUBSET Requests] /\ recent \subseteq Requests
        /\ \A i \in Instances : counted[i] \subseteq recent
    BY DEF ThrottleInv
  <2>1. ASSUME NEW r \in Requests, Step(r)
        PROVE  ThrottleInv'
    <3>1. UNCHANGED <<counted, recent, restarts>>
      BY <2>1, StepFrame
    <3>2. \A q \in recent : req'[q].at = req[q].at /\ req'[q].route = req[q].route
      BY <2>0, <2>1, StepFrame
    <3>3. QED
      BY <2>0, <3>1, <3>2, ThrottleStays
  <2>2. ASSUME NEW d \in Dependencies, Toggle(d)
        PROVE  ThrottleInv'
    <3>1. \A q \in recent : req'[q].at = req[q].at /\ req'[q].route = req[q].route
      BY <2>0, <2>2 DEF Toggle, HostsValidated, RequestStates
    <3>2. UNCHANGED <<counted, recent, restarts>>
      BY <2>2 DEF Toggle
    <3>3. QED
      BY <2>0, <3>1, <3>2, ThrottleStays
  <2>3. ASSUME NEW r \in Requests, Elapse(r)
        PROVE  ThrottleInv'
    <3>1. /\ recent' = recent \ {r} /\ UNCHANGED <<req, restarts>>
          /\ counted' = [i \in Instances |-> counted[i] \ {r}]
      BY <2>3 DEF Elapse
    <3>2. /\ counted' \in [Instances -> SUBSET Requests] /\ recent' \subseteq recent
          /\ \A i \in Instances : /\ counted'[i] \subseteq counted[i] \cap recent'
                                  /\ recent' \cap counted[i] \subseteq counted'[i]
      BY <2>0, <3>1
    <3>3. QED
      BY <3>1, <3>2, ThrottleStays
  <2>4. CASE UNCHANGED vars
    <3>1. UNCHANGED <<req, counted, recent, restarts>>
      BY <2>4 DEF vars
    <3>2. QED
      BY <2>0, <3>1, ThrottleStays
  <2>5. QED
    BY <2>1, <2>2, <2>3, <2>4, ThrottleArrive, ThrottleRestart DEF Next
<1>3. QED
  BY <1>1, <1>2, Validation, ConsistentAlways, PTL DEF Spec

\* An instance admits, in any window, at most the limit of a route for each
\* time it was started: the counters of the throttler are in its memory.
THEOREM AdmissionsBounded == Spec => []AdmittedBounded
<1>1. HostsValidated /\ ThrottleInv => AdmittedBounded
  <2> SUFFICES ASSUME HostsValidated, ThrottleInv,
                      NEW i \in Instances, NEW route \in Throttles
               PROVE  Cardinality({r \in Of(route, recent) : req[r].at = i})
                        <= Limit[route] * (1 + restarts[i])
    BY DEF AdmittedBounded, Throttles
  <2> DEFINE Admitted == {r \in Of(route, recent) : req[r].at = i}
  <2>1. /\ Admitted = Held(i, route) \cup Forgotten(i, route)
        /\ Held(i, route) \cap Forgotten(i, route) = {}
    BY DEF ThrottleInv, Held, Forgotten, Of
  <2>2. Cardinality(Admitted) = Cardinality(Held(i, route))
                                  + Cardinality(Forgotten(i, route))
    BY <2>1, ThrottleFinite, DisjointCardinality
  <2>3. WithinLimit(i, route)
    BY DEF ThrottleInv
  <2> HIDE DEF Admitted
  <2>4. Cardinality(Admitted) <= Limit[route] * (restarts[i] + 1)
    BY <2>2, <2>3, ThrottleFinite, BudgetType DEF WithinLimit
  <2>5. restarts[i] + 1 = 1 + restarts[i]
    BY BudgetType
  <2>6. QED
    BY <2>4, <2>5 DEF Admitted
<1>2. QED
  BY <1>1, Validation, ThrottleAlways, PTL


-----------------------------------------------------------------------------
(***************************************************************************)
(* The counters of the metrics.  Each step moves a request into the gauge, *)
(* moves it from the gauge to the total, or leaves both alone; a request   *)
(* that fails inside an instance stays in the gauge for good.              *)
(***************************************************************************)

\* In the gauge: in a handler, or ended there by an exception.
Busy(q) ==
  \/ q.pc = "handler"
  \/ /\ q.pc = "done" /\ q.status \notin {429, 403, 200, 201}
     /\ ~(q.status = 401 /\ q.route = "register")
Served(q) == q.pc = "done" /\ q.status \in {200, 201}

Here(q, i) == q.at = i /\ q.life = restarts[i]
BusyAt(i) == {r \in Requests : Busy(req[r]) /\ Here(req[r], i)}
ServedAt(i) == {r \in Requests : Served(req[r]) /\ Here(req[r], i)}

MetricsInv ==
  /\ up \subseteq Dependencies
  /\ metrics \in [Instances -> [active : Nat, total : Nat, errors : Nat]]
  /\ \A i \in Instances : /\ metrics[i].active = Cardinality(BusyAt(i))
                          /\ metrics[i].total = Cardinality(ServedAt(i))

LEMMA MetricsFinite ==
  ASSUME NEW i
  PROVE  IsFiniteSet(BusyAt(i)) /\ IsFiniteSet(ServedAt(i))
BY RequestsAssumption, FS_Subset DEF BusyAt, ServedAt

\* A request enters the gauge when it is intercepted, and leaves it when its
\* handler returns; no other step of a request moves it.
LEMMA StepMoves ==
  ASSUME HostsValidated, NEW r \in Requests, Consistent(r), Step(r)
  PROVE  \/ /\ metrics' = metrics
            /\ Busy(req'[r]) <=> Busy(req[r])
            /\ Served(req'[r]) <=> Served(req[r])
         \/ /\ metrics' = [metrics EXCEPT ![req[r].at].active = @ + 1]
            /\ ~Busy(req[r]) /\ Busy(req'[r])
            /\ ~Served(req[r]) /\ ~Served(req'[r])
         \/ /\ \E status \in {200, 201} :
                 metrics' = [metrics EXCEPT ![req[r].at] = Tapped(@, status)]
            /\ Busy(req[r]) /\ ~Busy(req'[r])
            /\ ~Served(req[r]) /\ Served(req'[r])
<1>0. req[r] \in RequestStates /\ req \in [Requests -> RequestStates]
  BY DEF HostsValidated
<1>1. CASE Blacklist(r)
  <2>1. /\ req[r].pc = "blacklist" /\ req[r].route = "register"
        /\ metrics' = metrics
    BY <1>1 DEF Blacklist, Consistent
  <2>2. CASE req' = [req EXCEPT ![r].pc = "load"]
    <3>1. req'[r].pc = "load"
      BY <1>0, <2>2 DEF RequestStates
    <3>2. QED
      BY <2>1, <3>1 DEF Busy, Served
  <2>3. CASE Fail(r, 401)
    BY <2>1, <2>3, FailFields DEF Busy, Served
  <2>4. QED
    BY <1>1, <2>2, <2>3 DEF Blacklist
<1>2. CASE LoadUser(r)
  <2>1. /\ req[r].pc = "load" /\ req[r].route = "register"
        /\ metrics' = metrics
    BY <1>2 DEF LoadUser, Consistent
  <2>2. CASE req' = [req EXCEPT ![r].pc = "pipe"]
    <3>1. req'[r].pc = "pipe"
      BY <1>0, <2>2 DEF RequestStates
    <3>2. QED
      BY <2>1, <3>1 DEF Busy, Served
  <2>3. CASE Fail(r, 401)
    BY <2>1, <2>3, FailFields DEF Busy, Served
  <2>4. CASE Fail(r, 403)
    BY <2>1, <2>4, FailFields DEF Busy, Served
  <2>5. QED
    BY <1>2, <2>2, <2>3, <2>4 DEF LoadUser
<1>3. CASE Intercept(r)
  <2>1. /\ req[r].pc = "pipe"
        /\ metrics' = [metrics EXCEPT ![req[r].at].active = @ + 1]
    BY <1>3 DEF Intercept
  <2>2. ASSUME NEW host,
               req' = [req EXCEPT ![r].pc = "handler", ![r].host = host,
                         ![r].left = Awaits(req[r].route, req[r].sender)]
        PROVE  req'[r].pc = "handler"
    BY <1>0, <2>2 DEF RequestStates
  <2>3. CASE req'[r].pc = "handler"
    BY <2>1, <2>3 DEF Busy, Served
  <2>4. CASE Fail(r, 400)
    <3>1. req'[r].pc = "done" /\ req'[r].status = 400
      BY <2>4, FailFields
    <3>2. QED
      BY <2>1, <3>1 DEF Busy, Served
  <2>5. QED
    BY <1>3, <2>2, <2>3, <2>4 DEF Intercept
<1>4. CASE Query(r)
  <2>1. req[r].pc = "handler" /\ metrics' = metrics
    BY <1>4 DEF Query
  <2>2. CASE Fail(r, 500)
    <3>1. req'[r].pc = "done" /\ req'[r].status = 500
      BY <2>2, FailFields
    <3>2. QED
      BY <2>1, <3>1 DEF Busy, Served
  <2>3. CASE req' = [req EXCEPT ![r].left = Tail(@),
                       ![r].healthy = Noted(r, Head(req[r].left))]
    <3>1. req'[r].pc = "handler"
      BY <1>0, <2>1, <2>3 DEF RequestStates
    <3>2. QED
      BY <2>1, <3>1 DEF Busy, Served
  <2>4. QED
    BY <1>4, <2>2, <2>3 DEF Query
<1>5. CASE Finish(r)
  <2>1. req[r].pc = "handler"
    BY <1>5 DEF Finish
  <2>2. CASE Fail(r, 503) /\ metrics' = metrics
    <3>1. req'[r].pc = "done" /\ req'[r].status = 503
      BY <2>2, FailFields
    <3>2. QED
      BY <2>1, <2>2, <3>1 DEF Busy, Served
  <2>3. CASE req[r].route = "login" /\ Fail(r, 401) /\ metrics' = metrics
    <3>1. /\ req'[r].pc = "done" /\ req'[r].status = 401
          /\ req'[r].route = "login"
      BY <2>3, FailFields
    <3>2. QED
      BY <2>1, <2>3, <3>1 DEF Busy, Served
  <2>4. ASSUME NEW status \in {200, 201}, Succeed(r, status)
        PROVE  /\ metrics' = [metrics EXCEPT ![req[r].at] = Tapped(@, status)]
               /\ Busy(req[r]) /\ ~Busy(req'[r])
               /\ ~Served(req[r]) /\ Served(req'[r])
    <3>1. Fail(r, status)
      BY <2>4 DEF Succeed, Fail
    <3>2. req'[r].pc = "done" /\ req'[r].status = status
      BY <3>1, FailFields
    <3>3. QED
      BY <2>1, <2>4, <3>2 DEF Succeed, Busy, Served
  <2>5. (IF req[r].route = "register" THEN 201 ELSE 200) \in {200, 201}
    OBVIOUS
  <2>6. QED
    BY <1>5, <2>2, <2>3, <2>4, <2>5 DEF Finish
<1>6. QED
  BY <1>1, <1>2, <1>3, <1>4, <1>5 DEF Step

LEMMA MetricsStep ==
  ASSUME HostsValidated, AllConsistent, MetricsInv, NEW r \in Requests, Step(r)
  PROVE  MetricsInv'
<1>a. PICK o \in Instances : o = req[r].at
  BY StepFrame DEF AllConsistent, Consistent
<1>0. /\ Here(req[r], o) /\ Consistent(r)
      /\ \A i \in Instances \ {o} : ~Here(req[r], i)
  BY <1>a, StepFrame DEF AllConsistent, Consistent, Here
<1>1. /\ \A i \in Instances : Here(req[r], i)' <=> Here(req[r], i)
      /\ \A q \in Requests \ {r} : req'[q] = req[q]
      /\ UNCHANGED <<up, restarts>>
  BY StepFrame DEF Here
<1>2. ASSUME NEW i \in Instances \ {o}
      PROVE  BusyAt(i)' = BusyAt(i) /\ ServedAt(i)' = ServedAt(i)
  BY <1>0, <1>1 DEF BusyAt, ServedAt, Here
<1>3. CASE /\ metrics' = metrics
           /\ Busy(req'[r]) <=> Busy(req[r])
           /\ Served(req'[r]) <=> Served(req[r])
  <2>1. BusyAt(o)' = BusyAt(o) /\ ServedAt(o)' = ServedAt(o)
    BY <1>0, <1>1, <1>3 DEF BusyAt, ServedAt, Here
  <2>2. QED
    BY <1>1, <1>2, <1>3, <2>1 DEF MetricsInv
<1>4. CASE /\ metrics' = [metrics EXCEPT ![o].active = @ + 1]
           /\ ~Busy(req[r]) /\ Busy(req'[r])
           /\ ~Served(req[r]) /\ ~Served(req'[r])
  <2>1. /\ BusyAt(o)' = BusyAt(o) \cup {r} /\ r \notin BusyAt(o)
        /\ ServedAt(o)' = ServedAt(o)
    BY <1>0, <1>1, <1>4 DEF BusyAt, ServedAt, Here
  <2>2. Cardinality(BusyAt(o)') = Cardinality(BusyAt(o)) + 1
    BY <2>1, MetricsFinite, FS_AddElement
  <2>3. /\ metrics' \in [Instances -> [active : Nat, total : Nat, errors : Nat]]
        /\ metrics'[o].active = metrics[o].active + 1
        /\ metrics'[o].total = metrics[o].total
        /\ \A i \in Instances \ {o} : metrics'[i] = metrics[i]
    BY <1>0, <1>4 DEF MetricsInv
  <2>4. QED
    BY <1>1, <1>2, <2>1, <2>2, <2>3 DEF MetricsInv
<1>5. ASSUME NEW status \in {200, 201},
             metrics' = [metrics EXCEPT ![o] = Tapped(@, status)],
             Busy(req[r]), ~Busy(req'[r]), ~Served(req[r]), Served(req'[r])
      PROVE  MetricsInv'
  <2>1. /\ BusyAt(o)' = BusyAt(o) \ {r} /\ r \in BusyAt(o)
        /\ ServedAt(o)' = ServedAt(o) \cup {r} /\ r \notin ServedAt(o)
    BY <1>0, <1>1, <1>5 DEF BusyAt, ServedAt, Here
  <2>2. /\ Cardinality(BusyAt(o)') = Cardinality(BusyAt(o)) - 1
        /\ Cardinality(BusyAt(o)') \in Nat
        /\ Cardinality(ServedAt(o)') = Cardinality(ServedAt(o)) + 1
    <3>1. /\ Cardinality(BusyAt(o) \ {r}) = Cardinality(BusyAt(o)) - 1
          /\ IsFiniteSet(BusyAt(o) \ {r})
      BY <2>1, MetricsFinite, FS_RemoveElement
    <3>2. Cardinality(ServedAt(o) \cup {r}) = Cardinality(ServedAt(o)) + 1
      BY <2>1, MetricsFinite, FS_AddElement
    <3>3. Cardinality(BusyAt(o) \ {r}) \in Nat
      BY <3>1, FS_CardinalityType
    <3>4. QED
      BY <2>1, <3>1, <3>2, <3>3
  <2>3. /\ metrics'[o] = Tapped(metrics[o], status)
        /\ \A i \in Instances \ {o} : metrics'[i] = metrics[i]
        /\ metrics[o] \in [active : Nat, total : Nat, errors : Nat]
    BY <1>0, <1>5 DEF MetricsInv
  <2>4. /\ Tapped(metrics[o], status).active = metrics[o].active - 1
        /\ Tapped(metrics[o], status).total = metrics[o].total + 1
    BY DEF Tapped
  <2>5. /\ metrics[o].active = Cardinality(BusyAt(o))
        /\ metrics[o].total = Cardinality(ServedAt(o))
    BY <1>0 DEF MetricsInv
  <2>6. Tapped(metrics[o], status) \in [active : Nat, total : Nat, errors : Nat]
    BY <2>2, <2>3, <2>5 DEF Tapped
  <2>7. metrics' \in [Instances -> [active : Nat, total : Nat, errors : Nat]]
    BY <1>5, <2>6 DEF MetricsInv
  <2>8. QED
    BY <1>1, <1>2, <2>2, <2>3, <2>4, <2>5, <2>7 DEF MetricsInv
<1>6. QED
  BY <1>a, <1>0, <1>3, <1>4, <1>5, StepMoves

\* A step that moves no request in or out.
LEMMA MetricsStay ==
  ASSUME MetricsInv, UNCHANGED <<metrics, restarts>>, up' \subseteq Dependencies,
         \A r \in Requests :
           \/ /\ req'[r].at = req[r].at /\ req'[r].life = req[r].life
              /\ Busy(req'[r]) <=> Busy(req[r])
              /\ Served(req'[r]) <=> Served(req[r])
           \/ /\ ~Busy(req[r]) /\ ~Busy(req'[r])
              /\ ~Served(req[r]) /\ ~Served(req'[r])
  PROVE  MetricsInv'
<1>1. ASSUME NEW i \in Instances
      PROVE  BusyAt(i)' = BusyAt(i) /\ ServedAt(i)' = ServedAt(i)
  BY DEF BusyAt, ServedAt, Here
<1>2. QED
  BY <1>1 DEF MetricsInv

LEMMA MetricsArrive ==
  ASSUME HostsValidated, AllConsistent, MetricsInv,
         NEW r \in Requests, NEW i \in Instances, NEW route \in Routes,
         NEW sender \in SendersTo(route), Arrive(r, i, route, sender)
  PROVE  MetricsInv'
<1> DEFINE q == [req[r] EXCEPT
                  !.pc = FirstStage(route), !.at = i, !.life = restarts[i],
                  !.route = route, !.sender = sender,
                  !.seen = {<<d, IsUp(d)>> : d \in Dependencies}]
<1>0. /\ req[r].pc = "new" /\ req \in [Requests -> RequestStates]
      /\ UNCHANGED <<metrics, restarts, up>>
  BY DEF Arrive, HostsValidated
<1>1. q.pc = FirstStage(route)
  BY <1>0 DEF RequestStates
<1>2. \/ req' = [req EXCEPT ![r] = q]
      \/ req' = [req EXCEPT ![r] = Over(q, "done", 429)]
  BY DEF Arrive
<1> HIDE DEF q
<1>3. req'[r] \in {q, Over(q, "done", 429)}
  BY <1>0, <1>2
<1>4. ~Busy(q) /\ ~Served(q)
  BY <1>1 DEF Busy, Served, FirstStage
<1>5. ~Busy(Over(q, "done", 429)) /\ ~Served(Over(q, "done", 429))
  BY OverFields DEF Busy, Served
<1>6. ~Busy(req[r]) /\ ~Served(req[r])
  BY <1>0 DEF Busy, Served
<1>7. \A p \in Requests \ {r} : req'[p] = req[p]
  BY <1>0, <1>2
<1>8. QED
  BY <1>0, <1>3, <1>4, <1>5, <1>6, <1>7, MetricsStay DEF MetricsInv

\* The counters start again with nobody in them.
LEMMA MetricsRestart ==
  ASSUME HostsValidated, AllConsistent, MetricsInv, NEW i \in Instances, Restart(i)
  PROVE  MetricsInv'
<1>0. /\ metrics' = [metrics EXCEPT ![i] = Fresh] /\ up' = up
      /\ restarts' = [restarts EXCEPT ![i] = @ + 1]
      /\ restarts \in [Instances -> Nat]
  BY BoundAssumption DEF Restart, HostsValidated
<1>1. \A r \in Requests :
        /\ req'[r].at = req[r].at /\ req'[r].life = req[r].life
        /\ req[r].at # i => req'[r] = req[r]
  BY OverFields DEF Restart
<1>2. BusyAt(i)' = {} /\ ServedAt(i)' = {}
  <2>1. ASSUME NEW r \in Requests
        PROVE  ~Here(req[r], i)'
    <3>1. req[r].at = i => req[r].life <= restarts[i]
      BY DEF AllConsistent, Consistent
    <3>2. req[r].life \in Nat
      BY BoundAssumption DEF HostsValidated, RequestStates
    <3>3. restarts'[i] = restarts[i] + 1 /\ restarts[i] \in Nat
      BY <1>0
    <3>4. req[r].at = i => req'[r].life # restarts'[i]
      BY <1>1, <3>1, <3>2, <3>3
    <3>5. QED
      BY <1>1, <3>4 DEF Here
  <2>2. QED
    BY <2>1 DEF BusyAt, ServedAt, Here
<1>3. ASSUME NEW j \in Instances \ {i}
      PROVE  /\ BusyAt(j)' = BusyAt(j) /\ ServedAt(j)' = ServedAt(j)
             /\ metrics'[j] = metrics[j]
  <2>1. restarts'[j] = restarts[j] /\ metrics'[j] = metrics[j]
    BY <1>0 DEF MetricsInv
  <2>2. QED
    BY <1>1, <2>1 DEF BusyAt, ServedAt, Here
<1>4. /\ metrics'[i] = Fresh /\ Fresh.active = 0 /\ Fresh.total = 0
      /\ metrics' \in [Instances -> [active : Nat, total : Nat, errors : Nat]]
  BY <1>0 DEF MetricsInv, Fresh
<1>5. QED
  BY <1>0, <1>2, <1>3, <1>4, FS_EmptySet DEF MetricsInv

LEMMA MetricsAlways == Spec => []MetricsInv
<1>1. Init => MetricsInv
  <2> SUFFICES ASSUME Init PROVE MetricsInv
    OBVIOUS
  <2>1. \A i : BusyAt(i) = {} /\ ServedAt(i) = {}
    BY DEF Init, BusyAt, ServedAt, Busy, Served, New
  <2>2. QED
    BY <2>1, FS_EmptySet DEF Init, MetricsInv, Fresh
<1>2. HostsValidated /\ AllConsistent /\ MetricsInv /\ [Next]_vars => MetricsInv'
  <2> SUFFICES ASSUME HostsValidated, AllConsistent, MetricsInv, [Next]_vars
               PROVE  MetricsInv'
    OBVIOUS
  <2>1. ASSUME NEW d \in Dependencies, Toggle(d)
        PROVE  MetricsInv'
    <3>1. UNCHANGED <<metrics, restarts>> /\ up' \subseteq Dependencies
      BY <2>1 DEF Toggle, MetricsInv
    <3>2. \A r \in Requests :
            /\ req'[r].at = req[r].at /\ req'[r].life = req[r].life
            /\ req'[r].pc = req[r].pc /\ req'[r].status = req[r].status
            /\ req'[r].route = req[r].route
      BY <2>1 DEF Toggle, HostsValidated, RequestStates
    <3>3. QED
      BY <3>1, <3>2, MetricsStay DEF Busy, Served
  <2>2. CASE UNCHANGED vars \/ \E r \in Requests : Elapse(r)
    <3>1. UNCHANGED <<req, metrics, restarts, up>>
      BY <2>2 DEF vars, Elapse
    <3>2. QED
      BY <3>1, MetricsStay DEF MetricsInv
  <2>3. QED
    BY <2>1, <2>2, MetricsStep, MetricsArrive, MetricsRestart DEF Next
<1>3. QED
  BY <1>1, <1>2, Validation, ConsistentAlways, PTL DEF Spec

\* The gauge of an instance counts the requests in its handlers and every
\* request that failed there since it started, and its total the successes.
THEOREM MetricsAreAsTheyMean == Spec => []MetricsMeaning
<1>1. HostsValidated /\ AllConsistent /\ MetricsInv => MetricsMeaning
  <2> SUFFICES ASSUME HostsValidated, AllConsistent, MetricsInv,
                      NEW i \in Instances
               PROVE  /\ Entered(i) \ Succeeded = BusyAt(i)
                      /\ Entered(i) \cap Succeeded = ServedAt(i)
    BY DEF MetricsMeaning, MetricsInv
  <2>1. ASSUME NEW r \in Requests
        PROVE  /\ r \in Entered(i) \ Succeeded <=> r \in BusyAt(i)
               /\ r \in Entered(i) \cap Succeeded <=> r \in ServedAt(i)
    <3>1. req[r].pc = "handler" => req[r].status = 0
      BY DEF AllConsistent, Consistent, Active
    <3>2. QED
      BY <3>1 DEF Entered, Answered, Refused, Succeeded, BusyAt, ServedAt,
                  Busy, Served, Here
  <2>2. Entered(i) \subseteq Requests
    BY DEF Entered
  <2>3. BusyAt(i) \subseteq Requests /\ ServedAt(i) \subseteq Requests
    BY DEF BusyAt, ServedAt
  <2>4. QED
    BY <2>1, <2>2, <2>3
<1>2. QED
  BY <1>1, Validation, ConsistentAlways, MetricsAlways, PTL

\* Every variable has its type, and the throttler of an instance remembers
\* only requests of the window that the instance itself admitted.
THEOREM TypeCorrect == Spec => []TypeOK
<1>1. HostsValidated /\ ThrottleInv /\ MetricsInv => TypeOK
  BY DEF HostsValidated, Validated, ThrottleInv, MetricsInv, TypeOK
<1>2. QED
  BY <1>1, Validation, ThrottleAlways, MetricsAlways, PTL
=============================================================================
