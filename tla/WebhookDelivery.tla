-------------------------- MODULE WebhookDelivery --------------------------
(***************************************************************************)
(* The life of a status change: ApplicationsService.updateStatus saves it  *)
(* and emits application.status_changed, and WebhooksService delivers the  *)
(* event to the employer.                                                  *)
(*                                                                         *)
(* An event is a process, and stands for the review it comes from and for  *)
(* the status that review sets.  Its listener looks up the employer's URL, *)
(* posts the payload, logs the answer, and when posting OR logging threw   *)
(* waits five seconds and starts again, once.  The POST that a row or a    *)
(* message belongs to is the pair of the event and its attempt, 1 or 2.    *)
(* How concurrent reviews share the columns of a row is in Recruitment.    *)
(***************************************************************************)
EXTENDS Naturals, FiniteSets

CONSTANTS
  Events,     \* bound: status changes that are ever made
  Apps,       \* applications
  Pending     \* the status an application is created with

ASSUME AppsAssumption == Apps # {}
ASSUME PendingAssumption == Pending \notin Events

VARIABLES
  apps,      \* applications in the database
  deleted,   \* history: applications that were ever deleted
  status,    \* the status of each application, by the event it is told in
  job,       \* where the delivery of each event is
  late,      \* POSTs that timed out and are still on their way
  received,  \* history: POSTs the receiver got
  answered,  \* history: POSTs that were answered with a 2xx in time
  logs,      \* the webhook_logs table
  failed,    \* history: events for which a query of logDelivery() failed
  heard,     \* history: the status the receiver was told last
  crossed    \* history: applications whose status was changed before the
             \* change before it had run its course

vars == <<apps, deleted, status, job, late, received, answered, logs,
          failed, heard, crossed>>
\* What a step of a delivery that sends nothing leaves alone.
others == <<apps, deleted, status, late, received, answered, heard,
            crossed>>

Attempts == {1, 2}
Posts == Events \X Attempts

\* What extractStatusCode() leaves of the outcome of a POST.
Statuses == {"2xx", "error", "null"}

\* Rows of webhook_logs; from tells which of the two calls of logDelivery()
\* wrote it, the one after a POST or the one that gives up.
LogRows == [event : Events, attempt : Attempts, from : {"post", "catch"},
            status : Statuses]

Stages == {"none", "saved", "lookup", "post", "wait", "find", "save", "done", "lost"}

\* app has a meaning from "saved" on, from and status from "find" on.
Jobs == [pc : Stages, app : Apps, attempt : Attempts,
         from : {"post", "catch"}, status : Statuses]

Ended == {"done", "lost"}

Goto(e, stage) == job' = [job EXCEPT ![e].pc = stage]

Init ==
  /\ apps = Apps
  /\ deleted = {}
  /\ status = [a \in Apps |-> Pending]
  /\ job = [e \in Events |-> [pc |-> "none", app |-> CHOOSE a \in Apps : TRUE,
                              attempt |-> 1, from |-> "post", status |-> "null"]]
  /\ late = {}
  /\ received = {}
  /\ answered = {}
  /\ logs = {}
  /\ failed = {}
  /\ heard = [a \in Apps |-> Pending]
  /\ crossed = {}

-----------------------------------------------------------------------------
\* No change of the status of an application is under way: none is being
\* announced, and no POST about it is on its way.
Quiet(a) ==
  /\ \A e \in Events : job[e].app = a => job[e].pc \in Ended \cup {"none"}
  /\ \A p \in late : job[p[1]].app # a

\* Mutant of SaveStatus: the event is emitted also when save() throws.
SaveOrNot(e, a) ==
  /\ job[e].pc = "none"
  /\ apps' = apps \cup {a}
  /\ \E saved \in {e, status[a]} : status' = [status EXCEPT ![a] = saved]
  /\ job' = [job EXCEPT ![e].pc = "saved", ![e].app = a]
  /\ crossed' = IF Quiet(a) THEN crossed ELSE crossed \cup {a}
  /\ UNCHANGED <<deleted, late, received, answered, logs, failed,
                 heard>>

\* save() of updateStatus(): the status is in the database.  If the application
\* was deleted after the review had read it, it is inserted again, under a job
\* that another save() has inserted again.
SaveStatus(e, a) ==
  /\ job[e].pc = "none"
  /\ apps' = apps \cup {a}
  /\ status' = [status EXCEPT ![a] = e]
  /\ job' = [job EXCEPT ![e].pc = "saved", ![e].app = a]
  /\ crossed' = IF Quiet(a) THEN crossed ELSE crossed \cup {a}
  /\ UNCHANGED <<deleted, late, received, answered, logs, failed,
                 heard>>

\* emit() of the event, whether or not the application is still there.
Emit(e) ==
  /\ job[e].pc = "saved"
  /\ Goto(e, "lookup")
  /\ UNCHANGED <<others, logs, failed>>

\* findOne() of the employer: nothing to deliver without a URL.  Whether there
\* is one is up to requests that are served meanwhile: see Accounts for the
\* save() that writes it, and for the one that writes back an old null.
Lookup(e) ==
  /\ job[e].pc = "lookup"
  /\ Goto(e, "post") \/ Goto(e, "done")
  /\ UNCHANGED <<others, logs, failed>>

\* Mutant of Catch: the second failure is not logged.
CatchSilently(e, code) ==
  Goto(e, IF job[e].attempt = 1 THEN "wait" ELSE "done")

\* Mutant of Catch: the failure of the first attempt is logged at once, as a
\* delivery that was answered.
CatchAsAnswered(e, code) ==
  job' = [job EXCEPT ![e].pc = "find", ![e].from = "post", ![e].status = "2xx"]

\* Mutant of Catch: one attempt more than the code makes.
CatchOneMore(e, code) ==
  IF job[e].attempt <= 2
  THEN Goto(e, "wait")
  ELSE job' = [job EXCEPT ![e].pc = "find", ![e].from = "catch",
                          ![e].status = code]

\* The catch block of deliver(): the first attempt is tried again after a
\* delay, the second is logged with the status code, if there is one.
Catch(e, code) ==
  IF job[e].attempt = 1
  THEN Goto(e, "wait")
  ELSE job' = [job EXCEPT ![e].pc = "find", ![e].from = "catch",
                          ![e].status = code]

\* The receiver gets a POST: from now on it believes its status.
Receive(p) ==
  /\ received' = received \cup {p}
  /\ heard' = [heard EXCEPT ![job[p[1]].app] = p[1]]

\* axios.post() is answered with a 2xx.
PostAnswered(e) ==
  LET p == <<e, job[e].attempt>> IN
  /\ job[e].pc = "post"
  /\ Receive(p)
  /\ answered' = answered \cup {p}
  /\ job' = [job EXCEPT ![e].pc = "find", ![e].from = "post",
                        ![e].status = "2xx"]
  /\ UNCHANGED <<apps, deleted, status, late, logs, failed, crossed>>

\* It is answered with another status.
PostRefused(e) ==
  /\ job[e].pc = "post"
  /\ Receive(<<e, job[e].attempt>>)
  /\ Catch(e, "error")
  /\ UNCHANGED <<apps, deleted, status, late, answered, logs, failed,
                 crossed>>

\* It is not answered within five seconds: the receiver has it without
\* having answered, or may still get it.
PostTimedOut(e) ==
  LET p == <<e, job[e].attempt>> IN
  /\ job[e].pc = "post"
  /\ \/ Receive(p) /\ UNCHANGED late
     \/ late' = late \cup {p} /\ UNCHANGED <<received, heard>>
  /\ Catch(e, "null")
  /\ UNCHANGED <<apps, deleted, status, answered, logs, failed,
                 crossed>>

\* The receiver cannot be reached.
PostUnreachable(e) ==
  /\ job[e].pc = "post"
  /\ Catch(e, "null")
  /\ UNCHANGED <<others, logs, failed>>

\* The delay of five seconds is over; the second attempt has the URL and the
\* payload of the first.
Wait(e) ==
  /\ job[e].pc = "wait"
  /\ job' = [job EXCEPT ![e].pc = "post", ![e].attempt = @ + 1]
  /\ UNCHANGED <<others, logs, failed>>

\* logDelivery() looks the application up, and returns when it is gone.
LogFind(e) ==
  /\ job[e].pc = "find"
  /\ Goto(e, IF job[e].app \in apps THEN "save" ELSE "done")
  /\ UNCHANGED <<others, logs, failed>>

LogRow(e) == [event |-> e, attempt |-> job[e].attempt, from |-> job[e].from,
              status |-> job[e].status]

\* Mutant of LogSave: the delivery goes on as if it had failed.
LogSaveFallsThrough(e) ==
  /\ job[e].pc = "save"
  /\ job[e].app \in apps
  /\ logs' = logs \cup {LogRow(e)}
  /\ Catch(e, "null")
  /\ UNCHANGED <<others, failed>>

\* INSERT of the log.
LogSave(e) ==
  /\ job[e].pc = "save"
  /\ job[e].app \in apps
  /\ logs' = logs \cup {LogRow(e)}
  /\ Goto(e, "done")
  /\ UNCHANGED <<others, failed>>

\* logDelivery() throws.  After a POST it is called inside the try block, so
\* that a delivery which was answered is caught as a failed one; in the catch
\* block nothing is left to do.
LogThrows(e) ==
  IF job[e].from = "post" THEN Catch(e, "null") ELSE Goto(e, "done")

\* The application was deleted since it was looked up: the INSERT violates
\* its foreign key.
LogOrphan(e) ==
  /\ job[e].pc = "save"
  /\ job[e].app \notin apps
  /\ LogThrows(e)
  /\ UNCHANGED <<others, logs, failed>>

\* A query of logDelivery() fails; when the connection breaks after the
\* INSERT was committed, the row stays.
LogFails(e) ==
  /\ \/ job[e].pc \in {"find", "save"} /\ UNCHANGED logs
     \/ /\ job[e].pc = "save" /\ job[e].app \in apps
        /\ logs' = logs \cup {LogRow(e)}
  /\ LogThrows(e)
  /\ failed' = failed \cup {e}
  /\ UNCHANGED others

\* The lookup of the employer fails; the listener's error is swallowed by
\* the event emitter.
LookupFails(e) ==
  /\ job[e].pc = "lookup"
  /\ Goto(e, "lost")
  /\ UNCHANGED <<others, logs, failed>>

-----------------------------------------------------------------------------
\* The environment.

\* The job of an application is deleted: both foreign keys cascade.
Delete(a) ==
  /\ a \in apps
  /\ apps' = apps \ {a}
  /\ deleted' = deleted \cup {a}
  /\ logs' = {l \in logs : job[l.event].app # a}
  /\ UNCHANGED <<status, job, late, received, answered, failed, heard,
                 crossed>>

\* A POST that timed out reaches the receiver after all, or never.
LateArrives(p) ==
  /\ p \in late
  /\ late' = late \ {p}
  /\ Receive(p)
  /\ UNCHANGED <<apps, deleted, status, job, answered, logs, failed,
                 crossed>>

LateLost(p) ==
  /\ p \in late
  /\ late' = late \ {p}
  /\ UNCHANGED <<apps, deleted, status, job, received, answered, logs,
                 failed, heard, crossed>>

\* The instance stops; the events it was to emit or delivering were in memory
\* only.
Stop ==
  /\ job' = [e \in Events |-> IF job[e].pc \in Ended \cup {"none"} THEN job[e]
                              ELSE [job[e] EXCEPT !.pc = "lost"]]
  /\ UNCHANGED <<others, logs, failed>>

Step(e) ==
  \/ Emit(e)
  \/ Lookup(e) \/ LookupFails(e)
  \/ PostAnswered(e) \/ PostRefused(e) \/ PostTimedOut(e) \/ PostUnreachable(e)
  \/ Wait(e)
  \/ LogFind(e) \/ LogSave(e) \/ LogOrphan(e) \/ LogFails(e)

Next ==
  \/ \E e \in Events : Step(e) \/ \E a \in Apps : SaveStatus(e, a)
  \/ \E a \in Apps : Delete(a)
  \/ \E p \in Posts : LateArrives(p) \/ LateLost(p)
  \/ Stop

Spec == Init /\ [][Next]_vars

\* Promises settle and timers fire: while the instance runs, a status that was
\* saved is announced and its delivery goes on.
Fairness == \A e \in Events : WF_vars(Step(e))

FairSpec == Spec /\ Fairness
-----------------------------------------------------------------------------
\* Every variable has its type, and a POST exists only for an attempt that
\* its event has reached.
TypeOK ==
  /\ apps \subseteq Apps /\ Apps \ apps \subseteq deleted
  /\ deleted \subseteq Apps
  /\ {status, heard} \subseteq [Apps -> Events \cup {Pending}]
  /\ crossed \subseteq Apps
  /\ job \in [Events -> Jobs]
  /\ late \subseteq Posts /\ received \subseteq Posts
  /\ answered \subseteq received
  /\ logs \subseteq LogRows
  /\ failed \subseteq Events
  /\ \A p \in late \cup received :
       job[p[1]].pc \notin {"none", "saved"} /\ p[2] <= job[p[1]].attempt

\* The log tells what happened.  A row written after a POST is of a POST that
\* was answered, also when it is read together with rows that deletions have
\* taken away.  A row written on giving up means that the receiver answered
\* neither attempt, although errors of logDelivery() take the same path, with
\* two exceptions: a query failed under the event, or the application was
\* deleted between the queries of logDelivery() and then inserted again, so
\* that only the second attempt is logged.
LogTruthful ==
  \A l \in logs :
    /\ l.from = "post" =>
         <<l.event, l.attempt>> \in answered /\ l.status = "2xx"
    /\ l.from = "catch" =>
         \/ l.event \in failed \/ job[l.event].app \in deleted
         \/ \A n \in Attempts : <<l.event, n>> \notin answered

\* Unless a query failed under it an event leaves one row at most, over both
\* of its attempts and both of the calls that log, and that is of its last
\* attempt: a first attempt that is made again is never logged.  (The code is
\* not what docs/adr/005-event-driven-webhooks.md:32 counts on, the "Logging of
\* all delivery attempts".)
OneLogPerEvent ==
  \A l \in logs :
    \/ l.event \in failed
    \/ /\ l.attempt = job[l.event].attempt
       /\ \A m \in logs : m.event = l.event => m = l

\* A delivery that was answered is made again only in one case besides the
\* failure of a query: the application was deleted between the two queries
\* of logDelivery(), whose foreign key violation lands in the catch block of
\* the POST.
RedeliveryExplained ==
  \A e \in Events :
    job[e].attempt = 2 /\ <<e, 1>> \in answered =>
      e \in failed \/ job[e].app \in deleted

\* Every delivery that was begun ends in a row of the log that the employer
\* can read, whatever the receiver does, unless its application is deleted,
\* a query fails under it or the instance stops.
DeliveryRecorded ==
  \A e \in Events :
    job[e].pc = "post" ~>
      \/ \E l \in logs : l.event = e
      \/ job[e].app \notin apps
      \/ e \in failed
      \/ job[e].pc = "lost"

\* The employer is not left with an old status.  When an application is quiet
\* and each of its changes was made after the one before had run its course,
\* the receiver, if it was ever told the status the application has, was told
\* it last: a retry, a late POST or a stop does not undo that.  (Of changes
\* that cross, the older may be told last: DESIGN.md:498 promises no order.)
ReceiverCurrent ==
  \A a \in apps \ crossed :
    Quiet(a) /\ (\E n \in Attempts : <<status[a], n>> \in received) =>
      heard[a] = status[a]

-----------------------------------------------------------------------------
\* The delivery as its callers see it: see DeliveryContract.
Contract == INSTANCE DeliveryContract WITH
  opened <- {e \in Events : job[e].pc # "none"},
  closed <- {e \in Events : job[e].pc \in Ended},
  got <- received,
  records <- {[event |-> l.event, ok |-> l.status = "2xx"] : l \in logs}

\* The listener of webhooks.service.ts keeps that contract, through failures
\* of the receiver, of the database and of the instance, and deletions.
ContractKept == Contract!Spec
=============================================================================
