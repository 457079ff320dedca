------------------------ MODULE WebhookDeliveryProofs ------------------------
(***************************************************************************)
(* Proofs about WebhookDelivery, for any events, applications and          *)
(* employers.                                                              *)
(***************************************************************************)
EXTENDS WebhookDelivery, TLAPS

-----------------------------------------------------------------------------
(***************************************************************************)
(* What a step of a delivery may do, in terms of the stage it is at, the   *)
(* attempt it makes, and the histories.  The proofs below split on these   *)
(* moves and not on the twelve actions.                                    *)
(***************************************************************************)
Silent == UNCHANGED <<late, received, answered, logs, failed, heard>>

\* The delivery is at a stage before its first POST, and goes on or ends.
Begins(e) ==
  /\ Silent
  /\ job[e].pc \in {"saved", "lookup"}
  /\ job'[e].pc \in {"lookup", "post", "done", "lost"}
  /\ job'[e].attempt = job[e].attempt

\* Its POST is answered with a 2xx.
Answers(e) ==
  /\ job[e].pc = "post"
  /\ job'[e].pc = "find" /\ job'[e].from = "post" /\ job'[e].status = "2xx"
  /\ job'[e].attempt = job[e].attempt
  /\ Receive(<<e, job[e].attempt>>)
  /\ answered' = answered \cup {<<e, job[e].attempt>>}
  /\ UNCHANGED <<late, logs, failed>>

\* The catch block is entered.
Caught(e) ==
  /\ job'[e].attempt = job[e].attempt
  /\ \/ job[e].attempt = 1 /\ job'[e].pc = "wait"
     \/ /\ job[e].attempt = 2
        /\ job'[e].pc = "find" /\ job'[e].from = "catch"
        /\ job'[e].status \in {"error", "null"}

\* Its POST is not answered with a 2xx in time.
Fails(e) ==
  /\ job[e].pc = "post"
  /\ Caught(e)
  /\ UNCHANGED <<answered, logs, failed>>
  /\ \/ Receive(<<e, job[e].attempt>>) /\ UNCHANGED late
     \/ /\ late' = late \cup {<<e, job[e].attempt>>}
        /\ UNCHANGED <<received, heard>>
     \/ UNCHANGED <<late, received, heard>>

\* Its second attempt begins.
Retries(e) ==
  /\ Silent
  /\ job[e].pc = "wait" /\ job'[e].pc = "post"
  /\ job[e].attempt = 1 /\ job'[e].attempt = 2

\* logDelivery() has looked the application up.
Finds(e) ==
  /\ Silent
  /\ job[e].pc = "find" /\ job'[e].pc \in {"save", "done"}
  /\ job'[e].attempt = job[e].attempt
  /\ job'[e].from = job[e].from /\ job'[e].status = job[e].status

\* logDelivery() has inserted the row.
Logs(e) ==
  /\ job[e].pc = "save" /\ job[e].app \in apps /\ job'[e].pc = "done"
  /\ job'[e].attempt = job[e].attempt
  /\ logs' = logs \cup {LogRow(e)}
  /\ UNCHANGED <<late, received, answered, failed, heard>>

\* logDelivery() throws, because the application is gone or a query fails.
Throws(e) ==
  /\ job[e].pc \in {"find", "save"}
  /\ \/ job[e].from = "post" /\ Caught(e)
     \/ job'[e].pc = "done" /\ job'[e].attempt = job[e].attempt
  /\ \/ job[e].app \notin apps /\ UNCHANGED <<logs, failed>>
     \/ /\ failed' = failed \cup {e}
        /\ \/ UNCHANGED logs
           \/ /\ job[e].pc = "save" /\ job[e].app \in apps
              /\ logs' = logs \cup {LogRow(e)}
  /\ UNCHANGED <<late, received, answered, heard>>

Moves(e) ==
  /\ job' \in [Events -> Jobs]
  /\ job'[e].app = job[e].app
  /\ \A q \in Events \ {e} : job'[q] = job[q]
  /\ UNCHANGED <<apps, deleted, status, crossed>>
  /\ \/ Begins(e) \/ Answers(e) \/ Fails(e) \/ Retries(e)
     \/ Finds(e) \/ Logs(e) \/ Throws(e)

\* Only the first attempt has another after it.
RetriesFirst(e) ==
  job[e].pc \in {"none", "saved", "lookup", "wait"} => job[e].attempt = 1

LEMMA GotoJob ==
  ASSUME job \in [Events -> Jobs], NEW e \in Events, NEW stage \in Stages,
         Goto(e, stage)
  PROVE  /\ job' \in [Events -> Jobs]
         /\ job'[e].pc = stage /\ job'[e].app = job[e].app
         /\ job'[e].attempt = job[e].attempt
         /\ job'[e].from = job[e].from /\ job'[e].status = job[e].status
         /\ \A q \in Events \ {e} : job'[q] = job[q]
BY DEF Goto, Jobs

LEMMA CatchJob ==
  ASSUME job \in [Events -> Jobs], NEW e \in Events,
         NEW code \in {"error", "null"}, Catch(e, code)
  PROVE  /\ job' \in [Events -> Jobs] /\ job'[e].app = job[e].app
         /\ \A q \in Events \ {e} : job'[q] = job[q]
         /\ Caught(e)
<1>0. job[e] \in Jobs /\ job[e].attempt \in {1, 2}
  BY DEF Jobs, Attempts
<1>1. CASE job[e].attempt = 1
  BY <1>1, GotoJob DEF Catch, Caught, Stages
<1>2. CASE job[e].attempt = 2
  <2>1. job' = [job EXCEPT ![e].pc = "find", ![e].from = "catch",
                           ![e].status = code]
    BY <1>2 DEF Catch
  <2>2. /\ job' \in [Events -> Jobs] /\ job'[e].app = job[e].app
        /\ \A q \in Events \ {e} : job'[q] = job[q]
        /\ job'[e].pc = "find" /\ job'[e].from = "catch"
        /\ job'[e].status = code /\ job'[e].attempt = job[e].attempt
    BY <2>1 DEF Jobs, Stages, Statuses
  <2>3. QED
    BY <1>2, <2>2 DEF Caught
<1>3. QED
  BY <1>0, <1>1, <1>2

LEMMA StepMoves ==
  ASSUME job \in [Events -> Jobs], NEW e \in Events, RetriesFirst(e), Step(e)
  PROVE  Moves(e)
<1>0. {"lookup", "post", "done", "lost", "save"} \subseteq Stages
  BY DEF Stages
<1>1. CASE Emit(e) \/ Lookup(e) \/ LookupFails(e)
  <2>1. PICK stage \in {"lookup", "post", "done", "lost"} : Goto(e, stage)
    BY <1>1 DEF Emit, Lookup, LookupFails
  <2>2. QED
    BY <1>0, <1>1, <2>1, GotoJob
    DEF Emit, Lookup, LookupFails, others, Moves, Begins, Silent
<1>2. CASE PostAnswered(e)
  <2>1. job' = [job EXCEPT ![e].pc = "find", ![e].from = "post",
                           ![e].status = "2xx"]
    BY <1>2 DEF PostAnswered
  <2>2. /\ job' \in [Events -> Jobs] /\ job'[e].app = job[e].app
        /\ \A q \in Events \ {e} : job'[q] = job[q]
        /\ job'[e].pc = "find" /\ job'[e].from = "post"
        /\ job'[e].status = "2xx" /\ job'[e].attempt = job[e].attempt
    BY <2>1 DEF Jobs, Stages, Statuses
  <2>3. QED
    BY <1>2, <2>2 DEF PostAnswered, Moves, Answers
<1>3. CASE PostRefused(e)
  BY <1>3, CatchJob DEF PostRefused, Moves, Fails
<1>4. CASE PostTimedOut(e)
  BY <1>4, CatchJob DEF PostTimedOut, Moves, Fails
<1>5. CASE PostUnreachable(e)
  BY <1>5, CatchJob DEF PostUnreachable, others, Moves, Fails
<1>6. CASE Wait(e)
  <2>1. job[e].attempt = 1
    BY <1>6 DEF Wait, RetriesFirst
  <2>2. job' = [job EXCEPT ![e].pc = "post", ![e].attempt = @ + 1]
    BY <1>6 DEF Wait
  <2>3. /\ job' \in [Events -> Jobs] /\ job'[e].app = job[e].app
        /\ \A q \in Events \ {e} : job'[q] = job[q]
        /\ job'[e].pc = "post" /\ job'[e].attempt = 2
    BY <2>1, <2>2 DEF Jobs, Stages, Attempts
  <2>4. QED
    BY <1>6, <2>1, <2>3 DEF Wait, others, Moves, Retries, Silent
<1>7. CASE LogFind(e)
  <2>1. PICK stage \in {"save", "done"} : Goto(e, stage)
    BY <1>7 DEF LogFind
  <2>2. QED
    BY <1>0, <1>7, <2>1, GotoJob DEF LogFind, others, Moves, Finds, Silent
<1>8. CASE LogSave(e)
  BY <1>0, <1>8, GotoJob DEF LogSave, others, Moves, Logs
<1>9. CASE LogOrphan(e) \/ LogFails(e)
  <2>1. /\ job' \in [Events -> Jobs] /\ job'[e].app = job[e].app
        /\ \A q \in Events \ {e} : job'[q] = job[q]
        /\ \/ job[e].from = "post" /\ Caught(e)
           \/ job'[e].pc = "done" /\ job'[e].attempt = job[e].attempt
    BY <1>0, <1>9, GotoJob, CatchJob DEF LogOrphan, LogFails, LogThrows
  <2>2. QED
    BY <1>9, <2>1 DEF LogOrphan, LogFails, others, Moves, Throws
<1>10. QED
  BY <1>1, <1>2, <1>3, <1>4, <1>5, <1>6, <1>7, <1>8, <1>9 DEF Step


-----------------------------------------------------------------------------
(***************************************************************************)
(* Types.                                                                  *)
(***************************************************************************)
TypeInv == TypeOK /\ \A e \in Events : RetriesFirst(e)

\* A POST exists only for an attempt that its event has reached.
Reached(p) ==
  job[p[1]].pc \notin {"none", "saved"} /\ p[2] <= job[p[1]].attempt

\* A new value of received and of heard, when the receiver gets a POST.
LEMMA ReceiveTypes ==
  ASSUME TypeOK, NEW p \in Posts, Receive(p)
  PROVE  /\ received' \subseteq Posts /\ received \subseteq received'
         /\ heard' \in [Apps -> Events \cup {Pending}]
<1>1. p[1] \in Events /\ job[p[1]].app \in Apps
  BY DEF TypeOK, Posts, Jobs
<1>2. QED
  BY <1>1 DEF Receive, TypeOK

LEMMA TypeOfMove ==
  ASSUME TypeInv, NEW e \in Events, Moves(e)
  PROVE  TypeInv'
<1> DEFINE p == <<e, job[e].attempt>>
<1>0. /\ TypeOK /\ RetriesFirst(e) /\ job[e] \in Jobs /\ job'[e] \in Jobs
      /\ job[e].attempt \in Attempts /\ p \in Posts /\ p[1] = e
      /\ p[2] = job[e].attempt /\ job[e].attempt <= job[e].attempt
  BY DEF TypeInv, TypeOK, Moves, Jobs, Posts, Attempts
<1>1. /\ job'[e].attempt \in Attempts /\ job[e].attempt <= job'[e].attempt
      /\ RetriesFirst(e)' /\ job'[e].pc \notin {"none", "saved"}
  BY <1>0
  DEF Moves, Begins, Answers, Fails, Retries, Finds, Logs, Throws, Caught,
      RetriesFirst, Attempts, Jobs
<1>2. /\ received' \subseteq received \cup {p} /\ late' \subseteq late \cup {p}
      /\ answered' \subseteq received' /\ received \subseteq received'
  BY <1>0
  DEF Moves, Begins, Answers, Fails, Retries, Finds, Logs, Throws, Silent,
      Receive, TypeOK
<1>3. heard' \in [Apps -> Events \cup {Pending}]
  BY <1>0, ReceiveTypes
  DEF Moves, Begins, Answers, Fails, Retries, Finds, Logs, Throws, Silent,
      TypeOK
<1>4. logs' \subseteq LogRows /\ failed' \subseteq Events
  <2>1. LogRow(e) \in LogRows
    BY <1>0 DEF LogRow, LogRows, Jobs
  <2>2. QED
    BY <1>0, <2>1
    DEF Moves, Begins, Answers, Fails, Retries, Finds, Logs, Throws, Silent,
        TypeOK
<1>5. ASSUME NEW q \in late' \cup received'
      PROVE  Reached(q)'
  <2>1. q \in Posts /\ (q = p \/ Reached(q))
    BY <1>0, <1>2 DEF TypeOK, Reached
  <2>2. CASE q[1] = e
    <3>1. q[2] <= job[e].attempt /\ q[2] \in Attempts
      BY <1>0, <2>1, <2>2 DEF Reached, Posts
    <3>2. QED
      BY <1>0, <1>1, <2>2, <3>1 DEF Reached, Attempts
  <2>3. CASE q[1] # e
    BY <1>0, <2>1, <2>3 DEF Reached, Moves, Posts
  <2>4. QED
    BY <2>2, <2>3
<1>6. TypeOK'
  BY <1>0, <1>2, <1>3, <1>4, <1>5 DEF TypeOK, Reached, Moves
<1>7. \A q \in Events : RetriesFirst(q)'
  BY <1>1 DEF TypeInv, RetriesFirst, Moves
<1>8. QED
  BY <1>6, <1>7 DEF TypeInv

\* A status change begins: there is no POST of its event yet.
LEMMA SaveJob ==
  ASSUME job \in [Events -> Jobs], NEW e \in Events, NEW a \in Apps,
         SaveStatus(e, a)
  PROVE  /\ job' \in [Events -> Jobs]
         /\ job'[e].pc = "saved" /\ job'[e].app = a
         /\ job'[e].attempt = job[e].attempt
         /\ \A q \in Events \ {e} : job'[q] = job[q]
BY DEF SaveStatus, Jobs, Stages

LEMMA StopJobs ==
  ASSUME job \in [Events -> Jobs], Stop, NEW e \in Events
  PROVE  /\ job' \in [Events -> Jobs]
         /\ job'[e].app = job[e].app /\ job'[e].attempt = job[e].attempt
         /\ \/ job'[e] = job[e]
            \/ job[e].pc \notin Ended \cup {"none"} /\ job'[e].pc = "lost"
         /\ job[e].pc \in Ended \cup {"none"} => job'[e] = job[e]
BY DEF Stop, Jobs, Stages, Ended

LEMMA TypeStep ==
  ASSUME TypeInv, [Next]_vars
  PROVE  TypeInv'
<1>0. TypeOK /\ \A e \in Events : RetriesFirst(e)
  BY DEF TypeInv
<1>1. ASSUME NEW e \in Events, Step(e)
      PROVE  TypeInv'
  BY <1>0, <1>1, StepMoves, TypeOfMove DEF TypeOK
<1>2. ASSUME NEW e \in Events, NEW a \in Apps, SaveStatus(e, a)
      PROVE  TypeInv'
  <2>1. /\ job' \in [Events -> Jobs] /\ job'[e].pc = "saved"
        /\ job'[e].attempt = job[e].attempt /\ job[e].pc = "none"
        /\ \A q \in Events \ {e} : job'[q] = job[q]
    BY <1>0, <1>2, SaveJob DEF TypeOK, SaveStatus
  <2>2. /\ UNCHANGED <<deleted, late, received, answered, logs, failed,
                       heard>>
        /\ apps' \subseteq Apps /\ apps \subseteq apps'
        /\ status' \in [Apps -> Events \cup {Pending}]
        /\ crossed' \subseteq Apps
    BY <1>0, <1>2 DEF SaveStatus, TypeOK
  <2>3. \A p \in late' \cup received' : Reached(p)'
    BY <1>0, <2>1, <2>2 DEF TypeOK, Reached, Posts
  <2>4. \A q \in Events : RetriesFirst(q)'
    BY <1>0, <2>1 DEF RetriesFirst
  <2>5. QED
    BY <1>0, <2>1, <2>2, <2>3, <2>4 DEF TypeInv, TypeOK, Reached
<1>3. ASSUME NEW a \in Apps, Delete(a)
      PROVE  TypeInv'
  BY <1>0, <1>3 DEF Delete, TypeInv, TypeOK, RetriesFirst
<1>4. ASSUME NEW p \in Posts, LateArrives(p) \/ LateLost(p)
      PROVE  TypeInv'
  <2>1. /\ received' \subseteq received \cup {p} /\ received \subseteq received'
        /\ late' \subseteq late /\ p \in late
        /\ UNCHANGED <<apps, deleted, status, job, answered, logs,
                       failed, crossed>>
    BY <1>4 DEF LateArrives, LateLost, Receive
  <2>2. heard' \in [Apps -> Events \cup {Pending}]
    BY <1>0, <1>4, ReceiveTypes DEF LateArrives, LateLost, TypeOK
  <2>3. QED
    BY <1>0, <2>1, <2>2 DEF TypeInv, TypeOK, RetriesFirst
<1>5. CASE Stop
  <2>1. UNCHANGED <<apps, deleted, status, late, received, answered,
                    logs, failed, heard, crossed>>
    BY <1>5 DEF Stop, others
  <2>2. job \in [Events -> Jobs]
    BY <1>0 DEF TypeOK
  <2>3. job' \in [Events -> Jobs]
    BY <1>5, <2>2 DEF Stop, Jobs, Stages
  <2>4. \A e \in Events : RetriesFirst(e)'
    BY <1>0, <1>5, <2>2, StopJobs DEF RetriesFirst
  <2>5. \A p \in late' \cup received' : Reached(p)'
    BY <1>0, <1>5, <2>1, <2>2, StopJobs DEF TypeOK, Reached, Posts, Ended
  <2>6. QED
    BY <1>0, <2>1, <2>3, <2>4, <2>5 DEF TypeInv, TypeOK, Reached
<1>6. CASE UNCHANGED vars
  BY <1>0, <1>6 DEF vars, TypeInv, TypeOK, RetriesFirst
<1>7. QED
  BY <1>1, <1>2, <1>3, <1>4, <1>5, <1>6 DEF Next


-----------------------------------------------------------------------------
(***************************************************************************)
(* The log.  While no query has failed under an event and its application  *)
(* was never deleted, a POST of it that was answered is the last one it    *)
(* makes, and the delivery goes on to log it and ends.                     *)
(***************************************************************************)
JobSound(e) ==
  /\ job[e].pc \in {"find", "save"} =>
       /\ job[e].from = "post" =>
            job[e].status = "2xx" /\ <<e, job[e].attempt>> \in answered
       /\ job[e].from = "catch" => job[e].status # "2xx"
  /\ e \notin failed /\ job[e].app \notin deleted =>
       \A n \in Attempts :
         <<e, n>> \in answered =>
           /\ n = job[e].attempt
           /\ \/ job[e].pc \in Ended
              \/ job[e].pc \in {"find", "save"} /\ job[e].from = "post"

LogSound(l) ==
  /\ l.from = "post" => <<l.event, l.attempt>> \in answered /\ l.status = "2xx"
  /\ l.event \notin failed =>
       /\ job[l.event].pc \in Ended
       /\ l.attempt = job[l.event].attempt
       /\ l.from = "catch" =>
            \/ job[l.event].app \in deleted
            \/ \A n \in Attempts : <<l.event, n>> \notin answered

LogInv ==
  /\ \A e \in Events : JobSound(e)
  /\ \A l \in logs : LogSound(l)
  /\ OneLogPerEvent

\* A row is written only by a delivery that has not ended.
LEMMA LogOfMove ==
  ASSUME TypeInv, LogInv, NEW e \in Events, Moves(e)
  PROVE  LogInv'
<1> DEFINE p == <<e, job[e].attempt>>
<1>0. /\ JobSound(e) /\ job[e] \in Jobs /\ job'[e] \in Jobs
      /\ job[e].attempt \in Attempts /\ job'[e].attempt \in Attempts
      /\ job[e].from \in {"post", "catch"} /\ job'[e].from \in {"post", "catch"}
  BY DEF LogInv, TypeInv, TypeOK, Moves, Jobs
<1>1. /\ answered' \in {answered, answered \cup {p}}
      /\ failed' \in {failed, failed \cup {e}}
      /\ logs' \in {logs, logs \cup {LogRow(e)}}
      /\ job[e].pc \notin Ended \cup {"none"}
      /\ UNCHANGED <<apps, deleted>> /\ Apps \ apps \subseteq deleted
      /\ job[e].app \in Apps /\ job'[e].app = job[e].app
  BY <1>0
  DEF TypeInv, TypeOK, Jobs, Moves, Begins, Answers, Fails, Retries, Finds,
      Logs, Throws, Silent, Ended
<1>2. JobSound(e)'
  <2>0. "2xx" \notin {"error", "null"}
    OBVIOUS
  <2>1. CASE Begins(e) \/ Retries(e)
    BY <1>0, <1>1, <2>1
    DEF Moves, Begins, Retries, Silent, JobSound, Ended
  <2>2. CASE Answers(e)
    BY <1>0, <1>1, <2>2 DEF Moves, Answers, JobSound, Ended
  <2>3. CASE Fails(e)
    BY <1>0, <1>1, <2>3 DEF Moves, Fails, Caught, JobSound, Ended
  <2>4. CASE Finds(e)
    BY <1>0, <1>1, <2>4 DEF Moves, Finds, Silent, JobSound, Ended
  <2>5. CASE Logs(e)
    BY <1>0, <1>1, <2>5 DEF Moves, Logs, JobSound, Ended
  <2>6. CASE Throws(e)
    BY <1>0, <1>1, <2>6 DEF Moves, Throws, Caught, JobSound, Ended
  <2>7. QED
    BY <2>1, <2>2, <2>3, <2>4, <2>5, <2>6 DEF Moves
<1>3. ASSUME NEW q \in Events \ {e}
      PROVE  JobSound(q)'
  <2>1. JobSound(q) /\ job'[q] = job[q]
    BY DEF LogInv, Moves
  <2>2. \A n : <<q, n>> \in answered' <=> <<q, n>> \in answered
    BY <1>1
  <2>3. QED
    BY <1>1, <2>1, <2>2 DEF JobSound
<1>4. logs' # logs =>
        /\ job[e].pc = "save" /\ job[e].app \in apps /\ UNCHANGED answered
        /\ \/ e \in failed'
           \/ job'[e].pc = "done" /\ job'[e].attempt = job[e].attempt
  BY DEF Moves, Begins, Answers, Fails, Retries, Finds, Logs, Throws, Silent
<1>5. ASSUME NEW l \in logs
      PROVE  LogSound(l)'
  <2>1. LogSound(l) /\ l.event \in Events
    BY DEF LogInv, TypeInv, TypeOK, LogRows
  <2>2. CASE l.event = e
    BY <1>1, <2>1, <2>2 DEF LogSound
  <2>3. CASE l.event # e
    <3>1. job'[l.event] = job[l.event]
      BY <2>1, <2>3 DEF Moves
    <3>2. \A n : <<l.event, n>> \in answered' <=> <<l.event, n>> \in answered
      BY <1>1, <2>3
    <3>3. QED
      BY <1>1, <2>1, <3>1, <3>2 DEF LogSound
  <2>4. QED
    BY <2>2, <2>3
<1>6. ASSUME NEW l \in logs' \ logs
      PROVE  LogSound(l)'
  <2>1. /\ l.event = e /\ l.attempt = job[e].attempt
        /\ l.from = job[e].from /\ l.status = job[e].status
    BY <1>1 DEF LogRow
  <2>2. /\ job[e].pc = "save" /\ job[e].app \in apps /\ UNCHANGED answered
        /\ e \notin failed' =>
             job'[e].pc = "done" /\ job'[e].attempt = job[e].attempt
    BY <1>4
  <2>3. l.from = "post" => <<e, l.attempt>> \in answered /\ l.status = "2xx"
    BY <1>0, <2>1, <2>2 DEF JobSound
  <2>4. e \notin failed /\ l.from = "catch" =>
          \/ job[e].app \in deleted
          \/ \A n \in Attempts : <<e, n>> \notin answered
    BY <1>0, <1>1, <2>1, <2>2 DEF JobSound, Ended
  <2>5. QED
    BY <1>1, <2>1, <2>2, <2>3, <2>4 DEF LogSound, Ended
<1>7. OneLogPerEvent'
  <2>1. \A l \in logs : l.event = e => e \in failed
    BY <1>1 DEF LogInv, LogSound
  <2>2. LogRow(e).event = e
    BY DEF LogRow
  <2>3. \A l \in logs' : l.event \in failed' \/ l.attempt = job'[l.event].attempt
    BY <1>1, <1>5, <1>6 DEF LogSound
  <2>4. \A l, m \in logs : l.event = m.event => l = m \/ l.event \in failed
    BY DEF LogInv, OneLogPerEvent
  <2>5. QED
    BY <1>1, <2>1, <2>2, <2>3, <2>4 DEF OneLogPerEvent
<1>8. QED
  BY <1>1, <1>2, <1>3, <1>5, <1>6, <1>7 DEF LogInv

LEMMA LogStep ==
  ASSUME TypeInv, LogInv, [Next]_vars
  PROVE  LogInv'
<1>0. /\ TypeOK /\ \A e \in Events : RetriesFirst(e)
      /\ job \in [Events -> Jobs] /\ logs \subseteq LogRows
  BY DEF TypeInv, TypeOK
<1>1. ASSUME NEW e \in Events, Step(e)
      PROVE  LogInv'
  BY <1>0, <1>1, StepMoves, LogOfMove
<1>2. ASSUME NEW e \in Events, NEW a \in Apps, SaveStatus(e, a)
      PROVE  LogInv'
  <2>1. /\ job'[e].pc = "saved" /\ job[e].pc = "none"
        /\ \A q \in Events \ {e} : job'[q] = job[q]
        /\ UNCHANGED <<deleted, answered, logs, failed>>
    BY <1>0, <1>2, SaveJob DEF SaveStatus
  <2>2. \A n \in Attempts : <<e, n>> \notin answered
    BY <1>0, <2>1 DEF TypeOK
  <2>3. \A q \in Events : JobSound(q)'
    BY <2>1, <2>2 DEF LogInv, JobSound
  <2>4. \A l \in logs' : LogSound(l)'
    BY <1>0, <2>1 DEF LogInv, LogSound, LogRows, Ended
  <2>5. OneLogPerEvent'
    BY <2>1, <2>4 DEF LogInv, LogSound, OneLogPerEvent
  <2>6. QED
    BY <2>3, <2>4, <2>5 DEF LogInv
<1>3. ASSUME NEW a \in Apps, Delete(a)
      PROVE  LogInv'
  <2>1. /\ deleted \subseteq deleted' /\ logs' \subseteq logs
        /\ UNCHANGED <<job, answered, failed>>
    BY <1>3 DEF Delete
  <2>2. QED
    BY <2>1 DEF LogInv, JobSound, LogSound, OneLogPerEvent
<1>4. CASE Stop
  <2>1. UNCHANGED <<deleted, answered, logs, failed>>
    BY <1>4 DEF Stop, others
  <2>2. ASSUME NEW e \in Events
        PROVE  JobSound(e)'
    <3>1. /\ JobSound(e) /\ job'[e].app = job[e].app
          /\ job'[e].attempt = job[e].attempt
          /\ job'[e] = job[e] \/ job'[e].pc = "lost"
      BY <1>0, <1>4, StopJobs DEF LogInv
    <3>2. QED
      BY <2>1, <3>1 DEF JobSound, Ended
  <2>3. ASSUME NEW l \in logs
        PROVE  LogSound(l)'
    <3>1. LogSound(l) /\ l.event \in Events
      BY <1>0 DEF LogInv, LogRows
    <3>2. job[l.event].pc \in Ended => job'[l.event] = job[l.event]
      BY <1>0, <1>4, <3>1, StopJobs
    <3>3. QED
      BY <2>1, <3>1, <3>2 DEF LogSound
  <2>4. OneLogPerEvent'
    BY <2>1, <2>3 DEF LogInv, LogSound, OneLogPerEvent
  <2>5. QED
    BY <2>1, <2>2, <2>3, <2>4 DEF LogInv
<1>5. CASE UNCHANGED <<deleted, job, answered, logs, failed>>
  BY <1>5 DEF LogInv, JobSound, LogSound, OneLogPerEvent
<1>6. QED
  BY <1>1, <1>2, <1>3, <1>4, <1>5
  DEF Next, LateArrives, LateLost, vars


-----------------------------------------------------------------------------
(***************************************************************************)
(* What the receiver was told last.  As long as no change of an            *)
(* application was made before the one before it had run its course, only  *)
(* the change that set its status is announced, or on its way.             *)
(***************************************************************************)
Current(a) ==
  /\ \A e \in Events :
       job[e].app = a /\ job[e].pc \notin Ended \cup {"none"} => e = status[a]
  /\ \A p \in late : job[p[1]].app = a => p[1] = status[a]
  /\ (\E n \in Attempts : <<status[a], n>> \in received) => heard[a] = status[a]

\* The event in which the status of an application is told was made for it.
Told(a) == status[a] \in Events => /\ job[status[a]].app = a
                                   /\ job[status[a]].pc # "none"

ToldInv == \A a \in Apps : Told(a) /\ (a \notin crossed => Current(a))

\* The receiver gets a POST of an event that is under way.
LEMMA ReceiveCurrent ==
  ASSUME TypeOK, ToldInv, NEW p \in Posts, Receive(p),
         p[1] \in Events, NEW a \in Apps, a \notin crossed,
         job[p[1]].app = a => p[1] = status[a]
  PROVE  (\E n \in Attempts : <<status[a], n>> \in received') =>
           heard'[a] = status[a]
<1>1. CASE job[p[1]].app = a
  BY <1>1 DEF Receive, TypeOK
<1>2. CASE job[p[1]].app # a
  <2>1. heard'[a] = heard[a]
    BY <1>2 DEF Receive, TypeOK
  <2>2. p[1] # status[a]
    BY <1>2 DEF ToldInv, Told
  <2>3. \A n \in Attempts : <<status[a], n>> \in received' =>
                              <<status[a], n>> \in received
    BY <2>2 DEF Receive
  <2>4. QED
    BY <2>1, <2>3 DEF ToldInv, Current
<1>3. QED
  BY <1>1, <1>2

LEMMA ToldStep ==
  ASSUME TypeInv, ToldInv, [Next]_vars
  PROVE  ToldInv'
<1>0. /\ TypeOK /\ \A e \in Events : RetriesFirst(e)
      /\ job \in [Events -> Jobs]
      /\ received \subseteq Posts /\ late \subseteq Posts
      /\ \A p \in late \cup received : job[p[1]].pc \notin {"none", "saved"}
      /\ \A p \in Posts : p[1] \in Events
  BY DEF TypeInv, TypeOK, Posts
<1>1. ASSUME NEW e \in Events, Step(e), NEW a \in Apps
      PROVE  (Told(a) /\ (a \notin crossed => Current(a)))'
  <2> DEFINE p == <<e, job[e].attempt>>
  <2>1. Moves(e)
    BY <1>0, <1>1, StepMoves
  <2>2. /\ UNCHANGED <<status, crossed>>
        /\ job'[e].app = job[e].app
        /\ \A q \in Events \ {e} : job'[q] = job[q]
        /\ job[e].pc \notin Ended \cup {"none"} /\ job'[e].pc # "none"
        /\ late' \subseteq late \cup {p}
        /\ UNCHANGED <<received, heard>> \/ Receive(p)
        /\ p \in Posts /\ p[1] = e
    BY <1>0, <2>1
    DEF Moves, Begins, Answers, Fails, Retries, Finds, Logs, Throws, Silent,
        Caught, Ended, Posts, Jobs
  <2>3. Told(a)'
    BY <2>2 DEF ToldInv, Told
  <2>4. ASSUME a \notin crossed
        PROVE  Current(a)'
    <3>1. Current(a)
      BY <2>4 DEF ToldInv
    <3>2. job[e].app = a => e = status[a]
      BY <2>2, <3>1 DEF Current
    <3>3. ASSUME NEW q \in Events, job'[q].app = a,
                 job'[q].pc \notin Ended \cup {"none"}
          PROVE  q = status[a]
      BY <2>2, <3>1, <3>2, <3>3 DEF Current
    <3>4. ASSUME NEW q \in late', job'[q[1]].app = a
          PROVE  q[1] = status[a]
      BY <1>0, <2>2, <3>1, <3>2, <3>4 DEF Current
    <3>5. (\E n \in Attempts : <<status[a], n>> \in received') =>
            heard'[a] = status[a]
      <4>1. CASE UNCHANGED <<received, heard>>
        BY <3>1, <4>1 DEF Current
      <4>2. CASE Receive(p)
        BY <1>0, <2>2, <2>4, <3>2, <4>2, ReceiveCurrent
      <4>3. QED
        BY <2>2, <4>1, <4>2
    <3>6. QED
      BY <2>2, <3>3, <3>4, <3>5 DEF Current
  <2>5. QED
    BY <2>2, <2>3, <2>4
<1>2. ASSUME NEW e \in Events, NEW b \in Apps, SaveStatus(e, b),
             NEW a \in Apps
      PROVE  (Told(a) /\ (a \notin crossed => Current(a)))'
  <2>1. /\ job'[e].pc = "saved" /\ job'[e].app = b /\ job[e].pc = "none"
        /\ \A q \in Events \ {e} : job'[q] = job[q]
        /\ status' = [status EXCEPT ![b] = e]
        /\ crossed' = IF Quiet(b) THEN crossed ELSE crossed \cup {b}
        /\ UNCHANGED <<late, received, heard>>
    BY <1>0, <1>2, SaveJob DEF SaveStatus
  <2>2. status'[b] = e /\ \A c \in Apps \ {b} : status'[c] = status[c]
    BY <1>0, <2>1 DEF TypeOK
  <2>3. \A p \in late \cup received : p[1] # e
    BY <1>0, <2>1
  <2>4. Told(a)'
    BY <2>1, <2>2 DEF ToldInv, Told
  <2>5. ASSUME a \notin crossed'
        PROVE  Current(a)'
    <3>1. Current(a) /\ a \notin crossed
      BY <2>1, <2>5 DEF ToldInv
    <3>2. CASE a = b
      <4>1. Quiet(a)
        BY <2>1, <2>5, <3>2
      <4>2. \A n \in Attempts : <<e, n>> \notin received
        BY <2>3
      <4>3. \A q \in late : job'[q[1]].app # a
        BY <1>0, <2>1, <2>3, <4>1 DEF Quiet
      <4>4. \A q \in Events : job'[q].app = a /\ q # e =>
                                job'[q].pc \in Ended \cup {"none"}
        BY <2>1, <4>1 DEF Quiet
      <4>5. status'[a] = e
        BY <2>2, <3>2
      <4>6. late' = late /\ received' = received
        BY <2>1
      <4>7. QED
        BY <4>2, <4>3, <4>4, <4>5, <4>6 DEF Current
    <3>3. CASE a # b
      <4>1. \A q \in late : job'[q[1]] = job[q[1]]
        BY <1>0, <2>1, <2>3
      <4>2. QED
        BY <2>1, <2>2, <3>1, <3>3, <4>1 DEF Current
    <3>4. QED
      BY <3>2, <3>3
  <2>6. QED
    BY <2>4, <2>5
<1>3. ASSUME NEW p \in Posts, LateArrives(p) \/ LateLost(p), NEW a \in Apps
      PROVE  (Told(a) /\ (a \notin crossed => Current(a)))'
  <2>1. /\ p \in late /\ late' \subseteq late
        /\ UNCHANGED <<status, job, crossed>>
        /\ UNCHANGED <<received, heard>> \/ Receive(p)
    BY <1>3 DEF LateArrives, LateLost
  <2>2. Told(a)'
    BY <2>1 DEF ToldInv, Told
  <2>3. ASSUME a \notin crossed
        PROVE  Current(a)'
    <3>1. Current(a)
      BY <2>3 DEF ToldInv
    <3>2. (\E n \in Attempts : <<status[a], n>> \in received') =>
            heard'[a] = status[a]
      <4>1. CASE UNCHANGED <<received, heard>>
        BY <3>1, <4>1 DEF Current
      <4>2. CASE Receive(p)
        BY <1>0, <2>1, <2>3, <3>1, <4>2, ReceiveCurrent DEF Current
      <4>3. QED
        BY <2>1, <4>1, <4>2
    <3>3. QED
      BY <2>1, <3>1, <3>2 DEF Current
  <2>4. QED
    BY <2>1, <2>2, <2>3
<1>4. ASSUME Stop, NEW a \in Apps
      PROVE  (Told(a) /\ (a \notin crossed => Current(a)))'
  <2>1. /\ UNCHANGED <<status, late, received, heard, crossed>>
        /\ \A e \in Events :
             /\ job'[e].app = job[e].app
             /\ job'[e].pc \in {job[e].pc, "lost"}
    BY <1>0, <1>4, StopJobs DEF Stop, others
  <2>2. Told(a)'
    BY <2>1 DEF ToldInv, Told
  <2>3. a \notin crossed => Current(a)'
    BY <1>0, <2>1 DEF ToldInv, Current, Ended
  <2>4. QED
    BY <2>1, <2>2, <2>3
<1>5. ASSUME UNCHANGED <<status, job, late, received, heard, crossed>>,
             NEW a \in Apps
      PROVE  (Told(a) /\ (a \notin crossed => Current(a)))'
  BY <1>5 DEF ToldInv, Told, Current
<1>6. QED
  BY <1>1, <1>2, <1>3, <1>4, <1>5
  DEF Next, Delete, vars, ToldInv

-----------------------------------------------------------------------------
LEMMA Begin ==
  ASSUME Init
  PROVE  TypeInv /\ LogInv /\ ToldInv
<1>1. TypeInv
  BY AppsAssumption
  DEF Init, TypeInv, TypeOK, RetriesFirst, Jobs, Stages, Attempts, Statuses
<1>2. LogInv
  BY DEF Init, LogInv, JobSound, LogSound, OneLogPerEvent
<1>3. ToldInv
  BY PendingAssumption DEF Init, ToldInv, Told, Current
<1>4. QED
  BY <1>1, <1>2, <1>3

LEMMA Invariance == Spec => [](TypeInv /\ LogInv /\ ToldInv)
<1>1. TypeInv /\ LogInv /\ ToldInv /\ [Next]_vars =>
        (TypeInv /\ LogInv /\ ToldInv)'
  BY TypeStep, LogStep, ToldStep
<1>2. QED
  BY <1>1, Begin, PTL DEF Spec

\* Every reachable state is well typed, and a POST exists only for an attempt
\* that its event has reached: no retry runs ahead, or a third time.
THEOREM TypeCorrect == Spec => []TypeOK
<1>1. TypeInv => TypeOK
  BY DEF TypeInv
<1>2. QED
  BY <1>1, Invariance, PTL

\* The log tells what happened, whatever fails in whatever order, but for the
\* two cases that LogTruthful names.
THEOREM LogTellsTruth == Spec => []LogTruthful
<1>1. LogInv => LogTruthful
  BY DEF LogInv, LogSound, LogTruthful
<1>2. QED
  BY <1>1, Invariance, PTL

\* Unless a query failed under it, an event leaves one row at most.
THEOREM LoggedOnce == Spec => []OneLogPerEvent
<1>1. LogInv => OneLogPerEvent
  BY DEF LogInv
<1>2. QED
  BY <1>1, Invariance, PTL

\* A delivery that was answered is made again only when a query failed, or
\* when its application was deleted under it.
THEOREM RedeliveriesExplained == Spec => []RedeliveryExplained
<1>1. LogInv => RedeliveryExplained
  <2> SUFFICES ASSUME LogInv, NEW e \in Events, <<e, 1>> \in answered,
                      job[e].attempt = 2, e \notin failed,
                      job[e].app \notin deleted
               PROVE  FALSE
    BY DEF RedeliveryExplained
  <2>1. JobSound(e) /\ 1 \in Attempts
    BY DEF LogInv, Attempts
  <2>2. 1 = job[e].attempt
    BY <2>1 DEF JobSound
  <2>3. QED
    BY <2>2
<1>2. QED
  BY <1>1, Invariance, PTL

\* When the changes of an application do not cross, the receiver is not left
\* with an old status.
THEOREM ReceiverStaysCurrent == Spec => []ReceiverCurrent
<1>1. TypeInv /\ ToldInv => ReceiverCurrent
  BY DEF TypeInv, TypeOK, ToldInv, Current, ReceiverCurrent
<1>2. QED
  BY <1>1, Invariance, PTL


-----------------------------------------------------------------------------
(***************************************************************************)
(* The refinement of DeliveryContract: every step is one of its steps, or  *)
(* changes nothing that it speaks of.                                      *)
(***************************************************************************)
Opened == {e \in Events : job[e].pc # "none"}
Closed == {e \in Events : job[e].pc \in Ended}
Record(l) == [event |-> l.event, ok |-> l.status = "2xx"]
Records == {Record(l) : l \in logs}

LEMMA ContractMove ==
  ASSUME TypeInv, LogInv, NEW e \in Events, Moves(e)
  PROVE  [Contract!Next]_Contract!vars
<1> DEFINE n == job[e].attempt
           l == LogRow(e)
<1> USE DEF Opened, Closed, Records, Record
<1>0. /\ job[e].pc \notin Ended \cup {"none"} /\ job'[e].pc # "none"
      /\ n \in {1, 2} /\ \A q \in Events \ {e} : job'[q] = job[q]
      /\ JobSound(e) /\ job[e] \in Jobs
  BY DEF TypeInv, TypeOK, LogInv, Moves, Jobs, Begins, Answers, Fails,
         Retries, Finds, Logs, Throws, Silent, Caught, Ended, Attempts
<1>1. /\ e \in Opened /\ e \notin Closed /\ UNCHANGED Opened
      /\ Closed' = IF job'[e].pc \in Ended THEN Closed \cup {e} ELSE Closed
  BY <1>0
<1>2. CASE Begins(e) \/ Retries(e) \/ Finds(e)
  <2>1. UNCHANGED <<received, Records>>
    BY <1>2 DEF Begins, Retries, Finds, Silent
  <2>2. Closed' = Closed \/ Closed' = Closed \cup {e}
    BY <1>1
  <2>3. QED
    BY <1>1, <2>1, <2>2 DEF Contract!Next, Contract!Close, Contract!vars
<1>3. CASE Answers(e) \/ Fails(e)
  <2>1. UNCHANGED <<Records, Closed>>
    BY <1>1, <1>3 DEF Answers, Fails, Caught, Ended
  <2>2. UNCHANGED received \/ received' = received \cup {<<e, n>>}
    BY <1>3 DEF Answers, Fails, Receive
  <2>3. QED
    BY <1>0, <1>1, <2>1, <2>2 DEF Contract!Next, Contract!Receive, Contract!vars
<1>4. CASE Logs(e) \/ Throws(e)
  <2>1. UNCHANGED received /\ logs' \in {logs, logs \cup {l}}
    BY <1>4 DEF Logs, Throws
  <2>2. CASE UNCHANGED logs
    BY <1>1, <2>1, <2>2 DEF Contract!Next, Contract!Close, Contract!vars
  <2>3. CASE logs' = logs \cup {l} /\ job[e].pc = "save"
    <3>1. l.event = e /\ (l.status = "2xx" => <<e, n>> \in received)
      BY <1>0, <2>3 DEF LogRow, JobSound, Jobs, TypeInv, TypeOK
    <3> HIDE DEF l
    <3>2. Records' = Records \cup {[event |-> e, ok |-> l.status = "2xx"]}
      BY <2>3, <3>1
    <3>3. PICK ok \in BOOLEAN : ok = (l.status = "2xx")
      OBVIOUS
    <3>4. Contract!Record(e, ok)
      BY <1>0, <1>1, <2>1, <3>1, <3>2, <3>3 DEF Contract!Record
    <3>5. QED
      BY <3>4 DEF Contract!Next
  <2>4. QED
    BY <1>4, <2>2, <2>3 DEF Logs, Throws
<1>5. QED
  BY <1>2, <1>3, <1>4 DEF Moves

LEMMA ContractStep ==
  ASSUME TypeInv, LogInv, [Next]_vars
  PROVE  [Contract!Next]_Contract!vars
<1> USE DEF Opened, Closed, Records, Record
<1>0. /\ TypeOK /\ \A e \in Events : RetriesFirst(e)
      /\ job \in [Events -> Jobs] /\ logs \subseteq LogRows
  BY DEF TypeInv, TypeOK
<1>1. ASSUME NEW e \in Events, Step(e)
      PROVE  [Contract!Next]_Contract!vars
  BY <1>0, <1>1, StepMoves, ContractMove
<1>2. ASSUME NEW e \in Events, NEW a \in Apps, SaveStatus(e, a)
      PROVE  [Contract!Next]_Contract!vars
  <2>1. /\ job'[e].pc = "saved" /\ job[e].pc = "none"
        /\ \A q \in Events \ {e} : job'[q] = job[q]
        /\ UNCHANGED <<received, logs>>
    BY <1>0, <1>2, SaveJob DEF SaveStatus
  <2>2. /\ e \notin Opened /\ Opened' = Opened \cup {e}
        /\ UNCHANGED <<Closed, received, Records>>
    BY <2>1 DEF Ended
  <2>3. QED
    BY <2>2 DEF Contract!Next, Contract!Open
<1>3. ASSUME NEW a \in Apps, Delete(a)
      PROVE  [Contract!Next]_Contract!vars
  <2> DEFINE E == {e \in Events : job[e].app = a}
  <2>1. /\ UNCHANGED <<Opened, Closed, received>>
        /\ logs' = {l \in logs : job[l.event].app # a}
    BY <1>3 DEF Delete
  <2>2. Records' = {x \in Records : x.event \notin E}
    BY <1>0, <2>1 DEF LogRows
  <2>3. E \in SUBSET Events
    OBVIOUS
  <2> HIDE DEF E
  <2>4. Contract!Forget
    BY <2>1, <2>2, <2>3 DEF Contract!Forget
  <2>5. QED
    BY <2>4 DEF Contract!Next
<1>4. ASSUME NEW p \in Posts, LateArrives(p)
      PROVE  [Contract!Next]_Contract!vars
  <2>1. PICK e \in Events, n \in {1, 2} : p = <<e, n>>
    BY DEF Posts, Attempts
  <2>2. /\ e \in Opened /\ received' = received \cup {<<e, n>>}
        /\ UNCHANGED <<Opened, Closed, Records>>
    BY <1>0, <1>4, <2>1 DEF TypeOK, LateArrives, Receive
  <2>3. QED
    BY <2>2 DEF Contract!Next, Contract!Receive
<1>5. CASE Stop
  <2>1. UNCHANGED <<received, logs>>
    BY <1>5 DEF Stop, others
  <2>2. \A e \in Events :
          /\ job[e].pc = "none" <=> job'[e].pc = "none"
          /\ job[e].pc \in Ended => job'[e].pc \in Ended
          /\ job'[e].pc \in Ended => job[e].pc # "none"
    BY <1>0, <1>5, StopJobs DEF Ended
  <2>3. UNCHANGED <<Opened, received, Records>>
    BY <2>1, <2>2
  <2> DEFINE E == Closed' \ Closed
  <2>4. E \in SUBSET (Opened \ Closed) /\ Closed' = Closed \cup E
    BY <2>2
  <2> HIDE DEF E
  <2>5. Contract!Close
    BY <2>3, <2>4 DEF Contract!Close
  <2>6. QED
    BY <2>5 DEF Contract!Next
<1>6. CASE UNCHANGED <<job, received, logs>>
  BY <1>6 DEF Contract!vars
<1>7. QED
  BY <1>1, <1>2, <1>3, <1>4, <1>5, <1>6
  DEF Next, LateLost, vars

\* The listener keeps the safety part of its contract: the receiver gets an
\* event twice at most and only after the status was saved, a record that says
\* it was delivered is written only after the receiver got it, and none after
\* the delivery has ended.  (That deliveries end is left to TLC.)
THEOREM ContractSafe == Spec => Contract!Init /\ [][Contract!Next]_Contract!vars
<1>1. Init => Contract!Init
  BY DEF Init, Contract!Init, Ended
<1>2. TypeInv /\ LogInv /\ [Next]_vars => [Contract!Next]_Contract!vars
  BY ContractStep
<1>3. QED
  BY <1>1, <1>2, Invariance, PTL DEF Spec
=============================================================================
