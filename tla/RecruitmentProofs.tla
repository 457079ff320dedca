-------------------------- MODULE RecruitmentProofs --------------------------
(***************************************************************************)
(* Proofs about Recruitment, for any requests, users with any roles, jobs, *)
(* applications, titles, and any updates, statuses and roles that are      *)
(* asked for.                                                              *)
(***************************************************************************)
EXTENDS Recruitment, TLAPS

-----------------------------------------------------------------------------
\* What the operators on rows and tables return.

JobColumns == {"owner", "title", "status"}
AppColumns == {"job", "applicant", "status", "reviewer"}

LEMMA JobRowParts ==
  ASSUME NEW row \in JobRows
  PROVE  /\ DOMAIN row = JobColumns
         /\ row.owner \in Users /\ row.title \in Titles
         /\ row.status \in JobStatuses
BY DEF JobRows, JobColumns

LEMMA AppRowParts ==
  ASSUME NEW row \in AppRows
  PROVE  /\ DOMAIN row = AppColumns
         /\ row.job \in JobIds /\ row.applicant \in Users
         /\ row.status \in AppStatuses /\ row.reviewer \in Users \cup {None}
BY DEF AppRows, AppColumns

LEMMA WrittenJob ==
  ASSUME NEW old \in JobRows, NEW new \in JobRows, NEW cols,
         cols \subseteq {"title", "status"}
  PROVE  /\ Written(old, new, cols) \in JobRows
         /\ Written(old, new, cols).owner = old.owner
         /\ Written(old, new, cols).status =
              IF "status" \in cols THEN new.status ELSE old.status
<1> DEFINE w == Written(old, new, cols)
<1>1. w = [c \in JobColumns |-> IF c \in cols THEN new[c] ELSE old[c]]
  BY JobRowParts DEF Written
<1>2. w = [owner |-> w.owner, title |-> w.title, status |-> w.status]
  BY <1>1 DEF JobColumns
<1>3. /\ w.owner = old.owner
      /\ w.title = IF "title" \in cols THEN new.title ELSE old.title
      /\ w.status = IF "status" \in cols THEN new.status ELSE old.status
  BY <1>1 DEF JobColumns
<1>4. /\ w.owner \in Users /\ w.title \in Titles /\ w.status \in JobStatuses
  BY <1>3, JobRowParts
<1> HIDE DEF w
<1>5. w \in JobRows
  BY <1>2, <1>4 DEF JobRows
<1>6. QED
  BY <1>3, <1>5 DEF w

LEMMA WrittenApp ==
  ASSUME NEW old \in AppRows, NEW new \in AppRows, NEW cols,
         cols \subseteq {"status", "reviewer"}
  PROVE  /\ Written(old, new, cols) \in AppRows
         /\ Written(old, new, cols).job = old.job
         /\ Written(old, new, cols).applicant = old.applicant
         /\ Written(old, new, cols).status =
              IF "status" \in cols THEN new.status ELSE old.status
         /\ Written(old, new, cols).reviewer =
              IF "reviewer" \in cols THEN new.reviewer ELSE old.reviewer
<1> DEFINE w == Written(old, new, cols)
<1>1. w = [c \in AppColumns |-> IF c \in cols THEN new[c] ELSE old[c]]
  BY AppRowParts DEF Written
<1>2. w = [job |-> w.job, applicant |-> w.applicant, status |-> w.status,
           reviewer |-> w.reviewer]
  BY <1>1 DEF AppColumns
<1>3. /\ w.job = old.job /\ w.applicant = old.applicant
      /\ w.status = IF "status" \in cols THEN new.status ELSE old.status
      /\ w.reviewer = IF "reviewer" \in cols THEN new.reviewer ELSE old.reviewer
  BY <1>1 DEF AppColumns
<1>4. /\ w.job \in JobIds /\ w.applicant \in Users
      /\ w.status \in AppStatuses /\ w.reviewer \in Users \cup {None}
  BY <1>3, AppRowParts
<1> HIDE DEF w
<1>5. w \in AppRows
  BY <1>2, <1>4 DEF AppRows
<1>6. QED
  BY <1>3, <1>5 DEF w

\* A save() writes no column that its handler leaves alone.
LEMMA DifferingJob ==
  ASSUME NEW old \in JobRows, NEW new, old.owner = new.owner
  PROVE  Differing(old, new) \subseteq {"title", "status"}
BY JobRowParts DEF Differing, JobColumns

LEMMA DifferingApp ==
  ASSUME NEW old \in AppRows, NEW new,
         old.job = new.job, old.applicant = new.applicant
  PROVE  Differing(old, new) \subseteq {"status", "reviewer"}
BY AppRowParts DEF Differing, AppColumns

LEMMA AssignedJob ==
  ASSUME NEW job \in JobRows, NEW patch \in JobPatches
  PROVE  /\ Assign(job, patch) \in JobRows
         /\ Assign(job, patch).owner = job.owner
         /\ Assign(job, patch).status =
              IF patch.status = None THEN job.status ELSE patch.status
BY DEF JobRows, JobPatches, Assign

-----------------------------------------------------------------------------
(***************************************************************************)
(* The tables.  Whatever a step is of, it does one of five things to them, *)
(* and each of these keeps applications unique and with their jobs.        *)
(***************************************************************************)
JobsKept == UNCHANGED apps /\ DOMAIN jobs \subseteq DOMAIN jobs'
JobDeleted ==
  \E j : /\ DOMAIN jobs' = DOMAIN jobs \ {j}
         /\ apps' = Without(apps, {a \in DOMAIN apps : apps[a].job = j})
AppInserted ==
  \E a, row : /\ UNCHANGED jobs
              /\ a \notin DOMAIN apps /\ Insertable(row.applicant, row.job)
              /\ apps' = WithRow(apps, a, row)
AppUpdated ==
  /\ UNCHANGED jobs
  /\ DOMAIN apps' = DOMAIN apps
  /\ \A a \in DOMAIN apps : /\ apps'[a].job = apps[a].job
                            /\ apps'[a].applicant = apps[a].applicant

LEMMA TablesChange ==
  ASSUME TypeOK, [Next]_vars
  PROVE  JobsKept \/ JobDeleted \/ AppInserted \/ AppUpdated
<1> DEFINE Goal == JobsKept \/ JobDeleted \/ AppInserted \/ AppUpdated
<1> SUFFICES Goal
  OBVIOUS
<1>1. ASSUME UNCHANGED tables
      PROVE  Goal
  BY <1>1 DEF tables, JobsKept
<1> HIDE DEF Goal
<1>2. ASSUME NEW r \in Requests, Call(r) \/ Step(r) \/ Abort(r)
      PROVE  Goal
  <2>0. RequestOK(r)
    BY DEF TypeOK
  <2>1. CASE Call(r)
    <3>1. ASSUME NEW u \in Users, NEW title \in Titles, CreateJob(r, u, title)
          PROVE  Goal
      BY <3>1 DEF CreateJob, WithRow, JobsKept, Goal
    <3>2. QED
      BY <1>1, <2>1, <3>1
      DEF Call, UpdateJob, RemoveJob, Apply, Review, Begin
  <2>2. CASE SaveJob(r) \/ InsertOldJob(r)
    BY <2>2 DEF SaveJob, InsertOldJob, WithRow, JobsKept, Goal
  <2>3. CASE DeleteJob(r)
    BY <2>3 DEF DeleteJob, Without, JobDeleted, Goal
  <2>4. CASE InsertApp(r)
    <3>1. ASSUME NEW a \in AppIds \ appsCreated,
                 Insertable(req[r].user, req[r].job),
                 apps' = WithRow(apps, a, [job |-> req[r].job,
                                           applicant |-> req[r].user,
                                           status |-> "pending",
                                           reviewer |-> None]),
                 UNCHANGED jobs
          PROVE  AppInserted
      <4> DEFINE row == [job |-> req[r].job, applicant |-> req[r].user,
                         status |-> "pending", reviewer |-> None]
      <4>1. /\ a \notin DOMAIN apps /\ Insertable(row.applicant, row.job)
            /\ apps' = WithRow(apps, a, row)
        BY <3>1 DEF TypeOK
      <4> HIDE DEF row
      <4>2. QED
        BY <3>1, <4>1 DEF AppInserted
    <3>2. QED
      BY <1>1, <2>4, <3>1 DEF InsertApp, tables, Goal
  <2>5. CASE SaveApp(r)
    <3>1. CASE req[r].app \notin DOMAIN apps
      BY <1>1, <2>5, <3>1 DEF SaveApp, tables
    <3>2. CASE req[r].app \in DOMAIN apps
      <4> DEFINE a == req[r].app
                 row == Written(apps[a], req[r].row, req[r].cols)
      <4>1. /\ apps[a] \in AppRows /\ req[r].row \in AppRows
            /\ req[r].cols \subseteq {"status", "reviewer"}
        BY <2>0, <2>5, <3>2 DEF SaveApp, TypeOK, RequestOK
      <4>2. row.job = apps[a].job /\ row.applicant = apps[a].applicant
        BY <4>1, WrittenApp
      <4>3. apps' = [apps EXCEPT ![a] = row] /\ UNCHANGED jobs
        BY <2>5, <3>2 DEF SaveApp
      <4> HIDE DEF row
      <4>4. QED
        BY <3>2, <4>2, <4>3 DEF AppUpdated, Goal
    <3>3. QED
      BY <3>1, <3>2
  <2>6. CASE InsertOldApp(r)
    BY <1>1, <2>6 DEF InsertOldApp, AppInserted, tables, Goal
  <2>7. CASE \/ FindJob(r) \/ SelectJob(r) \/ FindOpenJob(r) \/ FindExisting(r)
             \/ FindApp(r) \/ SelectApp(r) \/ Emit(r) \/ Abort(r)
    BY <1>1, <2>7
    DEF FindJob, SelectJob, FindOpenJob, FindExisting, FindApp, SelectApp,
        Emit, Abort
  <2>8. QED
    BY <1>2, <2>1, <2>2, <2>3, <2>4, <2>5, <2>6, <2>7 DEF Step
<1>3. QED
  BY <1>1, <1>2 DEF Next, AssignRole, vars, tables

LEMMA JobsStep ==
  ASSUME TypeOK, AppsHaveJobs, [Next]_vars
  PROVE  AppsHaveJobs'
<1>1. CASE JobsKept \/ JobDeleted \/ AppUpdated
  BY <1>1 DEF JobsKept, JobDeleted, AppUpdated, Without, AppsHaveJobs
<1>2. CASE AppInserted
  BY <1>2 DEF AppInserted, WithRow, Insertable, AppsHaveJobs
<1>3. QED
  BY <1>1, <1>2, TablesChange

LEMMA UniqueStep ==
  ASSUME TypeOK, UniqueApplications, [Next]_vars
  PROVE  UniqueApplications'
<1>1. CASE JobsKept \/ JobDeleted
  <2>1. /\ DOMAIN apps' \subseteq DOMAIN apps
        /\ \A a \in DOMAIN apps' : apps'[a] = apps[a]
    BY <1>1 DEF JobsKept, JobDeleted, Without
  <2>2. QED
    BY <2>1 DEF UniqueApplications
<1>2. CASE AppUpdated
  BY <1>2 DEF AppUpdated, UniqueApplications
<1>3. CASE AppInserted
  BY <1>3 DEF AppInserted, WithRow, Insertable, Duplicates, UniqueApplications
<1>4. QED
  BY <1>1, <1>2, <1>3, TablesChange

-----------------------------------------------------------------------------
(***************************************************************************)
(* What never changes: who posted a job, and what an application is for.   *)
(* Tables and requests hold copies of both, some of them of rows that are  *)
(* gone.  The invariant says that all the copies agree: there are a poster *)
(* of each job and a job and applicant of each application with which the  *)
(* tables, and the rows that requests are about to write, are in keeping.  *)
(***************************************************************************)
HoldsJob(r) == req[r].pc \in {"selectJob", "updateJob", "insertJob"}
HoldsApp(r) == req[r].pc \in {"selectApp", "updateApp", "insertOldApp", "emit"}
AppliesTo(r) == req[r].pc \in {"findOpenJob", "findExisting", "insertApp"}

Applicants == {u \in Users : Held(u, "applicant")}

\* What the roles u has had say of a review of u, had being held.
Entitled(u, owner, had) ==
  \/ <<u, "recruiter">> \in had \/ <<u, "super_admin">> \in had
  \/ <<u, "employer">> \in had /\ owner = u

\* The row of an application agrees with its job and applicant, and its
\* reviewer was entitled to review it.
AppAgrees(row, origin, poster, had) ==
  /\ row.job = origin.job /\ row.applicant = origin.applicant
  /\ row.reviewer # None => Entitled(row.reviewer, poster[row.job], had)

RequestAgrees(r, poster, origin) ==
  /\ req[r].job # None => req[r].job \in jobsCreated
  /\ req[r].app # None => req[r].app \in appsCreated
  /\ HoldsJob(r) => req[r].row.owner = poster[req[r].job]
  /\ HoldsApp(r) => /\ AppAgrees(req[r].row, origin[req[r].app], poster, held)
                    /\ req[r].row.status = req[r].status
                    /\ req[r].row.reviewer = req[r].user
  /\ AppliesTo(r) => req[r].user \in Applicants
  /\ req[r].pc = "findApp" =>
       /\ req[r].role \in {"recruiter", "employer", "super_admin"}
       /\ <<req[r].user, req[r].role>> \in held

Agrees(poster, origin) ==
  /\ \A j \in DOMAIN jobs : jobs[j].owner = poster[j]
  /\ \A a \in DOMAIN apps : AppAgrees(apps[a], origin[a], poster, held)
  /\ \A r \in Requests : RequestAgrees(r, poster, origin)

CopiesAgree ==
  \E poster \in [jobsCreated -> Users],
     origin \in [appsCreated -> [job : jobsCreated, applicant : Applicants]] :
    Agrees(poster, origin)

\* The types of the variables, without what the stages of a request imply.
Shape ==
  /\ jobsCreated \subseteq JobIds /\ DOMAIN jobs \subseteq jobsCreated
  /\ jobs \in [DOMAIN jobs -> JobRows]
  /\ appsCreated \subseteq AppIds /\ DOMAIN apps \subseteq appsCreated
  /\ apps \in [DOMAIN apps -> AppRows]
  /\ req \in [Requests -> RequestStates]
  /\ role \in [Users -> Roles] /\ held \subseteq Users \X Roles

LEMMA IdleState == Idle \in RequestStates /\ Idle.pc = "idle"
BY DEF Idle, RequestStates, Stages

LEMMA ReplyState ==
  ASSUME Shape, NEW r \in Requests, Reply(r)
  PROVE  /\ req' \in [Requests -> RequestStates]
         /\ req'[r] = Idle
         /\ \A q \in Requests \ {r} : req'[q] = req[q]
BY IdleState DEF Reply, Shape

LEMMA GotoState ==
  ASSUME Shape, NEW r \in Requests, NEW stage \in Stages, Goto(r, stage)
  PROVE  /\ req' \in [Requests -> RequestStates]
         /\ req'[r] = [req[r] EXCEPT !.pc = stage]
         /\ req'[r].pc = stage
         /\ req'[r].user = req[r].user /\ req'[r].role = req[r].role
         /\ req'[r].job = req[r].job
         /\ req'[r].app = req[r].app /\ req'[r].patch = req[r].patch
         /\ req'[r].status = req[r].status /\ req'[r].row = req[r].row
         /\ req'[r].cols = req[r].cols
         /\ \A q \in Requests \ {r} : req'[q] = req[q]
BY DEF Goto, Shape, RequestStates

LEMMA BeginState ==
  ASSUME Shape, NEW r \in Requests, NEW u \in Users, NEW stage \in Stages,
         NEW job \in JobIds \cup {None}, NEW app \in AppIds \cup {None},
         NEW patch \in {None} \cup JobPatches,
         NEW status \in {None} \cup AppStatuses,
         Begin(r, u, stage, job, app, patch, status)
  PROVE  /\ req' \in [Requests -> RequestStates]
         /\ req'[r].pc = stage /\ req'[r].user = u /\ req'[r].role = role[u]
         /\ req'[r].job = job /\ req'[r].app = app
         /\ req'[r].patch = patch /\ req'[r].status = status
         /\ \A q \in Requests \ {r} : req'[q] = req[q]
         /\ UNCHANGED tables
<1>1. req'[r] = [Idle EXCEPT
                   !.pc = stage, !.user = u, !.role = role[u], !.job = job,
                   !.app = app, !.patch = patch, !.status = status]
  BY DEF Begin, Shape
<1>2. req'[r] = [pc |-> stage, user |-> u, role |-> role[u], job |-> job,
                 app |-> app, patch |-> patch, status |-> status,
                 row |-> None, cols |-> {}]
  BY <1>1 DEF Idle
<1>3. role[u] \in Roles
  BY DEF Shape
<1>4. req'[r] \in RequestStates
  BY <1>2, <1>3 DEF RequestStates
<1>5. /\ req' \in [Requests -> RequestStates]
      /\ \A q \in Requests \ {r} : req'[q] = req[q]
      /\ UNCHANGED tables
  BY <1>1, <1>4 DEF Begin, Shape
<1>6. QED
  BY <1>2, <1>5

\* A request at rest holds nothing that could disagree.
LEMMA IdleAgrees ==
  ASSUME NEW r, req'[r] = Idle, NEW poster, NEW origin
  PROVE  RequestOK(r)' /\ RequestAgrees(r, poster, origin)'
BY DEF Idle, RequestOK, RequestAgrees, HoldsJob, HoldsApp, AppliesTo,
       JobStages, ReviewStages

\* What one function says of its arguments another says too.
Extends(g, f) == DOMAIN f \subseteq DOMAIN g /\ \A x \in DOMAIN f : g[x] = f[x]

Posters == [jobsCreated -> Users]
Origins == [appsCreated -> [job : jobsCreated, applicant : Applicants]]

\* A request that a step does not touch keeps agreeing, also with posters and
\* origins that say more.
LEMMA UntouchedAgrees ==
  ASSUME TypeOK, NEW q \in Requests, req'[q] = req[q],
         jobsCreated \subseteq jobsCreated', appsCreated \subseteq appsCreated',
         held \subseteq held',
         NEW poster \in Posters, NEW origin \in Origins,
         NEW poster2, NEW origin2,
         Extends(poster2, poster), Extends(origin2, origin),
         RequestAgrees(q, poster, origin)
  PROVE  RequestOK(q)' /\ RequestAgrees(q, poster2, origin2)'
<1>1. RequestOK(q)
  BY DEF TypeOK
<1>2. RequestOK(q)'
  BY <1>1 DEF RequestOK
<1>3. HoldsJob(q) => req[q].job \in jobsCreated
  BY <1>1, NoneAssumption
  DEF HoldsJob, RequestOK, RequestAgrees, JobStages
<1>4. HoldsApp(q) => /\ req[q].app \in appsCreated
                     /\ req[q].row.job \in jobsCreated
  BY <1>1, NoneAssumption
  DEF HoldsApp, RequestOK, RequestAgrees, ReviewStages, AppAgrees, Origins
<1>5. HoldsApp(q) => AppAgrees(req[q].row, origin2[req[q].app], poster2, held')
  BY <1>4 DEF RequestAgrees, AppAgrees, Entitled, Extends, Posters, Origins
<1>6. HoldsJob(q) => req[q].row.owner = poster2[req[q].job]
  BY <1>3 DEF RequestAgrees, Extends, Posters
<1>7. QED
  BY <1>2, <1>5, <1>6
  DEF RequestAgrees, HoldsJob, HoldsApp, AppliesTo, Applicants, Held

RolesHeld == \A u \in Users : <<u, role[u]>> \in held

LEMMA StepAgrees ==
  ASSUME TypeOK, AppsHaveJobs, RolesHeld, UNCHANGED roles,
         NEW poster \in Posters, NEW origin \in Origins,
         Agrees(poster, origin),
         NEW r \in Requests, Call(r) \/ Step(r) \/ Abort(r)
  PROVE  /\ Shape' /\ CopiesAgree'
         /\ \A q \in Requests : RequestOK(q)'
         /\ \A q \in Requests \ {r} : req'[q] = req[q]
<1> DEFINE Goal == /\ Shape' /\ CopiesAgree'
                   /\ \A q \in Requests : RequestOK(q)'
                   /\ \A q \in Requests \ {r} : req'[q] = req[q]
<1>0. /\ Shape /\ RequestOK(r) /\ RequestAgrees(r, poster, origin)
      /\ req[r] \in RequestStates
  BY DEF TypeOK, Shape, Agrees
<1>r. role' = role /\ held' = held /\ Applicants' = Applicants
  BY DEF roles, Applicants, Held
<1>a. ASSUME Shape', RequestOK(r)',
             \A q \in Requests \ {r} : req'[q] = req[q],
             jobsCreated \subseteq jobsCreated',
             appsCreated \subseteq appsCreated',
             NEW poster2 \in Posters', NEW origin2 \in Origins',
             Extends(poster2, poster), Extends(origin2, origin),
             RequestAgrees(r, poster2, origin2)',
             \A j \in DOMAIN jobs' : jobs'[j].owner = poster2[j],
             \A a \in DOMAIN apps' : AppAgrees(apps'[a], origin2[a], poster2, held)
      PROVE  Goal
  <2>1. \A q \in Requests \ {r} :
          RequestOK(q)' /\ RequestAgrees(q, poster2, origin2)'
    BY <1>a, <1>r, UntouchedAgrees DEF Agrees
  <2>2. Agrees(poster2, origin2)'
    BY <1>a, <1>r, <2>1 DEF Agrees
  <2>3. CopiesAgree'
    BY <1>a, <2>2 DEF CopiesAgree, Posters, Origins
  <2>4. QED
    BY <1>a, <2>1, <2>3
<1>b. ASSUME UNCHANGED tables, req' \in [Requests -> RequestStates],
             \A q \in Requests \ {r} : req'[q] = req[q],
             RequestOK(r)', RequestAgrees(r, poster, origin)'
      PROVE  Goal
  <2>1. Shape' /\ poster \in Posters' /\ origin \in Origins'
    BY <1>0, <1>b, <1>r DEF Shape, tables, Posters, Origins
  <2>2. Extends(poster, poster) /\ Extends(origin, origin)
    BY DEF Extends
  <2>3. QED
    BY <1>a, <1>b, <2>1, <2>2 DEF Agrees, tables
<1>c. ASSUME UNCHANGED tables, Reply(r)
      PROVE  Goal
  BY <1>0, <1>b, <1>c, ReplyState, IdleAgrees
<1> SUFFICES Goal
  OBVIOUS
<1> HIDE DEF Goal
<1> USE <1>r DEF JobStages, ReviewStages, HoldsJob, HoldsApp, AppliesTo
\* Jobs.
<1>1. ASSUME NEW u \in Users, NEW title \in Titles, CreateJob(r, u, title)
      PROVE  Goal
  <2> DEFINE row == [owner |-> u, title |-> title, status |-> "open"]
  <2>1. PICK j \in JobIds \ jobsCreated :
          jobs' = WithRow(jobs, j, row) /\ jobsCreated' = jobsCreated \cup {j}
    BY <1>1 DEF CreateJob
  <2>2. row \in JobRows
    BY DEF JobRows, JobStatuses
  <2>3. /\ DOMAIN jobs' = DOMAIN jobs \cup {j}
        /\ jobs' \in [DOMAIN jobs' -> JobRows] /\ jobs'[j] = row
        /\ \A k \in DOMAIN jobs \ {j} : jobs'[k] = jobs[k]
    BY <1>0, <2>1, <2>2 DEF WithRow, Shape
  <2>4. /\ req' \in [Requests -> RequestStates] /\ req'[r] = Idle
        /\ \A q \in Requests \ {r} : req'[q] = req[q]
        /\ UNCHANGED <<apps, appsCreated>>
    BY <1>0, <1>1, ReplyState DEF CreateJob
  <2>5. Shape'
    BY <1>0, <2>1, <2>3, <2>4 DEF Shape
  <2> DEFINE poster2 == WithRow(poster, j, u)
  <2>6. /\ poster2 \in Posters' /\ Extends(poster2, poster) /\ poster2[j] = u
        /\ \A k \in jobsCreated : poster2[k] = poster[k]
    BY <2>1 DEF WithRow, Posters, Extends
  <2>7. origin \in Origins' /\ Extends(origin, origin)
    BY <2>1, <2>4 DEF Origins, Extends
  <2> HIDE DEF poster2
  <2>8. \A k \in DOMAIN jobs' : jobs'[k].owner = poster2[k]
    BY <1>0, <2>1, <2>3, <2>6 DEF Agrees, Shape
  <2>9. \A a \in DOMAIN apps' : AppAgrees(apps'[a], origin[a], poster2, held)
    <3>1. \A a \in DOMAIN apps :
            AppAgrees(apps[a], origin[a], poster, held) /\ origin[a].job \in jobsCreated
      BY <1>0 DEF Agrees, Shape, Origins
    <3>2. QED
      BY <2>4, <2>6, <3>1 DEF AppAgrees
  <2>10. QED
    BY <1>a, <2>1, <2>4, <2>5, <2>6, <2>7, <2>8, <2>9, IdleAgrees
<1>2. ASSUME NEW u \in Users, NEW j \in jobsCreated,
             NEW patch \in {None} \cup JobPatches,
             Begin(r, u, "findJob", j, None, patch, None)
      PROVE  Goal
  <2>1. /\ j \in JobIds /\ "findJob" \in Stages
        /\ j \in JobIds \cup {None} /\ None \in AppIds \cup {None}
        /\ None \in {None} \cup AppStatuses
        /\ Shape /\ role[u] \in Roles
    BY <1>0 DEF Shape, Stages
  <2> HIDE <1>r
  <2>2. /\ req' \in [Requests -> RequestStates] /\ UNCHANGED tables
        /\ req'[r].pc = "findJob" /\ req'[r].user = u /\ req'[r].role = role[u]
        /\ req'[r].job = j /\ req'[r].app = None
        /\ \A q \in Requests \ {r} : req'[q] = req[q]
    BY <1>2, <2>1, BeginState
  <2>3. RequestOK(r)' /\ RequestAgrees(r, poster, origin)'
    BY <1>r, <2>1, <2>2 DEF RequestOK, RequestAgrees, tables
  <2>4. QED
    BY <1>b, <2>2, <2>3
<1>3. CASE FindJob(r)
  <2> DEFINE j == req[r].job
             patch == req[r].patch
  <2>0. UNCHANGED tables /\ j \in JobIds /\ req[r].pc = "findJob"
    BY <1>0, <1>3 DEF FindJob, RequestOK
  <2>1. CASE Reply(r)
    BY <1>c, <2>0, <2>1
  <2>2. CASE /\ patch = None
             /\ req' = [req EXCEPT ![r].pc = "deleteJob", ![r].user = None,
                                   ![r].role = None]
    <3> DEFINE next == [req[r] EXCEPT !.pc = "deleteJob", !.user = None,
                                      !.role = None]
    <3>0. req' = [req EXCEPT ![r] = next]
      BY <1>0, <2>2 DEF Shape
    <3>1. /\ next \in RequestStates /\ next.pc = "deleteJob"
          /\ next.job = j /\ next.app = req[r].app
      BY <1>0 DEF RequestStates, Stages
    <3> HIDE DEF next
    <3>4. /\ req' \in [Requests -> RequestStates] /\ req'[r] = next
          /\ \A q \in Requests \ {r} : req'[q] = req[q]
      BY <1>0, <3>0, <3>1 DEF Shape
    <3>2. RequestOK(r)' /\ RequestAgrees(r, poster, origin)'
      BY <1>0, <2>0, <3>1, <3>4 DEF RequestOK, RequestAgrees, tables
    <3>3. QED
      BY <1>b, <2>0, <3>2, <3>4
  <2>3. CASE /\ patch # None /\ j \in DOMAIN jobs
             /\ req' = [req EXCEPT ![r].pc = "selectJob", ![r].user = None,
                                   ![r].role = None,
                                   ![r].row = Assign(jobs[j], patch)]
    <3>1. jobs[j] \in JobRows /\ patch \in JobPatches
      BY <1>0, <2>3 DEF Shape, RequestStates
    <3>2. /\ Assign(jobs[j], patch) \in JobRows
          /\ Assign(jobs[j], patch).owner = jobs[j].owner
      BY <3>1, AssignedJob
    <3>3. /\ req' \in [Requests -> RequestStates]
          /\ req'[r].pc = "selectJob"
          /\ req'[r].job = j /\ req'[r].app = req[r].app
          /\ req'[r].patch = patch /\ req'[r].row = Assign(jobs[j], patch)
          /\ \A q \in Requests \ {r} : req'[q] = req[q]
      BY <1>0, <2>3, <3>2 DEF Shape, RequestStates, Stages
    <3>4. jobs[j].owner = poster[j]
      BY <2>3 DEF Agrees
    <3>5. RequestOK(r)'
      BY <2>0, <3>1, <3>2, <3>3 DEF RequestOK
    <3>6. RequestAgrees(r, poster, origin)'
      BY <1>0, <2>0, <3>2, <3>3, <3>4 DEF RequestAgrees, tables
    <3>7. QED
      BY <1>b, <2>0, <3>3, <3>5, <3>6
  <2>4. QED
    BY <1>3, <2>1, <2>2, <2>3 DEF FindJob
<1>4. CASE SelectJob(r)
  <2> DEFINE j == req[r].job
  <2>0. /\ UNCHANGED tables /\ req[r].pc = "selectJob"
        /\ j \in JobIds /\ req[r].row \in JobRows
        /\ req[r].patch \in JobPatches /\ req[r].row.owner = poster[j]
    BY <1>0, <1>4 DEF SelectJob, RequestOK, RequestAgrees
  <2>1. CASE Reply(r)
    BY <1>c, <2>0, <2>1
  <2>2. CASE /\ j \in DOMAIN jobs
             /\ req' = [req EXCEPT ![r].pc = "updateJob",
                                   ![r].cols = Differing(jobs[j], req[r].row)]
    <3>1. jobs[j] \in JobRows /\ jobs[j].owner = req[r].row.owner
      BY <1>0, <2>0, <2>2 DEF Shape, Agrees
    <3>2. Differing(jobs[j], req[r].row) \subseteq {"title", "status"}
      BY <3>1, DifferingJob
    <3>3. /\ req' \in [Requests -> RequestStates]
          /\ req'[r].pc = "updateJob"
          /\ req'[r].job = j /\ req'[r].app = req[r].app
          /\ req'[r].patch = req[r].patch /\ req'[r].row = req[r].row
          /\ req'[r].cols = Differing(jobs[j], req[r].row)
          /\ \A q \in Requests \ {r} : req'[q] = req[q]
      BY <1>0, <2>2, <3>2 DEF Shape, RequestStates, Stages, Columns
    <3>4. RequestOK(r)' /\ RequestAgrees(r, poster, origin)'
      BY <1>0, <2>0, <3>2, <3>3 DEF RequestOK, RequestAgrees, tables
    <3>5. QED
      BY <1>b, <2>0, <3>3, <3>4
  <2>3. CASE Goto(r, "insertJob")
    <3>1. "insertJob" \in Stages
      BY DEF Stages
    <3>2. RequestOK(r)' /\ RequestAgrees(r, poster, origin)'
      BY <1>0, <2>0, <2>3, <3>1, GotoState DEF RequestOK, RequestAgrees, tables
    <3>3. QED
      BY <1>0, <1>b, <2>0, <2>3, <3>1, <3>2, GotoState
  <2>4. QED
    BY <1>4, <2>1, <2>2, <2>3 DEF SelectJob
<1>d. ASSUME Shape', Reply(r), UNCHANGED <<apps, jobsCreated, appsCreated>>,
             \A j \in DOMAIN jobs' : jobs'[j].owner = poster[j]
      PROVE  Goal
  <2>1. poster \in Posters' /\ origin \in Origins'
    BY <1>d DEF Posters, Origins
  <2>2. Extends(poster, poster) /\ Extends(origin, origin)
    BY DEF Extends
  <2>3. QED
    BY <1>0, <1>a, <1>d, <2>1, <2>2, ReplyState, IdleAgrees DEF Agrees
<1>5. CASE SaveJob(r)
  <2> DEFINE j == req[r].job
  <2>0. /\ req[r].pc = "updateJob" /\ req[r].row \in JobRows
        /\ req[r].cols \subseteq {"title", "status"}
    BY <1>0, <1>5 DEF SaveJob, RequestOK
  <2>1. CASE j \notin DOMAIN jobs
    <3>1. UNCHANGED jobs
      BY <1>5, <2>1 DEF SaveJob
    <3>2. QED
      BY <1>5, <1>c, <3>1 DEF SaveJob, tables
  <2>2. CASE j \in DOMAIN jobs
    <3>1. jobs' = [jobs EXCEPT ![j] = Written(@, req[r].row, req[r].cols)]
      BY <1>5, <2>2 DEF SaveJob
    <3>2. /\ Written(jobs[j], req[r].row, req[r].cols) \in JobRows
          /\ Written(jobs[j], req[r].row, req[r].cols).owner = jobs[j].owner
      BY <1>0, <2>0, <2>2, WrittenJob DEF Shape
    <3>3. /\ DOMAIN jobs' = DOMAIN jobs /\ jobs' \in [DOMAIN jobs -> JobRows]
          /\ \A k \in DOMAIN jobs : jobs'[k].owner = jobs[k].owner
      BY <1>0, <2>2, <3>1, <3>2 DEF Shape
    <3>4. Shape'
      BY <1>0, <1>5, <3>3, ReplyState DEF SaveJob, Shape
    <3>5. QED
      BY <1>5, <1>d, <3>3, <3>4 DEF SaveJob, Agrees
  <2>3. QED
    BY <2>1, <2>2
<1>6. CASE InsertOldJob(r)
  <2> DEFINE j == req[r].job
  <2>0. /\ req[r].pc = "insertJob" /\ req[r].row \in JobRows
        /\ j \in jobsCreated /\ req[r].row.owner = poster[j]
    BY <1>0, <1>6, NoneAssumption DEF InsertOldJob, RequestOK, RequestAgrees
  <2>1. CASE j \in DOMAIN jobs
    BY <1>6, <1>c, <2>1 DEF InsertOldJob, tables
  <2>2. CASE j \notin DOMAIN jobs
    <3>1. jobs' = WithRow(jobs, j, req[r].row)
      BY <1>6, <2>2 DEF InsertOldJob
    <3>2. /\ DOMAIN jobs' = DOMAIN jobs \cup {j}
          /\ jobs' \in [DOMAIN jobs' -> JobRows]
          /\ jobs'[j] = req[r].row
          /\ \A k \in DOMAIN jobs \ {j} : jobs'[k] = jobs[k]
      BY <1>0, <2>0, <3>1 DEF WithRow, Shape
    <3>3. Shape'
      BY <1>0, <1>6, <2>0, <3>2, ReplyState DEF InsertOldJob, Shape
    <3>4. QED
      BY <1>6, <1>d, <2>0, <2>2, <3>2, <3>3 DEF InsertOldJob, Agrees
  <2>3. QED
    BY <2>1, <2>2
<1>7. CASE DeleteJob(r)
  <2> DEFINE gone == {a \in DOMAIN apps : apps[a].job = req[r].job}
  <2>1. /\ DOMAIN jobs' = DOMAIN jobs \ {req[r].job}
        /\ jobs' \in [DOMAIN jobs' -> JobRows]
        /\ \A k \in DOMAIN jobs' : jobs'[k] = jobs[k]
    BY <1>0, <1>7 DEF DeleteJob, Without, Shape
  <2>2. /\ DOMAIN apps' = DOMAIN apps \ gone
        /\ apps' \in [DOMAIN apps' -> AppRows]
        /\ \A a \in DOMAIN apps' : apps'[a] = apps[a]
    BY <1>0, <1>7 DEF DeleteJob, Without, Shape
  <2>3. Shape'
    BY <1>0, <1>7, <2>1, <2>2, ReplyState DEF DeleteJob, Shape
  <2>4. poster \in Posters' /\ origin \in Origins'
    BY <1>7 DEF DeleteJob, Posters, Origins
  <2>5. Extends(poster, poster) /\ Extends(origin, origin)
    BY DEF Extends
  <2>6. QED
    BY <1>0, <1>7, <1>a, <2>1, <2>2, <2>3, <2>4, <2>5, ReplyState, IdleAgrees
    DEF DeleteJob, Agrees
<1>8. CASE Abort(r) \/ Emit(r)
  BY <1>c, <1>8 DEF Abort, Emit
\* Applications.
<1>9. ASSUME NEW u \in Users, NEW j \in jobsCreated, Apply(r, u, j)
      PROVE  Goal
  <2>1. /\ j \in JobIds /\ "findOpenJob" \in Stages /\ u \in Applicants
        /\ Begin(r, u, "findOpenJob", j, None, None, None)
        /\ j \in JobIds \cup {None} /\ None \in AppIds \cup {None}
        /\ None \in {None} \cup JobPatches /\ None \in {None} \cup AppStatuses
        /\ Shape /\ role[u] \in Roles
    BY <1>0, <1>9 DEF Shape, Stages, Apply, Allowed, Applicants, Held, RolesHeld
  <2> HIDE <1>r
  <2>2. /\ req' \in [Requests -> RequestStates] /\ UNCHANGED tables
        /\ req'[r].pc = "findOpenJob" /\ req'[r].user = u
        /\ req'[r].job = j /\ req'[r].app = None
        /\ \A q \in Requests \ {r} : req'[q] = req[q]
    BY <2>1, BeginState
  <2>3. RequestOK(r)' /\ RequestAgrees(r, poster, origin)'
    BY <1>r, <2>1, <2>2 DEF RequestOK, RequestAgrees, tables, Applicants
  <2>4. QED
    BY <1>b, <2>2, <2>3
<1>10. ASSUME NEW u \in Users, NEW a \in appsCreated, NEW status \in Asked,
              Review(r, u, a, status)
       PROVE  Goal
  <2>1. /\ a \in AppIds /\ "findApp" \in Stages /\ status \in AppStatuses
        /\ role[u] \in {"recruiter", "employer", "super_admin"}
        /\ <<u, role[u]>> \in held /\ role[u] \in Roles
    BY <1>0, <1>10, AskedAssumption
    DEF Shape, Stages, Review, Allowed, RolesHeld
  <2> HIDE <1>r
  <2>2. /\ req' \in [Requests -> RequestStates] /\ UNCHANGED tables
        /\ req'[r].pc = "findApp" /\ req'[r].user = u /\ req'[r].role = role[u]
        /\ req'[r].job = None /\ req'[r].app = a /\ req'[r].status = status
        /\ \A q \in Requests \ {r} : req'[q] = req[q]
    BY <1>0, <1>10, <2>1, BeginState DEF Review
  <2>3. RequestOK(r)' /\ RequestAgrees(r, poster, origin)'
    BY <1>r, <2>1, <2>2 DEF RequestOK, RequestAgrees, tables
  <2>4. QED
    BY <1>b, <2>2, <2>3
<1>11. CASE FindOpenJob(r) \/ FindExisting(r)
  <2>0. UNCHANGED tables
    BY <1>11 DEF FindOpenJob, FindExisting
  <2>1. CASE Reply(r)
    BY <1>c, <2>0, <2>1
  <2>2. ASSUME NEW stage \in {"findExisting", "insertApp"}, Goto(r, stage),
               AppliesTo(r)
        PROVE  Goal
    <3>1. stage \in Stages
      BY DEF Stages
    <3>2. RequestOK(r)' /\ RequestAgrees(r, poster, origin)'
      BY <1>0, <2>0, <2>2, <3>1, GotoState
      DEF RequestOK, RequestAgrees, tables, Applicants
    <3>3. QED
      BY <1>0, <1>b, <2>0, <2>2, <3>1, <3>2, GotoState
  <2>3. QED
    BY <1>11, <2>1, <2>2 DEF FindOpenJob, FindExisting
<1>12. CASE InsertApp(r)
  <2>0. /\ req[r].user \in Applicants
        /\ req[r].job \in jobsCreated /\ req[r].job \in JobIds
    BY <1>0, <1>12, NoneAssumption DEF InsertApp, RequestOK, RequestAgrees
  <2>1. CASE ~Insertable(req[r].user, req[r].job)
    BY <1>12, <1>c, <2>1 DEF InsertApp, tables
  <2>2. CASE Insertable(req[r].user, req[r].job)
    <3> DEFINE row == [job |-> req[r].job, applicant |-> req[r].user,
                       status |-> "pending", reviewer |-> None]
    <3>1. PICK a \in AppIds \ appsCreated :
            apps' = WithRow(apps, a, row) /\ appsCreated' = appsCreated \cup {a}
      BY <1>12, <2>2 DEF InsertApp
    <3>2. row \in AppRows
      BY <2>0 DEF AppRows, AppStatuses, Applicants
    <3>3. /\ DOMAIN apps' = DOMAIN apps \cup {a}
          /\ apps' \in [DOMAIN apps' -> AppRows] /\ apps'[a] = row
          /\ \A k \in DOMAIN apps \ {a} : apps'[k] = apps[k]
      BY <1>0, <3>1, <3>2 DEF WithRow, Shape
    <3>4. /\ req' \in [Requests -> RequestStates] /\ req'[r] = Idle
          /\ \A q \in Requests \ {r} : req'[q] = req[q]
          /\ UNCHANGED <<jobs, jobsCreated>>
      BY <1>0, <1>12, <2>2, ReplyState DEF InsertApp
    <3>5. Shape'
      BY <1>0, <3>1, <3>3, <3>4 DEF Shape
    <3>6. PICK first : first = [job |-> req[r].job, applicant |-> req[r].user]
      OBVIOUS
    <3> DEFINE origin2 == WithRow(origin, a, first)
    <3>7. /\ origin2 \in Origins' /\ Extends(origin2, origin)
          /\ origin2[a] = first
          /\ \A k \in appsCreated : origin2[k] = origin[k]
      BY <2>0, <3>1, <3>4, <3>6 DEF WithRow, Origins, Extends
    <3>8. poster \in Posters' /\ Extends(poster, poster)
      BY <3>4 DEF Posters, Extends
    <3> HIDE DEF origin2
    <3>9. AppAgrees(row, first, poster, held)
      BY <3>6 DEF AppAgrees
    <3>10. \A k \in DOMAIN apps' : AppAgrees(apps'[k], origin2[k], poster, held)
      BY <1>0, <3>1, <3>3, <3>7, <3>9 DEF Agrees, Shape
    <3>11. QED
      BY <1>a, <3>1, <3>4, <3>5, <3>7, <3>8, <3>10, IdleAgrees DEF Agrees
  <2>3. QED
    BY <2>1, <2>2
<1>13. CASE FindApp(r)
  <2> DEFINE a == req[r].app
  <2>0. /\ UNCHANGED tables /\ req[r].pc = "findApp"
        /\ a \in AppIds /\ req[r].user \in Users /\ req[r].status \in AppStatuses
        /\ req[r].role \in {"recruiter", "employer", "super_admin"}
        /\ <<req[r].user, req[r].role>> \in held
    BY <1>0, <1>13 DEF FindApp, RequestOK, RequestAgrees
  <2>1. CASE Reply(r)
    BY <1>c, <2>0, <2>1
  <2>2. CASE /\ a \in DOMAIN apps /\ MayReview(r, apps[a])
             /\ req' = [req EXCEPT ![r].pc = "selectApp", ![r].role = None,
                                   ![r].row = [apps[a] EXCEPT
                                                 !.status = req[r].status,
                                                 !.reviewer = req[r].user]]
    <3> DEFINE row == [apps[a] EXCEPT !.status = req[r].status,
                                      !.reviewer = req[r].user]
    <3>1. apps[a] \in AppRows /\ AppAgrees(apps[a], origin[a], poster, held)
      BY <1>0, <2>2 DEF Shape, Agrees
    <3>2. /\ row \in AppRows
          /\ row.job = apps[a].job /\ row.applicant = apps[a].applicant
          /\ row.status = req[r].status /\ row.reviewer = req[r].user
      BY <2>0, <3>1 DEF AppRows
    <3>4. req' = [req EXCEPT ![r].pc = "selectApp", ![r].role = None,
                             ![r].row = row]
      BY <2>2
    <3> HIDE DEF row
    <3>3. AppAgrees(row, origin[a], poster, held)
      <4>1. apps[a].job \in DOMAIN jobs
        BY <2>2 DEF AppsHaveJobs
      <4>2. req[r].role = "employer" => poster[apps[a].job] = req[r].user
        BY <2>2, <4>1 DEF MayReview, Agrees
      <4>3. Entitled(req[r].user, poster[apps[a].job], held)
        BY <2>0, <4>2 DEF Entitled
      <4>4. QED
        BY <3>1, <3>2, <4>3 DEF AppAgrees
    <3>5. /\ req' \in [Requests -> RequestStates]
          /\ req'[r].pc = "selectApp" /\ req'[r].user = req[r].user
          /\ req'[r].job = req[r].job /\ req'[r].app = a
          /\ req'[r].status = req[r].status /\ req'[r].row = row
          /\ \A q \in Requests \ {r} : req'[q] = req[q]
      BY <1>0, <3>2, <3>4 DEF Shape, RequestStates, Stages
    <3>6. RequestOK(r)'
      BY <2>0, <3>2, <3>5 DEF RequestOK
    <3>7. RequestAgrees(r, poster, origin)'
      BY <1>0, <2>0, <3>2, <3>3, <3>5 DEF RequestAgrees, tables
    <3>8. QED
      BY <1>b, <2>0, <3>5, <3>6, <3>7
  <2>3. QED
    BY <1>13, <2>1, <2>2 DEF FindApp
<1>e. ASSUME UNCHANGED <<jobs, jobsCreated, appsCreated>>, Shape',
             HoldsApp(r), Goto(r, "emit"),
             \A a \in DOMAIN apps' : AppAgrees(apps'[a], origin[a], poster, held)
      PROVE  Goal
  <2>1. poster \in Posters' /\ origin \in Origins'
    BY <1>e DEF Posters, Origins
  <2>2. Extends(poster, poster) /\ Extends(origin, origin)
    BY DEF Extends
  <2>3. "emit" \in Stages
    BY DEF Stages
  <2>4. RequestOK(r)' /\ RequestAgrees(r, poster, origin)'
    BY <1>0, <1>e, <2>3, GotoState DEF RequestOK, RequestAgrees
  <2>5. QED
    BY <1>0, <1>a, <1>e, <2>1, <2>2, <2>3, <2>4, GotoState DEF Agrees
<1>14. CASE SelectApp(r)
  <2> DEFINE a == req[r].app
  <2>0. /\ UNCHANGED tables /\ req[r].pc = "selectApp"
        /\ a \in AppIds /\ req[r].user \in Users
        /\ req[r].status \in AppStatuses /\ req[r].row \in AppRows
        /\ AppAgrees(req[r].row, origin[a], poster, held)
    BY <1>0, <1>14 DEF SelectApp, RequestOK, RequestAgrees
  <2>1. CASE Goto(r, "emit")
    BY <1>0, <1>e, <2>0, <2>1, GotoState DEF tables, Shape, Agrees, Stages
  <2>2. CASE /\ a \in DOMAIN apps
             /\ req' = [req EXCEPT ![r].pc = "updateApp",
                                   ![r].cols = Differing(apps[a], req[r].row)]
    <3>1. /\ apps[a] \in AppRows /\ apps[a].job = req[r].row.job
          /\ apps[a].applicant = req[r].row.applicant
      BY <1>0, <2>0, <2>2 DEF Shape, Agrees, AppAgrees
    <3>2. Differing(apps[a], req[r].row) \subseteq {"status", "reviewer"}
      BY <3>1, DifferingApp
    <3> DEFINE next == [req[r] EXCEPT !.pc = "updateApp",
                                      !.cols = Differing(apps[a], req[r].row)]
    <3>6. req' = [req EXCEPT ![r] = next]
      BY <1>0, <2>2 DEF Shape
    <3>7. /\ next \in RequestStates
          /\ next.pc = "updateApp" /\ next.user = req[r].user
          /\ next.job = req[r].job /\ next.app = a
          /\ next.status = req[r].status /\ next.row = req[r].row
          /\ next.cols = Differing(apps[a], req[r].row)
      BY <1>0, <3>2 DEF RequestStates, Stages, Columns
    <3> HIDE DEF next
    <3>3. /\ req' \in [Requests -> RequestStates]
          /\ req'[r].pc = "updateApp" /\ req'[r].user = req[r].user
          /\ req'[r].job = req[r].job /\ req'[r].app = a
          /\ req'[r].status = req[r].status /\ req'[r].row = req[r].row
          /\ req'[r].cols = Differing(apps[a], req[r].row)
          /\ \A q \in Requests \ {r} : req'[q] = req[q]
      BY <1>0, <3>6, <3>7 DEF Shape
    <3>4. RequestOK(r)' /\ RequestAgrees(r, poster, origin)'
      BY <1>0, <2>0, <3>2, <3>3 DEF RequestOK, RequestAgrees, tables
    <3>5. QED
      BY <1>b, <2>0, <3>3, <3>4
  <2>3. CASE Goto(r, "insertOldApp")
    <3>1. "insertOldApp" \in Stages
      BY DEF Stages
    <3>2. RequestOK(r)' /\ RequestAgrees(r, poster, origin)'
      BY <1>0, <2>0, <2>3, <3>1, GotoState DEF RequestOK, RequestAgrees, tables
    <3>3. QED
      BY <1>0, <1>b, <2>0, <2>3, <3>1, <3>2, GotoState
  <2>4. QED
    BY <1>14, <2>1, <2>2, <2>3 DEF SelectApp
<1>15. CASE SaveApp(r)
  <2> DEFINE a == req[r].app
  <2>0. /\ req[r].pc = "updateApp" /\ req[r].row \in AppRows
        /\ req[r].cols \subseteq {"status", "reviewer"}
        /\ AppAgrees(req[r].row, origin[a], poster, held)
        /\ "emit" \in Stages
    BY <1>0, <1>15 DEF SaveApp, RequestOK, RequestAgrees, Stages
  <2>1. CASE a \notin DOMAIN apps
    <3>1. UNCHANGED apps
      BY <1>15, <2>1 DEF SaveApp
    <3>2. QED
      BY <1>0, <1>15, <1>e, <2>0, <3>1, GotoState DEF SaveApp, Shape, Agrees
  <2>2. CASE a \in DOMAIN apps
    <3> DEFINE row == Written(apps[a], req[r].row, req[r].cols)
    <3>1. apps' = [apps EXCEPT ![a] = row]
      BY <1>15, <2>2 DEF SaveApp
    <3>2. apps[a] \in AppRows /\ AppAgrees(apps[a], origin[a], poster, held)
      BY <1>0, <2>2 DEF Shape, Agrees
    <3>3. /\ row \in AppRows /\ row.job = apps[a].job
          /\ row.applicant = apps[a].applicant
          /\ row.reviewer \in {apps[a].reviewer, req[r].row.reviewer}
      BY <2>0, <3>2, WrittenApp
    <3> HIDE DEF row
    <3>4. AppAgrees(row, origin[a], poster, held)
      BY <2>0, <3>2, <3>3 DEF AppAgrees
    <3>5. /\ DOMAIN apps' = DOMAIN apps /\ apps' \in [DOMAIN apps -> AppRows]
          /\ \A k \in DOMAIN apps' : AppAgrees(apps'[k], origin[k], poster, held)
      BY <1>0, <2>2, <3>1, <3>3, <3>4 DEF Shape, Agrees
    <3>6. Shape'
      BY <1>0, <1>15, <2>0, <3>5, GotoState DEF SaveApp, Shape
    <3>7. QED
      BY <1>15, <1>e, <2>0, <3>5, <3>6 DEF SaveApp
  <2>3. QED
    BY <2>1, <2>2
<1>16. CASE InsertOldApp(r)
  <2> DEFINE a == req[r].app
  <2>0. /\ req[r].pc = "insertOldApp" /\ req[r].row \in AppRows
        /\ a \in appsCreated
        /\ AppAgrees(req[r].row, origin[a], poster, held)
        /\ "emit" \in Stages
    BY <1>0, <1>16, NoneAssumption
    DEF InsertOldApp, RequestOK, RequestAgrees, Stages
  <2>1. CASE Reply(r) /\ UNCHANGED apps
    BY <1>16, <1>c, <2>1 DEF InsertOldApp, tables
  <2>2. CASE apps' = WithRow(apps, a, req[r].row) /\ Goto(r, "emit")
    <3>1. /\ DOMAIN apps' = DOMAIN apps \cup {a}
          /\ apps' \in [DOMAIN apps' -> AppRows] /\ apps'[a] = req[r].row
          /\ \A k \in DOMAIN apps \ {a} : apps'[k] = apps[k]
      BY <1>0, <2>0, <2>2 DEF WithRow, Shape
    <3>2. Shape'
      BY <1>0, <1>16, <2>0, <2>2, <3>1, GotoState DEF InsertOldApp, Shape
    <3>3. QED
      BY <1>16, <1>e, <2>0, <2>2, <3>1, <3>2 DEF InsertOldApp, Agrees
  <2>3. QED
    BY <1>16, <2>1, <2>2 DEF InsertOldApp
<1>17. CASE Call(r)
  <2>1. ASSUME NEW u \in Users, NEW j \in jobsCreated, NEW patch \in Patches,
               UpdateJob(r, u, j, patch)
        PROVE  Goal
    BY <1>2, <2>1, PatchesAssumption DEF UpdateJob
  <2>2. ASSUME NEW u \in Users, NEW j \in jobsCreated, RemoveJob(r, u, j)
        PROVE  Goal
    BY <1>2, <2>2 DEF RemoveJob
  <2>3. QED
    BY <1>1, <1>9, <1>10, <1>17, <2>1, <2>2 DEF Call
<1>18. CASE Step(r)
  BY <1>3, <1>4, <1>5, <1>6, <1>7, <1>8, <1>11, <1>12, <1>13, <1>14, <1>15,
     <1>16, <1>18 DEF Step
<1>19. QED
  BY <1>8, <1>17, <1>18

\* What the tables hold is well formed, and all copies of a row agree on what
\* never changes.
LEMMA CopiesStep ==
  ASSUME TypeOK, AppsHaveJobs, RolesHeld, CopiesAgree, [Next]_vars
  PROVE  TypeOK' /\ RolesHeld' /\ CopiesAgree'
<1>1. PICK poster \in Posters, origin \in Origins : Agrees(poster, origin)
  BY DEF CopiesAgree, Posters, Origins
<1>2. ASSUME NEW r \in Requests, Call(r) \/ Step(r) \/ Abort(r), Track(r),
             UNCHANGED roles
      PROVE  TypeOK' /\ RolesHeld' /\ CopiesAgree'
  <2>1. Shape' /\ CopiesAgree' /\ \A q \in Requests : RequestOK(q)'
    BY <1>1, <1>2, StepAgrees
  <2>2. disturbed' \subseteq Requests
    BY <1>2 DEF Track
  <2>3. QED
    BY <1>2, <2>1, <2>2 DEF TypeOK, Shape, RolesHeld, roles
<1>3. CASE UNCHANGED vars
  <2>1. TypeOK'
    BY <1>3 DEF TypeOK, vars, RequestOK
  <2>2. Agrees(poster, origin)'
    BY <1>1, <1>3
    DEF vars, Agrees, RequestAgrees, HoldsJob, HoldsApp, AppliesTo, Applicants,
        Held
  <2>3. RolesHeld' /\ Applicants' = Applicants
    BY <1>3 DEF vars, RolesHeld, Applicants, Held
  <2>4. QED
    BY <1>1, <1>3, <2>1, <2>2, <2>3 DEF CopiesAgree, vars, Posters, Origins
<1>4. ASSUME NEW assignment \in Assigned,
             AssignRole(assignment[1], assignment[2])
      PROVE  TypeOK' /\ RolesHeld' /\ CopiesAgree'
  <2>1. PICK u \in Users, new \in Roles : AssignRole(u, new)
    BY <1>4, RoleAssumption
  <2>2. /\ UNCHANGED <<jobs, apps, jobsCreated, appsCreated, req, disturbed>>
        /\ role' = [role EXCEPT ![u] = new] /\ held' = held \cup {<<u, new>>}
    BY <2>1 DEF AssignRole, tables
  <2>3. TypeOK'
    BY <2>2 DEF TypeOK, RequestOK
  <2>4. RolesHeld'
    BY <2>2 DEF TypeOK, RolesHeld
  <2>5. Applicants \subseteq Applicants'
    BY <2>2 DEF Applicants, Held
  <2>6. poster \in Posters' /\ origin \in Origins'
    BY <2>2, <2>5 DEF Posters, Origins
  <2>7. Extends(poster, poster) /\ Extends(origin, origin)
    BY DEF Extends
  <2>8. \A r \in Requests : RequestAgrees(r, poster, origin)'
    BY <1>1, <2>2, <2>7, UntouchedAgrees DEF Agrees
  <2>9. \A a \in DOMAIN apps : AppAgrees(apps[a], origin[a], poster, held')
    BY <1>1, <2>2 DEF Agrees, AppAgrees, Entitled
  <2>10. Agrees(poster, origin)'
    BY <1>1, <2>2, <2>8, <2>9 DEF Agrees
  <2>11. QED
    BY <2>3, <2>4, <2>6, <2>10 DEF CopiesAgree, Posters, Origins
<1>5. QED
  BY <1>2, <1>3, <1>4 DEF Next

IInv == TypeOK /\ AppsHaveJobs /\ RolesHeld /\ CopiesAgree

LEMMA CopiesAlways == Spec => []IInv
<1>1. Init => IInv
  <2> SUFFICES ASSUME Init
               PROVE  IInv
    OBVIOUS
  <2>1. TypeOK /\ AppsHaveJobs
    BY IdleState, RoleAssumption
    DEF Init, TypeOK, AppsHaveJobs, RequestOK, JobStages, ReviewStages
  <2>0. RolesHeld
    BY DEF Init, RolesHeld
  <2> DEFINE nothing == [i \in {} |-> None]
  <2>2. nothing \in Posters /\ nothing \in Origins
    BY DEF Init, Posters, Origins
  <2>3. Agrees(nothing, nothing)
    BY DEF Init, Agrees, RequestAgrees, Idle, HoldsJob, HoldsApp, AppliesTo,
           ReviewStages
  <2>4. QED
    BY <2>0, <2>1, <2>2, <2>3 DEF IInv, CopiesAgree, Posters, Origins
<1>2. IInv /\ [Next]_vars => IInv'
  BY CopiesStep, JobsStep DEF IInv
<1>3. QED
  BY <1>1, <1>2, PTL DEF Spec

\* Every reachable state is well typed: in particular a save() never writes
\* the owner of a job, or the job and applicant of an application, although
\* the row it is compared with may have been deleted and inserted again.
THEOREM TypeCorrect == Spec => []TypeOK
<1>1. IInv => TypeOK
  BY DEF IInv
<1>2. QED
  BY <1>1, CopiesAlways, PTL

\* No interleaving of deletions, applications and reviews leaves an
\* application without its job.
THEOREM AppsKeepJobs == Spec => []AppsHaveJobs
<1>1. IInv => AppsHaveJobs
  BY DEF IInv
<1>2. QED
  BY <1>1, CopiesAlways, PTL

\* No interleaving gives a user two applications to one job, although the
\* check of apply() and its INSERT are apart, and a review may insert an
\* application that was deleted under it.
THEOREM OneApplication == Spec => []UniqueApplications
<1>1. Init => UniqueApplications
  BY DEF Init, UniqueApplications
<1>2. TypeOK /\ UniqueApplications /\ [Next]_vars => UniqueApplications'
  BY UniqueStep
<1>3. QED
  BY <1>1, <1>2, TypeCorrect, PTL DEF Spec

\* Whoever is the reviewer of an application was entitled to review it, and
\* its applicant to apply, by a role they have or had: whatever roles are
\* assigned at whatever moment, also when the check was made on a row that has
\* been deleted since, or when the job was deleted and has come back.
THEOREM ReviewersAreEntitled == Spec => []ReviewersEntitled
<1>1. IInv => ReviewersEntitled
  <2> SUFFICES ASSUME IInv, NEW a \in DOMAIN apps
               PROVE  LET u == apps[a].reviewer IN
                      /\ Held(apps[a].applicant, "applicant")
                      /\ u # None => Entitled(u, jobs[apps[a].job].owner, held)
    BY DEF ReviewersEntitled, Entitled, Held
  <2>1. PICK poster \in Posters, origin \in Origins : Agrees(poster, origin)
    BY DEF IInv, CopiesAgree, Posters, Origins
  <2>2. AppAgrees(apps[a], origin[a], poster, held) /\ a \in appsCreated
    BY <2>1 DEF Agrees, IInv, TypeOK
  <2>3. apps[a].job \in DOMAIN jobs /\ origin[a].applicant \in Applicants
    BY <2>1, <2>2 DEF IInv, AppsHaveJobs, Origins
  <2>4. jobs[apps[a].job].owner = poster[apps[a].job]
    BY <2>1, <2>3 DEF Agrees
  <2>5. QED
    BY <2>2, <2>3, <2>4 DEF AppAgrees, Applicants
<1>2. QED
  BY <1>1, CopiesAlways, PTL

-----------------------------------------------------------------------------
(***************************************************************************)
(* Requests under which no other has written.  What such a request has     *)
(* read is still so, and its later queries find what its checks promised.  *)
(***************************************************************************)
StillAsRead(r) ==
  LET q == req[r] IN
  r \notin disturbed =>
    /\ q.pc \in {"selectJob", "updateJob"} =>
         q.job \in DOMAIN jobs /\ q.row = Assign(jobs[q.job], q.patch)
    /\ q.pc \notin {"insertJob", "insertOldApp"}
    /\ q.pc \in {"findExisting", "insertApp"} =>
         q.job \in DOMAIN jobs /\ jobs[q.job].status = "open"
    /\ q.pc = "insertApp" => Duplicates(q.user, q.job) = {}
    /\ q.pc \in {"selectApp", "updateApp", "emit"} => q.app \in DOMAIN apps
    /\ q.pc = "updateApp" => q.cols = Differing(apps[q.app], q.row)
    /\ q.pc = "emit" => /\ apps[q.app].status = q.status
                        /\ apps[q.app].reviewer = q.user

AllAsRead == \A r \in Requests : StillAsRead(r)

\* What a review is about to write is what it was asked for, to the
\* application it is about.
LEMMA HeldApp ==
  ASSUME IInv, NEW r \in Requests, HoldsApp(r)
  PROVE  /\ req[r].row \in AppRows
         /\ req[r].row.status = req[r].status
         /\ req[r].row.reviewer = req[r].user
         /\ req[r].app \in DOMAIN apps =>
              /\ apps[req[r].app] \in AppRows
              /\ apps[req[r].app].job = req[r].row.job
              /\ apps[req[r].app].applicant = req[r].row.applicant
<1>1. PICK poster \in Posters, origin \in Origins : Agrees(poster, origin)
  BY DEF IInv, CopiesAgree, Posters, Origins
<1>2. RequestOK(r) /\ RequestAgrees(r, poster, origin)
  BY <1>1 DEF IInv, TypeOK, Agrees
<1>3. req[r].row \in AppRows
  BY <1>2 DEF RequestOK, HoldsApp
<1>4. req[r].app \in DOMAIN apps => apps[req[r].app] \in AppRows
  BY DEF IInv, TypeOK
<1>5. QED
  BY <1>1, <1>2, <1>3, <1>4 DEF RequestAgrees, Agrees, AppAgrees

\* An UPDATE of the columns that differ leaves the row as it was to become.
LEMMA WrittenDiffering ==
  ASSUME NEW old \in AppRows, NEW new \in AppRows,
         old.job = new.job, old.applicant = new.applicant
  PROVE  /\ Written(old, new, Differing(old, new)).status = new.status
         /\ Written(old, new, Differing(old, new)).reviewer = new.reviewer
<1>1. Differing(old, new) \subseteq {"status", "reviewer"}
  BY DifferingApp
<1>2. /\ "status" \notin Differing(old, new) => old.status = new.status
      /\ "reviewer" \notin Differing(old, new) => old.reviewer = new.reviewer
  BY AppRowParts DEF Differing, AppColumns
<1>3. QED
  BY <1>1, <1>2, WrittenApp

\* A step of an undisturbed request.
LEMMA OwnStep ==
  ASSUME IInv, NEW r \in Requests, StillAsRead(r), r \notin disturbed,
         Call(r) \/ Step(r) \/ Abort(r)
  PROVE  StillAsRead(r)'
<1> USE DEF StillAsRead
<1>0. Shape /\ RequestOK(r) /\ req[r] \in RequestStates
  BY DEF IInv, TypeOK, Shape
<1>1. ASSUME req'[r].pc \in {"idle", "findJob", "deleteJob", "findOpenJob", "findApp"}
      PROVE  StillAsRead(r)'
  BY <1>1
<1>2. CASE Reply(r)
  BY <1>0, <1>1, <1>2, ReplyState, IdleState
<1>3. CASE Call(r)
  <2>1. ASSUME NEW u, NEW stage \in {"findJob", "findOpenJob", "findApp"},
               NEW job, NEW app, NEW patch, NEW status,
               Begin(r, u, stage, job, app, patch, status)
        PROVE  StillAsRead(r)'
    <3>1. req'[r].pc = stage
      BY <1>0, <2>1 DEF Begin, Shape, Idle
    <3>2. QED
      BY <1>1, <3>1
  <2>2. ASSUME NEW u, NEW job, NEW patch, UpdateJob(r, u, job, patch)
        PROVE  StillAsRead(r)'
    BY <2>1, <2>2 DEF UpdateJob
  <2>3. ASSUME NEW u, NEW job, RemoveJob(r, u, job)
        PROVE  StillAsRead(r)'
    BY <2>1, <2>3 DEF RemoveJob
  <2>4. ASSUME NEW u, NEW job, Apply(r, u, job)
        PROVE  StillAsRead(r)'
    BY <2>1, <2>4 DEF Apply
  <2>5. ASSUME NEW u, NEW app, NEW status, Review(r, u, app, status)
        PROVE  StillAsRead(r)'
    BY <2>1, <2>5 DEF Review
  <2> HIDE DEF StillAsRead
  <2>6. QED
    BY <1>2, <1>3, <2>2, <2>3, <2>4, <2>5 DEF Call, CreateJob
<1>4. CASE FindJob(r)
  <2>1. CASE req' = [req EXCEPT ![r].pc = "deleteJob", ![r].user = None,
                                ![r].role = None]
    <3>1. req'[r].pc = "deleteJob"
      BY <1>0, <2>1 DEF Shape, RequestStates
    <3>2. QED
      BY <1>1, <3>1
  <2>2. CASE /\ req[r].job \in DOMAIN jobs
             /\ req' = [req EXCEPT
                  ![r].pc = "selectJob", ![r].user = None, ![r].role = None,
                  ![r].row = Assign(jobs[req[r].job], req[r].patch)]
    <3>1. /\ req'[r].pc = "selectJob" /\ req'[r].job = req[r].job
          /\ req'[r].patch = req[r].patch
          /\ req'[r].row = Assign(jobs[req[r].job], req[r].patch)
          /\ UNCHANGED jobs
      BY <1>0, <1>4, <2>2 DEF FindJob, Shape, RequestStates, tables
    <3>2. QED
      BY <2>2, <3>1
  <2>3. QED
    BY <1>2, <1>4, <2>1, <2>2 DEF FindJob
<1>5. CASE SelectJob(r)
  <2>1. req[r].job \in DOMAIN jobs
    BY <1>5 DEF SelectJob
  <2>2. CASE req' = [req EXCEPT
               ![r].pc = "updateJob",
               ![r].cols = Differing(jobs[req[r].job], req[r].row)]
    <3>1. /\ req'[r].pc = "updateJob" /\ req'[r].job = req[r].job
          /\ req'[r].patch = req[r].patch /\ req'[r].row = req[r].row
          /\ UNCHANGED jobs
      BY <1>0, <1>5, <2>2 DEF SelectJob, Shape, RequestStates, tables
    <3>2. req[r].row = Assign(jobs[req[r].job], req[r].patch)
      BY <1>5 DEF SelectJob
    <3>3. QED
      BY <2>1, <3>1, <3>2
  <2>3. QED
    BY <1>2, <1>5, <2>1, <2>2 DEF SelectJob
<1>6. CASE FindOpenJob(r)
  <2>1. CASE /\ req[r].job \in DOMAIN jobs
             /\ jobs[req[r].job].status # "closed"
             /\ Goto(r, "findExisting")
    <3>1. "findExisting" \in Stages /\ UNCHANGED jobs
      BY <1>6 DEF FindOpenJob, tables, Stages
    <3>2. jobs[req[r].job].status = "open"
      BY <1>0, <2>1, JobRowParts DEF Shape, JobStatuses
    <3>3. QED
      BY <1>0, <2>1, <3>1, <3>2, GotoState
  <2>2. QED
    BY <1>2, <1>6, <2>1 DEF FindOpenJob
<1>7. CASE FindExisting(r)
  <2>1. CASE Duplicates(req[r].user, req[r].job) = {} /\ Goto(r, "insertApp")
    <3>1. "insertApp" \in Stages /\ UNCHANGED <<jobs, apps>>
      BY <1>7 DEF FindExisting, tables, Stages
    <3>2. req[r].job \in DOMAIN jobs /\ jobs[req[r].job].status = "open"
      BY <1>7 DEF FindExisting
    <3>3. /\ req'[r].pc = "insertApp"
          /\ req'[r].user = req[r].user /\ req'[r].job = req[r].job
      BY <1>0, <2>1, <3>1, GotoState
    <3>4. Duplicates(req[r].user, req[r].job)' = {}
      BY <2>1, <3>1, <3>3 DEF Duplicates
    <3>5. QED
      BY <3>1, <3>2, <3>3, <3>4
  <2>2. QED
    BY <1>2, <1>7, <2>1 DEF FindExisting
<1>8. CASE FindApp(r)
  <2>1. CASE /\ req[r].app \in DOMAIN apps
             /\ \E row : req' = [req EXCEPT ![r].pc = "selectApp",
                                            ![r].role = None, ![r].row = row]
    <3>1. /\ req'[r].pc = "selectApp" /\ req'[r].app = req[r].app
          /\ UNCHANGED apps
      BY <1>0, <1>8, <2>1 DEF FindApp, Shape, RequestStates, tables
    <3>2. QED
      BY <2>1, <3>1
  <2>2. QED
    BY <1>2, <1>8, <2>1 DEF FindApp
<1>9. CASE SelectApp(r)
  <2>1. req[r].app \in DOMAIN apps /\ HoldsApp(r) /\ UNCHANGED apps
    BY <1>9 DEF SelectApp, HoldsApp, tables
  <2>2. CASE apps[req[r].app] = req[r].row /\ Goto(r, "emit")
    <3>1. "emit" \in Stages
      BY DEF Stages
    <3>2. /\ req'[r].pc = "emit" /\ req'[r].app = req[r].app
          /\ req'[r].status = req[r].status /\ req'[r].user = req[r].user
      BY <1>0, <2>2, <3>1, GotoState
    <3>3. /\ apps[req[r].app].status = req[r].status
          /\ apps[req[r].app].reviewer = req[r].user
      BY <2>1, <2>2, HeldApp
    <3>4. QED
      BY <2>1, <3>2, <3>3
  <2>3. CASE req' = [req EXCEPT
               ![r].pc = "updateApp",
               ![r].cols = Differing(apps[req[r].app], req[r].row)]
    <3>1. /\ req'[r].pc = "updateApp" /\ req'[r].app = req[r].app
          /\ req'[r].row = req[r].row
          /\ req'[r].cols = Differing(apps[req[r].app], req[r].row)
      BY <1>0, <2>3 DEF Shape, RequestStates
    <3>2. QED
      BY <2>1, <3>1
  <2>4. QED
    BY <1>9, <2>1, <2>2, <2>3 DEF SelectApp
<1>10. CASE SaveApp(r)
  <2>1. /\ req[r].app \in DOMAIN apps /\ HoldsApp(r)
        /\ req[r].cols = Differing(apps[req[r].app], req[r].row)
        /\ "emit" \in Stages
    BY <1>10 DEF SaveApp, HoldsApp, Stages
  <2> DEFINE row == Written(apps[req[r].app], req[r].row, req[r].cols)
  <2>2. apps' = [apps EXCEPT ![req[r].app] = row] /\ Goto(r, "emit")
    BY <1>10, <2>1 DEF SaveApp
  <2>3. row.status = req[r].status /\ row.reviewer = req[r].user
    BY <2>1, HeldApp, WrittenDiffering
  <2> HIDE DEF row
  <2>4. QED
    BY <1>0, <2>1, <2>2, <2>3, GotoState
<1>11. CASE InsertOldApp(r)
  BY <1>11 DEF InsertOldApp
<1>12. QED
  BY <1>2, <1>3, <1>4, <1>5, <1>6, <1>7, <1>8, <1>9, <1>10, <1>11
  DEF Step, Abort, SaveJob, InsertOldJob, DeleteJob, InsertApp, Emit

LEMMA AsReadStep ==
  ASSUME IInv, AllAsRead, [Next]_vars
  PROVE  AllAsRead'
<1>1. ASSUME NEW r \in Requests, Call(r) \/ Step(r) \/ Abort(r), Track(r),
             UNCHANGED roles, NEW q \in Requests
      PROVE  StillAsRead(q)'
  <2>0. /\ StillAsRead(q)
        /\ q \notin disturbed' =>
             \/ req'[q].pc = "idle"
             \/ q \notin disturbed /\ (q = r \/ UNCHANGED tables)
    BY <1>1 DEF AllAsRead, Track
  <2>1. CASE req'[q].pc = "idle" \/ q \in disturbed'
    BY <2>1 DEF StillAsRead
  <2>2. CASE q = r /\ q \notin disturbed
    BY <1>1, <2>0, <2>2, OwnStep
  <2>3. CASE q # r /\ q \notin disturbed /\ UNCHANGED tables
    <3>1. PICK poster \in Posters, origin \in Origins : Agrees(poster, origin)
      BY DEF IInv, CopiesAgree, Posters, Origins
    <3>2. req'[q] = req[q]
      BY <1>1, <2>3, <3>1, StepAgrees DEF IInv
    <3>3. QED
      BY <2>0, <2>3, <3>2 DEF StillAsRead, tables, Duplicates
  <2>4. QED
    BY <2>0, <2>1, <2>2, <2>3
<1>2. CASE UNCHANGED <<tables, req, disturbed>>
  BY <1>2 DEF tables, AllAsRead, StillAsRead, Duplicates
<1>3. QED
  BY <1>1, <1>2 DEF Next, vars, tables, AssignRole, AllAsRead

LEMMA AsReadAlways == Spec => []AllAsRead
<1>1. Init => AllAsRead
  BY DEF Init, AllAsRead, StillAsRead, Idle
<1>2. IInv /\ AllAsRead /\ [Next]_vars => AllAsRead'
  BY AsReadStep
<1>3. QED
  BY <1>1, <1>2, CopiesAlways, PTL DEF Spec

\* The INSERT of apply() is refused only if another request wrote since the
\* handler began, for every number of requests.
THEOREM ApplyForesees == Spec => []ChecksAnticipate
<1>1. AllAsRead => ChecksAnticipate
  BY DEF AllAsRead, StillAsRead, ChecksAnticipate, Insertable
<1>2. QED
  BY <1>1, AsReadAlways, PTL

\* A review under which no other request wrote ends with its status and its
\* reviewer on the application, also when save() had nothing to write.
THEOREM ReviewsSigned == Spec => []StatusSigned
<1>1. AllAsRead => StatusSigned
  BY DEF AllAsRead, StillAsRead, StatusSigned
<1>2. QED
  BY <1>1, AsReadAlways, PTL


-----------------------------------------------------------------------------
(***************************************************************************)
(* What a step may do to a job, and to the applications of a closed one.   *)
(***************************************************************************)

JobMade ==
  \E j \in JobIds \ jobsCreated, row \in JobRows : jobs' = WithRow(jobs, j, row)

\* What the writes of jobs leave of a job that was created before.
LEMMA JobAfter ==
  ASSUME TypeOK, NEW r \in Requests, NEW j \in jobsCreated, j \in DOMAIN jobs',
         \/ UNCHANGED jobs
         \/ JobMade
         \/ SaveJob(r) \/ InsertOldJob(r) \/ DeleteJob(r)
  PROVE  /\ j \notin DOMAIN jobs => InsertOldJob(r) /\ req[r].job = j
         /\ j \in DOMAIN jobs =>
              \/ jobs'[j] = jobs[j]
              \/ SaveJob(r) /\ req[r].job = j
<1>1. CASE JobMade
  BY <1>1 DEF JobMade, WithRow
<1>2. CASE SaveJob(r)
  BY <1>2 DEF SaveJob, TypeOK
<1>3. CASE InsertOldJob(r)
  BY <1>3 DEF InsertOldJob, WithRow
<1>4. CASE DeleteJob(r)
  BY <1>4 DEF DeleteJob, Without
<1>5. QED
  BY <1>1, <1>2, <1>3, <1>4

\* The steps that write jobs, and those that make applications.
LEMMA Writers ==
  ASSUME NEW r \in Requests, Call(r) \/ Step(r) \/ Abort(r)
  PROVE  /\ \/ UNCHANGED jobs
            \/ JobMade
            \/ SaveJob(r) \/ InsertOldJob(r) \/ DeleteJob(r)
         /\ UNCHANGED appsCreated \/ InsertApp(r)
<1>1. CASE Call(r)
  <2>1. ASSUME NEW u \in Users, NEW title \in Titles, CreateJob(r, u, title)
        PROVE  JobMade /\ UNCHANGED appsCreated
    BY <2>1 DEF CreateJob, JobMade, JobRows, JobStatuses
  <2>2. QED
    BY <1>1, <2>1 DEF Call, UpdateJob, RemoveJob, Apply, Review, Begin, tables
<1>2. CASE Step(r) \/ Abort(r)
  BY <1>2
  DEF Step, Abort, FindJob, SelectJob, SaveJob, InsertOldJob, DeleteJob,
      FindOpenJob, FindExisting, InsertApp, FindApp, SelectApp, SaveApp,
      InsertOldApp, Emit, tables
<1>3. QED
  BY <1>1, <1>2

\* A job that was deleted comes back only by the save() of an update under
\* which it was deleted, however many requests there are.
THEOREM DeletedJobsStay == Spec => DeletedStaysDeleted
<1> DEFINE Kept ==
      \A j \in jobsCreated :
        j \notin DOMAIN jobs /\ j \in DOMAIN jobs' =>
          \E r \in disturbed : req[r].pc = "insertJob" /\ req[r].job = j
<1>1. IInv /\ AllAsRead /\ [Next]_vars => [Kept]_vars
  <2> SUFFICES ASSUME IInv, AllAsRead, Next, NEW j \in jobsCreated,
                      j \notin DOMAIN jobs, j \in DOMAIN jobs'
               PROVE  \E r \in disturbed :
                        req[r].pc = "insertJob" /\ req[r].job = j
    OBVIOUS
  <2>1. PICK r \in Requests : Call(r) \/ Step(r) \/ Abort(r)
    BY DEF Next, AssignRole, tables
  <2>2. InsertOldJob(r) /\ req[r].job = j
    BY <2>1, Writers, JobAfter DEF IInv
  <2>3. r \in disturbed
    BY <2>2 DEF InsertOldJob, AllAsRead, StillAsRead
  <2>4. QED
    BY <2>2, <2>3 DEF InsertOldJob
<1>2. QED
  BY <1>1, CopiesAlways, AsReadAlways, PTL DEF Spec, DeletedStaysDeleted

\* An application to a closed job is stored only by an apply() under which
\* another request wrote.
THEOREM ClosedJobsRefuse == Spec => ClosedGetsNoApplications
<1> DEFINE Refused ==
      \A a \in appsCreated' \ appsCreated :
        \/ jobs[apps'[a].job].status = "open"
        \/ \E r \in disturbed : req[r].pc = "insertApp"
                                 /\ req[r].user = apps'[a].applicant
<1>1. IInv /\ AllAsRead /\ [Next]_vars => [Refused]_vars
  <2> SUFFICES ASSUME IInv, AllAsRead, Next,
                      NEW a \in appsCreated' \ appsCreated
               PROVE  \/ jobs[apps'[a].job].status = "open"
                      \/ \E r \in disturbed :
                            req[r].pc = "insertApp"
                              /\ req[r].user = apps'[a].applicant
    OBVIOUS
  <2>1. PICK r \in Requests : Call(r) \/ Step(r) \/ Abort(r)
    BY DEF Next, AssignRole, tables
  <2>2. InsertApp(r)
    BY <2>1, Writers
  <2> DEFINE row == [job |-> req[r].job, applicant |-> req[r].user,
                     status |-> "pending", reviewer |-> None]
  <2>3. apps' = WithRow(apps, a, row)
    BY <2>2 DEF InsertApp
  <2>4. apps'[a].job = req[r].job /\ apps'[a].applicant = req[r].user
    BY <2>3 DEF WithRow
  <2>5. r \in disturbed \/ jobs[req[r].job].status = "open"
    BY <2>2 DEF InsertApp, AllAsRead, StillAsRead
  <2>6. QED
    BY <2>2, <2>4, <2>5 DEF InsertApp
<1>2. QED
  BY <1>1, CopiesAlways, AsReadAlways, PTL DEF Spec, ClosedGetsNoApplications

\* The status of a job changes only by an update that asks for it, and as a
\* side effect of saving another column only when another request wrote
\* between the SELECT of the update and its UPDATE.
THEOREM StatusChangesAsAsked == Spec => StatusAsAsked
<1> DEFINE Asking ==
      \A j \in DOMAIN jobs \cap DOMAIN jobs' :
        jobs'[j].status # jobs[j].status =>
          \E r \in Requests :
            /\ req[r].pc = "updateJob" /\ req[r].job = j
            /\ req[r].patch.status = jobs'[j].status \/ r \in disturbed
<1>1. IInv /\ AllAsRead /\ [Next]_vars => [Asking]_vars
  <2> SUFFICES ASSUME IInv, AllAsRead, Next,
                      NEW j \in DOMAIN jobs \cap DOMAIN jobs',
                      jobs'[j].status # jobs[j].status
               PROVE  \E r \in Requests :
                        /\ req[r].pc = "updateJob" /\ req[r].job = j
                        /\ \/ req[r].patch.status = jobs'[j].status
                           \/ r \in disturbed
    OBVIOUS
  <2>1. PICK r \in Requests : Call(r) \/ Step(r) \/ Abort(r)
    BY DEF Next, AssignRole, tables
  <2>2. j \in jobsCreated /\ jobs[j] \in JobRows /\ RequestOK(r)
    BY DEF IInv, TypeOK
  <2>3. SaveJob(r) /\ req[r].job = j
    BY <2>1, <2>2, Writers, JobAfter DEF IInv
  <2>4. /\ req[r].row \in JobRows /\ req[r].cols \subseteq {"title", "status"}
        /\ req[r].patch \in JobPatches
        /\ jobs'[j] = Written(jobs[j], req[r].row, req[r].cols)
    BY <2>2, <2>3 DEF SaveJob, RequestOK
  <2>5. jobs'[j].status = req[r].row.status
    BY <2>2, <2>4, WrittenJob
  <2>6. r \notin disturbed => req[r].row = Assign(jobs[j], req[r].patch)
    BY <2>3 DEF SaveJob, AllAsRead, StillAsRead
  <2>7. r \notin disturbed => req[r].patch.status = jobs'[j].status
    BY <2>2, <2>4, <2>5, <2>6, AssignedJob
  <2>8. QED
    BY <2>3, <2>7 DEF SaveJob
<1>2. QED
  BY <1>1, CopiesAlways, AsReadAlways, PTL DEF Spec, StatusAsAsked
=============================================================================
