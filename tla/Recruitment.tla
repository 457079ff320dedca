---------------------------- MODULE Recruitment ----------------------------
(***************************************************************************)
(* Jobs and applications: JobsService.create, update and remove, and       *)
(* ApplicationsService.apply and updateStatus, behind the guards of their  *)
(* controllers, over the tables jobs and applications.                     *)
(*                                                                         *)
(* A request is a process, and every query is a step of its own: what a    *)
(* handler read is held in the request until it is used.  The repository's *)
(* save() is two queries for a row that has an id.  It selects the row,    *)
(* compares it with the object it was given, and updates the columns that  *)
(* differ; when there is no row it inserts the object.                     *)
(***************************************************************************)
EXTENDS Naturals, FiniteSets

CONSTANTS
  Requests,  \* requests that may be in flight together
  Users,
  FirstRole, \* the role each user begins with
  JobIds,    \* bound: jobs that are ever created
  AppIds,    \* bound: applications that are ever created
  Titles,    \* what may be in the columns of a job other than its status
  None,      \* no user, no row, a field left out of a request
  Patches,   \* bound: the updates of jobs that employers ask for
  Assigned,  \* bound: the users and roles of the assignments admins make
  Asked      \* bound: the statuses reviewers ask for

JobStatuses == {"open", "closed"}
AppStatuses == {"pending", "reviewed", "shortlisted", "rejected", "hired"}
Roles == {"super_admin", "employer", "recruiter", "applicant"}

\* UpdateJobDto: every field may be left out.
JobPatches == [title : Titles \cup {None}, status : JobStatuses \cup {None}]

ASSUME RoleAssumption ==
  FirstRole \in [Users -> Roles] /\ Assigned \subseteq Users \X Roles
ASSUME PatchesAssumption == Patches \subseteq JobPatches
ASSUME AskedAssumption == Asked \subseteq AppStatuses
ASSUME NoneAssumption ==
  None \notin Users \cup Titles \cup JobIds \cup AppIds \cup JobStatuses
                \cup AppStatuses

VARIABLES
  role,         \* the role column of the users table
  held,         \* history: the roles each user has or had, as pairs
  jobs,         \* the jobs table, by id
  apps,         \* the applications table, by id
  jobsCreated,  \* history: ids of jobs that were created
  appsCreated,  \* history: ids of applications that were created
  req,          \* the requests in flight
  disturbed     \* history: requests in flight under which another has written

vars == <<role, held, jobs, apps, jobsCreated, appsCreated, req, disturbed>>
roles == <<role, held>>
tables == <<jobs, apps, jobsCreated, appsCreated>>

JobRows == [owner : Users, title : Titles, status : JobStatuses]
AppRows == [job : JobIds, applicant : Users, status : AppStatuses,
            reviewer : Users \cup {None}]

Columns == {"title", "status", "reviewer"}

Stages ==
  {"idle", "findJob", "selectJob", "updateJob", "insertJob", "deleteJob",
   "findOpenJob", "findExisting", "insertApp",
   "findApp", "selectApp", "updateApp", "insertOldApp", "emit"}

\* What a request carries: its user and the role the guard read, the ids and
\* the change it asks for, the row it read with the change applied, and the
\* columns that differed.
Idle ==
  [pc |-> "idle", user |-> None, role |-> None, job |-> None, app |-> None,
   patch |-> None, status |-> None, row |-> None, cols |-> {}]

\* The request is answered, whatever the answer.
Reply(r) == req' = [req EXCEPT ![r] = Idle]
Goto(r, stage) == req' = [req EXCEPT ![r].pc = stage]

Begin(r, u, stage, job, app, patch, status) ==
  /\ req[r].pc = "idle"
  /\ req' = [req EXCEPT ![r] = [Idle EXCEPT
               !.pc = stage, !.user = u, !.role = role[u], !.job = job,
               !.app = app, !.patch = patch, !.status = status]]
  /\ UNCHANGED tables

\* RolesGuard with @Roles of a route.  It looks at the user that the token's
\* strategy read for this request; so do the checks of the handlers, however
\* the role has changed in between.
Allowed(u, permitted) == role[u] \in permitted

\* A table with one row set, and without some rows.
WithRow(table, id, row) ==
  [i \in DOMAIN table \cup {id} |-> IF i = id THEN row ELSE table[i]]
Without(table, ids) == [i \in DOMAIN table \ ids |-> table[i]]

\* The row in the table after an UPDATE of some columns to those of another.
Written(old, new, cols) ==
  [c \in DOMAIN old |-> IF c \in cols THEN new[c] ELSE old[c]]

Differing(old, new) == {c \in DOMAIN old : old[c] # new[c]}

Init ==
  /\ role = FirstRole
  /\ held = {<<u, FirstRole[u]>> : u \in Users}
  /\ jobs = [i \in {} |-> None]
  /\ apps = [i \in {} |-> None]
  /\ jobsCreated = {}
  /\ appsCreated = {}
  /\ req = [r \in Requests |-> Idle]
  /\ disturbed = {}

-----------------------------------------------------------------------------
\* Jobs.

\* create(): one INSERT, of an open job, which no other request knows of.
CreateJob(r, u, title) ==
  /\ req[r].pc = "idle"
  /\ Allowed(u, {"employer", "super_admin"})
  /\ \E j \in JobIds \ jobsCreated :
       /\ jobs' = WithRow(jobs, j, [owner |-> u, title |-> title,
                                    status |-> "open"])
       /\ jobsCreated' = jobsCreated \cup {j}
  /\ Reply(r)
  /\ UNCHANGED <<apps, appsCreated>>

\* update() of a job, with the fields its patch names.
UpdateJob(r, u, j, patch) ==
  /\ Allowed(u, {"employer", "super_admin"})
  /\ Begin(r, u, "findJob", j, None, patch, None)

\* remove() of a job: there is no patch.
RemoveJob(r, u, j) ==
  /\ Allowed(u, {"employer", "super_admin"})
  /\ Begin(r, u, "findJob", j, None, None, None)

MayChange(r, job) == req[r].role = "super_admin" \/ job.owner = req[r].user

\* Mutants: a field left out is undefined in the dto; the dto has a default.
AssignUndefined(job, patch) ==
  [job EXCEPT !.title = patch.title,
              !.status = IF patch.status = None THEN @ ELSE patch.status]
AssignDefault(job, patch) ==
  [job EXCEPT !.title = IF patch.title = None THEN @ ELSE patch.title,
              !.status = IF patch.status = None THEN "open" ELSE patch.status]

\* Object.assign(job, dto): fields that were left out are not in the dto.
Assign(job, patch) ==
  [job EXCEPT !.title = IF patch.title = None THEN @ ELSE patch.title,
              !.status = IF patch.status = None THEN @ ELSE patch.status]

\* Mutant: save({ id, ...dto, postedBy: user }), without findOne().
FindJobUpserts(r) ==
  /\ req[r].pc = "findJob"
  /\ IF req[r].patch = None THEN Goto(r, "deleteJob")
     ELSE \E title \in Titles :
            req' = [req EXCEPT ![r].pc = "selectJob", ![r].user = None,
              ![r].role = None,
              ![r].row = Assign([owner |-> req[r].user, title |-> title,
                                 status |-> "open"], req[r].patch)]
  /\ UNCHANGED tables

\* findOne() of the job, the ownership check, and the assignment.  The user
\* plays no part after it.
FindJob(r) ==
  LET j == req[r].job
      patch == req[r].patch IN
  /\ req[r].pc = "findJob"
  /\ \/ j \notin DOMAIN jobs /\ Reply(r)
     \/ /\ j \in DOMAIN jobs
        /\ ~MayChange(r, jobs[j])
        /\ Reply(r)
     \/ /\ j \in DOMAIN jobs
        /\ MayChange(r, jobs[j])
        /\ req' = IF patch = None
                  THEN [req EXCEPT ![r].pc = "deleteJob", ![r].user = None,
                                   ![r].role = None]
                  ELSE [req EXCEPT ![r].pc = "selectJob", ![r].user = None,
                                   ![r].role = None,
                                   ![r].row = Assign(jobs[j], patch)]
  /\ UNCHANGED tables

\* save() of the job: its SELECT.  Nothing is written when nothing differs.
SelectJob(r) ==
  LET j == req[r].job IN
  /\ req[r].pc = "selectJob"
  /\ \/ /\ j \in DOMAIN jobs
        /\ jobs[j] = req[r].row
        /\ Reply(r)
     \/ /\ j \in DOMAIN jobs
        /\ jobs[j] # req[r].row
        /\ req' = [req EXCEPT ![r].pc = "updateJob",
                              ![r].cols = Differing(jobs[j], req[r].row)]
     \/ j \notin DOMAIN jobs /\ Goto(r, "insertJob")
  /\ UNCHANGED tables

\* Its UPDATE of the columns that differed, of no row when it is gone.
SaveJob(r) ==
  LET j == req[r].job IN
  /\ req[r].pc = "updateJob"
  /\ IF j \in DOMAIN jobs
     THEN jobs' = [jobs EXCEPT ![j] = Written(@, req[r].row, req[r].cols)]
     ELSE UNCHANGED jobs
  /\ Reply(r)
  /\ UNCHANGED <<apps, jobsCreated, appsCreated>>

\* Its INSERT, under the old id, when the SELECT found no row.
InsertOldJob(r) ==
  LET j == req[r].job IN
  /\ req[r].pc = "insertJob"
  /\ IF j \in DOMAIN jobs
     THEN Reply(r) /\ UNCHANGED jobs
     ELSE Reply(r) /\ jobs' = WithRow(jobs, j, req[r].row)
  /\ UNCHANGED <<apps, jobsCreated, appsCreated>>

\* Mutant: a foreign key that neither cascades nor refuses.
DeleteJobOnly(r) ==
  /\ req[r].pc = "deleteJob"
  /\ jobs' = Without(jobs, {req[r].job})
  /\ Reply(r)
  /\ UNCHANGED <<apps, jobsCreated, appsCreated>>

\* DELETE of the job; its applications go by the foreign key's cascade.
DeleteJob(r) ==
  LET j == req[r].job IN
  /\ req[r].pc = "deleteJob"
  /\ jobs' = Without(jobs, {j})
  /\ apps' = Without(apps, {a \in DOMAIN apps : apps[a].job = j})
  /\ Reply(r)
  /\ UNCHANGED <<jobsCreated, appsCreated>>

-----------------------------------------------------------------------------
\* Applications.

\* apply() of an applicant to a job.
Apply(r, u, j) ==
  /\ Allowed(u, {"applicant"})
  /\ Begin(r, u, "findOpenJob", j, None, None, None)

\* Mutant: the status of the job is not looked at.
FindAnyJob(r) ==
  /\ req[r].pc = "findOpenJob"
  /\ IF req[r].job \in DOMAIN jobs THEN Goto(r, "findExisting")
     ELSE Reply(r)
  /\ UNCHANGED tables

\* findOne() of the job, and the checks on it.
FindOpenJob(r) ==
  LET j == req[r].job IN
  /\ req[r].pc = "findOpenJob"
  /\ \/ j \notin DOMAIN jobs /\ Reply(r)
     \/ /\ j \in DOMAIN jobs
        /\ IF jobs[j].status = "closed" THEN Reply(r)
           ELSE Goto(r, "findExisting")
  /\ UNCHANGED tables

\* The applications of a user to a job.
Duplicates(u, j) == {a \in DOMAIN apps : apps[a].job = j /\ apps[a].applicant = u}

\* Mutant: the check is left to the table's constraint.
FindNothing(r) ==
  /\ req[r].pc = "findExisting"
  /\ Goto(r, "insertApp")
  /\ UNCHANGED tables

\* findOne() of an application of the same user to the same job.
FindExisting(r) ==
  /\ req[r].pc = "findExisting"
  /\ IF Duplicates(req[r].user, req[r].job) # {}
     THEN Reply(r)
     ELSE Goto(r, "insertApp")
  /\ UNCHANGED tables

\* Mutant: no UNIQUE (job_id, applicant_id).
InsertableAgain(u, j) == j \in DOMAIN jobs

\* What the constraints of the applications table let in.
Insertable(u, j) == j \in DOMAIN jobs /\ Duplicates(u, j) = {}

\* INSERT of the application.  A constraint it violates is an error that no
\* one maps: HttpExceptionFilter answers 500.
InsertApp(r) ==
  LET u == req[r].user
      j == req[r].job IN
  /\ req[r].pc = "insertApp"
  /\ \/ /\ Insertable(u, j)
        /\ \E a \in AppIds \ appsCreated :
             /\ apps' = WithRow(apps, a, [job |-> j, applicant |-> u,
                                          status |-> "pending",
                                          reviewer |-> None])
             /\ appsCreated' = appsCreated \cup {a}
        /\ Reply(r)
     \/ /\ ~Insertable(u, j)
        /\ Reply(r)
        /\ UNCHANGED <<apps, appsCreated>>
  /\ UNCHANGED <<jobs, jobsCreated>>

\* updateStatus() of an application.
Review(r, u, a, status) ==
  /\ Allowed(u, {"recruiter", "employer", "super_admin"})
  /\ Begin(r, u, "findApp", None, a, None, status)

\* Mutant: the role is enough.
MayReviewAny(r, app) == req[r].role # "applicant"

\* An employer may review applications to the jobs they posted; recruiters
\* and super admins all of them.
MayReview(r, app) ==
  req[r].role = "employer" => jobs[app.job].owner = req[r].user

\* Mutant: the first reviewer stays.
FindAppKeeps(r) ==
  LET a == req[r].app IN
  /\ req[r].pc = "findApp"
  /\ \/ a \notin DOMAIN apps /\ Reply(r)
     \/ /\ a \in DOMAIN apps
        /\ req' = [req EXCEPT ![r].pc = "selectApp", ![r].role = None,
             ![r].row = [apps[a] EXCEPT
               !.status = req[r].status,
               !.reviewer = IF @ = None THEN req[r].user ELSE @]]
  /\ UNCHANGED tables

\* findOne() of the application with its job, the ownership check, and the
\* change of status and reviewer.  Any status may follow any other.
FindApp(r) ==
  LET a == req[r].app IN
  /\ req[r].pc = "findApp"
  /\ \/ a \notin DOMAIN apps /\ Reply(r)
     \/ /\ a \in DOMAIN apps
        /\ ~MayReview(r, apps[a])
        /\ Reply(r)
     \/ /\ a \in DOMAIN apps
        /\ MayReview(r, apps[a])
        /\ req' = [req EXCEPT ![r].pc = "selectApp", ![r].role = None,
                              ![r].row = [apps[a] EXCEPT
                                            !.status = req[r].status,
                                            !.reviewer = req[r].user]]
  /\ UNCHANGED tables

\* save() of the application: its SELECT.
SelectApp(r) ==
  LET a == req[r].app IN
  /\ req[r].pc = "selectApp"
  /\ \/ /\ a \in DOMAIN apps
        /\ apps[a] = req[r].row
        /\ Goto(r, "emit")
     \/ /\ a \in DOMAIN apps
        /\ apps[a] # req[r].row
        /\ req' = [req EXCEPT ![r].pc = "updateApp",
                              ![r].cols = Differing(apps[a], req[r].row)]
     \/ a \notin DOMAIN apps /\ Goto(r, "insertOldApp")
  /\ UNCHANGED tables

\* Its UPDATE.
SaveApp(r) ==
  LET a == req[r].app IN
  /\ req[r].pc = "updateApp"
  /\ IF a \in DOMAIN apps
     THEN apps' = [apps EXCEPT ![a] = Written(@, req[r].row, req[r].cols)]
     ELSE UNCHANGED apps
  /\ Goto(r, "emit")
  /\ UNCHANGED <<jobs, jobsCreated, appsCreated>>

\* Its INSERT when the SELECT found no row: possible only if the job, which
\* went with the application, is back.
InsertOldApp(r) ==
  LET row == req[r].row IN
  /\ req[r].pc = "insertOldApp"
  /\ \/ /\ req[r].app \notin DOMAIN apps
        /\ Insertable(row.applicant, row.job)
        /\ apps' = WithRow(apps, req[r].app, row)
        /\ Goto(r, "emit")
     \/ /\ \/ req[r].app \in DOMAIN apps
           \/ ~Insertable(row.applicant, row.job)
        /\ Reply(r)
        /\ UNCHANGED apps
  /\ UNCHANGED <<jobs, jobsCreated, appsCreated>>

\* save() has returned; the event is emitted (see WebhookDelivery) and the
\* request answered.
Emit(r) ==
  /\ req[r].pc = "emit"
  /\ Reply(r)
  /\ UNCHANGED tables

-----------------------------------------------------------------------------
\* A query of a request fails, or its instance stops.
Abort(r) ==
  /\ req[r].pc # "idle"
  /\ Reply(r)
  /\ UNCHANGED tables

\* Bound: an id is left for every application under way.
Applying == {r \in Requests : req[r].pc \in {"findOpenJob", "findExisting",
                                            "insertApp"}}
Room == Cardinality(Applying) < Cardinality(AppIds \ appsCreated)

Call(r) ==
  \E u \in Users :
    \/ \E title \in Titles : CreateJob(r, u, title)
    \/ \E j \in jobsCreated, patch \in Patches : UpdateJob(r, u, j, patch)
    \/ \E j \in jobsCreated : RemoveJob(r, u, j)
    \/ \E j \in jobsCreated : Room /\ Apply(r, u, j)
    \/ \E a \in appsCreated, status \in Asked : Review(r, u, a, status)

Step(r) ==
  \/ FindJob(r) \/ SelectJob(r) \/ SaveJob(r) \/ InsertOldJob(r) \/ DeleteJob(r)
  \/ FindOpenJob(r) \/ FindExisting(r) \/ InsertApp(r)
  \/ FindApp(r) \/ SelectApp(r) \/ SaveApp(r) \/ InsertOldApp(r) \/ Emit(r)

\* A step of r that writes disturbs every other request in flight.
Track(r) ==
  disturbed' =
    {q \in Requests : /\ req'[q].pc # "idle"
                      /\ q \in disturbed \/ (q # r /\ tables' # tables)}

\* The UPDATE of PATCH /admin/users/:id/role, at whatever moment: who may ask
\* for it, and that an admin remains, is in Accounts.
AssignRole(u, new) ==
  /\ role' = [role EXCEPT ![u] = new]
  /\ held' = held \cup {<<u, new>>}
  /\ UNCHANGED <<tables, req, disturbed>>

Next ==
  \/ \E r \in Requests : /\ Call(r) \/ Step(r) \/ Abort(r)
                         /\ Track(r)
                         /\ UNCHANGED roles
  \/ \E assignment \in Assigned : AssignRole(assignment[1], assignment[2])

Spec == Init /\ [][Next]_vars

-----------------------------------------------------------------------------
JobStages == {"findJob", "selectJob", "updateJob", "insertJob", "deleteJob"}
ReviewStages == {"findApp", "selectApp", "updateApp", "insertOldApp", "emit"}

RequestStates ==
  [pc : Stages, user : Users \cup {None}, role : Roles \cup {None},
   job : JobIds \cup {None},
   app : AppIds \cup {None}, patch : {None} \cup JobPatches,
   status : {None} \cup AppStatuses, row : {None} \cup JobRows \cup AppRows,
   cols : SUBSET Columns]

\* What a request holds at each of its stages.
RequestOK(r) ==
  /\ req[r].pc \in ReviewStages \cup
         {"findJob", "findOpenJob", "findExisting", "insertApp"} =>
       req[r].user \in Users
  /\ req[r].pc \in {"findJob", "findApp"} => req[r].role \in Roles
  /\ req[r].pc \in JobStages \cup {"findOpenJob", "findExisting", "insertApp"} =>
       req[r].job \in JobIds
  /\ req[r].pc \in {"selectJob", "updateJob", "insertJob"} =>
       req[r].patch \in JobPatches /\ req[r].row \in JobRows
  /\ req[r].pc = "updateJob" => req[r].cols \subseteq {"title", "status"}
  /\ req[r].pc \in ReviewStages =>
       req[r].app \in AppIds /\ req[r].status \in AppStatuses
  /\ req[r].pc \in {"selectApp", "updateApp", "insertOldApp", "emit"} =>
       req[r].row \in AppRows
  /\ req[r].pc = "updateApp" => req[r].cols \subseteq {"status", "reviewer"}

\* Every variable has its type, ids are of rows that were created, and the
\* columns a save() writes are the ones its handler may have changed.
TypeOK ==
  /\ role \in [Users -> Roles] /\ held \subseteq Users \X Roles
  /\ jobsCreated \subseteq JobIds /\ DOMAIN jobs \subseteq jobsCreated
  /\ jobs \in [DOMAIN jobs -> JobRows]
  /\ appsCreated \subseteq AppIds /\ DOMAIN apps \subseteq appsCreated
  /\ apps \in [DOMAIN apps -> AppRows]
  /\ req \in [Requests -> RequestStates]
  /\ disturbed \subseteq Requests
  /\ \A r \in Requests : RequestOK(r)

\* Whatever two requests do to a job and its applications at once, also when
\* a save() brings back a row that was deleted under it, a user has one
\* application to a job at most.
UniqueApplications ==
  \A a, b \in DOMAIN apps :
    apps[a].job = apps[b].job /\ apps[a].applicant = apps[b].applicant => a = b

\* No application is left without its job by a deletion between any two
\* queries of apply() and updateStatus().
AppsHaveJobs == \A a \in DOMAIN apps : apps[a].job \in DOMAIN jobs

Held(u, r) == <<u, r>> \in held

\* Roles change under requests and after them, and the ownership check is made
\* on a row read earlier than the one written: still, whoever applied had the
\* role of an applicant when they did, and a reviewer who never was more than
\* an employer is on applications to jobs they posted only.
ReviewersEntitled ==
  \A a \in DOMAIN apps :
    LET u == apps[a].reviewer IN
    /\ Held(apps[a].applicant, "applicant")
    /\ u # None => \/ Held(u, "recruiter") \/ Held(u, "super_admin")
                   \/ /\ Held(u, "employer")
                      /\ jobs[apps[a].job].owner = u

\* The handler's own checks anticipate every constraint of the tables: the
\* INSERT of apply() is refused, with a 500, only if another request wrote
\* since the handler began.
ChecksAnticipate ==
  \A r \in Requests :
    req[r].pc = "insertApp" /\ r \notin disturbed =>
      Insertable(req[r].user, req[r].job)

\* test/jobs.e2e-spec.ts:178, "should return 404 for deleted job": a job that
\* was deleted comes back only by the save() of an update under which it was
\* deleted.
DeletedStaysDeleted ==
  [][\A j \in jobsCreated :
       j \notin DOMAIN jobs /\ j \in DOMAIN jobs' =>
         \E r \in disturbed : req[r].pc = "insertJob" /\ req[r].job = j]_vars

\* applications.service.ts:44, "This job is no longer accepting applications":
\* an application is stored while its job is closed only if another request
\* wrote during its apply().
ClosedGetsNoApplications ==
  [][\A a \in appsCreated' \ appsCreated :
       \/ jobs[apps'[a].job].status = "open"
       \/ \E r \in disturbed : req[r].pc = "insertApp"
                                /\ req[r].user = apps'[a].applicant]_vars

\* A job is closed, or opened again, only by an update that asks for it, and
\* as a side effect of saving another column only by an update that read the
\* job before another request wrote.
StatusAsAsked ==
  [][\A j \in DOMAIN jobs \cap DOMAIN jobs' :
       jobs'[j].status # jobs[j].status =>
         \E r \in Requests :
           /\ req[r].pc = "updateJob" /\ req[r].job = j
           /\ req[r].patch.status = jobs'[j].status \/ r \in disturbed]_vars

\* A review during which no other request wrote ends with its status and its
\* reviewer on the application, also when the status was there before.
StatusSigned ==
  \A r \in Requests \ disturbed :
    req[r].pc = "emit" =>
      /\ req[r].app \in DOMAIN apps
      /\ apps[req[r].app].status = req[r].status
      /\ apps[req[r].app].reviewer = req[r].user
=============================================================================
