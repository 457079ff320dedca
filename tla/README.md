# Job Applications API: models and proofs

This directory holds TLA+ models of the Job Applications API, a NestJS service
over PostgreSQL (TypeORM) and Redis (ioredis), the TLC configurations that
check them, and theorems about them that TLAPS checks. Paths below are relative
to the repository; `auth.service.ts` and the like are under `src/`.

Every module is translated from the code. A request is a process, and every
`await` of its handler is a step of its own, because that is where requests of
one instance, and of several instances over the same stores, interleave. What
the code only computes or prints (texts, hashing, signatures, layouts of
replies) is left out unless a property depends on it.

To check a run: `tlc -config <run>.cfg <module>`; to check the proofs of a
module: `tlapm <module>.tla`.

## The system

| Part | State it keeps | Operations | Talks to |
|---|---|---|---|
| Login lockout (`login-attempt.service.ts`, `login()`) | Redis keys `login_attempts:<email>` with a TTL | `isLocked` (GET), `recordFailedAttempt` (INCR, EXPIRE), `resetAttempts` (DEL) | Redis; users |
| Tokens (`auth.service.ts`) | `refresh_tokens`; Redis keys `blacklist:<jti>` with a TTL; the claims of tokens held by clients | `generateTokens`, `refresh`, `logout` | PostgreSQL, Redis, the clock |
| Guard (`jwt.strategy.ts`, `jwt-auth.guard.ts`) | none | check of expiry, of the blacklist, lookup of the user | clock, Redis, users |
| Accounts (`users.service.ts`, `register()`, `admin.controller.ts`) | `users` | `register`, `updateRole`, `updateWebhookUrl` | PostgreSQL |
| Jobs (`jobs.service.ts`) | `jobs` | `create`, `update`, `remove`, listings | PostgreSQL; cascades to applications and logs |
| Applications (`applications.service.ts`) | `applications` | `apply`, `updateStatus`, listings | jobs; emits `application.status_changed` |
| Webhooks (`webhooks.service.ts`) | `webhook_logs`; deliveries in the memory of the process | listener, `deliver` (POST, retry), `logDelivery`, listing | users, applications, the receiver |
| Throttler (`app.module.ts`) | admissions of each client and route, in the memory of the process | counts or refuses a request before its guards | |
| Metrics (`metrics.interceptor.ts`) | a gauge and counters in the memory of the process | before and after the handlers | |
| Role guard, validators, exception filter | none | condition on the role; check of the body; mapping of errors to replies | guard |
| Health (`health.controller.ts`) | none | readiness probe | PostgreSQL, Redis |
| Middleware, logger, configuration, seed, scripts | none of their own | | |

Components interact through the tables (a job's deletion takes applications
and logs with it by `ON DELETE CASCADE`), through Redis, and in one place by a
callback: `updateStatus()` emits an event whose listener runs on after the
request has been answered.

What is hard here:

- *Check and write are separate queries* in every handler (locked/INCR,
  existing/INSERT, open/INSERT, count/UPDATE, select/revoke). No handler uses a
  transaction or a lock around the two; constraints of the tables are the only
  backstop.
- *`save()` of a loaded entity* is a SELECT, a comparison and an UPDATE of what
  differs, or an INSERT when the row is gone. It writes back stale columns and
  revives deleted rows.
- *Two stores*: logout writes Redis, then PostgreSQL.
- *Three clocks' worth of rounding*: tokens expire on whole seconds, Redis
  counts a TTL from the SET, and the TTL was computed earlier.
- *A receiver that may be slow, down or late*, one retry, and a log that is
  written from two places.
- *Dependencies that come and go* while a request asks one after the other, and
  counters in the memory of instances that restart.
- *Requests that stop half way*: a command fails after ioredis's retries, a
  query fails, the instance stops; Redis may evict keys (`docker-compose.yml`
  runs it with `allkeys-lru`).

What makes each part correct:

- lockout: failures are counted, concurrent logins overrun the limit only by
  their own number, a lock holds until its TTL ends, and it does end;
- tokens: a logged-out access token is refused until it expires (as long as
  logout could read it and Redis keeps its key); logging out leaves no live
  refresh token; a session is not lost by a refresh; only a password brings a
  signed-out user back;
- accounts: one user per address, roles only as given, an admin remains;
- jobs and applications: one application per user and job, none without a job,
  status changes only by those who may make them, deleted jobs stay deleted,
  closed jobs get no applications;
- webhooks: at most two POSTs per event, a log that tells the truth, an end to
  every delivery, a receiver that is told last what is true;
- the pipeline: metrics and probes that mean what they say, a limit that holds,
  no refusal without a reason, no URL of a private IPv4 network.

## Modules

| Module | Models |
|---|---|
| `LoginAttempts` | `login()` up to the accepted password, every Redis command a step |
| `LoginAttemptsProofs` | theorems about it |
| `Sessions` | `generateTokens`, `refresh`, `logout` and the guard, with a clock |
| `SessionsProofs` | theorems about it |
| `Accounts` | `register`, `updateRole`, `updateWebhookUrl` |
| `AccountsProofs` | theorems about it |
| `Recruitment` | jobs and applications: `create`, `update`, `remove`, `apply`, `updateStatus` |
| `RecruitmentProofs` | theorems about it |
| `WebhookDelivery` | a status change, from `save()` over the emission of its event to the end of its delivery |
| `DeliveryContract` | abstract: what a delivery promises |
| `WebhookDeliveryProofs` | theorems about the two |
| `Listing` | the listings of jobs, applications and logs, and a client that walks through the pages of one |
| `ListingProofs` | theorems about it |
| `PrivateRanges` | the address arithmetic of `ssrf.validator.ts` |
| `PrivateRangesProofs` | a theorem about it |
| `Pipeline` | what surrounds every handler: throttler, guards, interceptor, pipe, filter; the readiness probe |
| `PipelineProofs` | theorems about it |
| `MC...` | the instance of each of them that TLC checks |

### LoginAttempts

`attempts[e]` is the counter (0: no key), `ttl[e]` whether the key has a TTL,
`pc` and `email` the requests. `Start`, `IsLocked`, `FindUser`, `Compare`,
`Incr`, `Expire`, `Reset` are the awaits of `login()` in order; `Elapse` and
`Evict` are Redis dropping a key, `Abort` a command that fails or an instance
that stops. How long a TTL is makes no difference to any property, so it is a
Boolean. The password is right or wrong nondeterministically. `orphaned` is
history: the addresses whose counter lost the request that was to send its
EXPIRE, which is the one way a lock can be left without an end.

### Sessions

One id stands for a pair of tokens and its row. `rows` is `refresh_tokens`,
`blacklist` maps a jti to the instant its key expires. The clock `now` has
`SubSeconds` positions in each second: `exp` is compared with its second, a
TTL runs from the exact instant. `session` in a row is history, the login the
row descends from. `Select` takes the newest live row of the *user*, as the
query does (`auth.service.ts`:130), whichever token was presented.
`HashedClaims` says which claims the stored hash depends on: bcrypt reads 72
bytes, of which a JWT's header takes 37, so the hash ends inside `sub`, and the
deployed value is `{"sub"}`; the other value is what a full hash would give.
`Arrive`, `Guard` and `LoadUser` are the three instants of the guard.

A logout arrives with a header spelled in one of `Headers`: passport takes the
scheme in any case and any blanks after it, the controller cuts off `Bearer `
and nothing else (`auth.controller.ts`:69), and `decode()` gives null for the
rest, so that a logout whose header is not `Decodes` skips the blacklist,
revokes the rows and answers 200. `loggedOut` is history, the logouts answered;
`torn` those that failed between Redis and PostgreSQL, `lost` the keys that
Redis dropped, `dropped` the sessions whose refresh failed between its two
writes. The properties excuse exactly these: `BlacklistCovers` and
`AccessCutOff` speak of the tokens that a logout has read (`Cut`) and whose key
was not dropped, `LogoutComplete` of tokens whose logout did not fail between
the stores, `SessionKept` of sessions none of whose refreshes failed so.
`DESIGN.md`:180 ("Redis blacklisting closes this gap") makes no such
exceptions: in the code a token of a logout with another spelling of its
header, or whose key `allkeys-lru` (`docker-compose.yml`:110) dropped, passes
the guard until it expires. A request that is refused is answered like any
other (`Reply`): no property reads the code, and the guard maps every error to
`INVALID_TOKEN`, so that `TOKEN_BLACKLISTED` (`DESIGN.md`:307) never reaches a
client.

### Accounts

`users` is the table, without the columns no handler changes; `given` is
history, the roles each user was given. `Guard` loads the sender and compares
the role, once per request. `Select` and `Update` are the two queries of
`save()`: the row that `findById()` loaded, with the change made, is compared
with the table, and every column that differs is written, also one the handler
did not touch. Users are never deleted through the API.

### Recruitment

`jobs` and `apps` are the tables; `jobsCreated` and `appsCreated` are history.
`disturbed` is history too: the requests in flight under which another one has
written. `SelectJob`, `SaveJob` and `InsertOldJob` are the queries of
`save()` for a job, `SelectApp`, `SaveApp` and `InsertOldApp` those for an
application. `Insertable` is what `UNIQUE (job_id, applicant_id)` and the
foreign key let in, `DeleteJob` cascades. The title stands for the three
text columns of a job. A request's role is the one the guard loaded, and roles
change under it: `AssignRole` is the UPDATE of `updateRole()`, whose checks are
in `Accounts`. `held` is history, the roles each user has or had.
`ReviewersEntitled` says that a reviewer once had a role that may review: that
he still has it, or had it when his row was written, the code does not ensure.
`Emit` comes after `save()` has returned; what follows it is in
`WebhookDelivery`.

What the API promises about deleted and closed jobs, untouched columns and
reviews holds for requests served alone, and does **not** for all concurrent
ones (an update that selects after a deletion inserts the job again; a job is
closed between the check and the INSERT of an application; a stale status is
written back). `ChecksAnticipate`, `StatusSigned`, `DeletedStaysDeleted`,
`ClosedGetsNoApplications` and `StatusAsAsked` say exactly that: each promise
holds in every interleaving, except to a disturbed request.

### WebhookDelivery and DeliveryContract

This composes the end of `updateStatus()` with the listener. An event is a
process: `SaveStatus`, `Emit`, `Lookup` of the employer, a POST with one of
four outcomes (`PostAnswered`, `PostRefused`, `PostTimedOut`,
`PostUnreachable`), `Catch`, `Wait`, and the two queries of `logDelivery()`
(`LogFind`, `LogSave` or `LogOrphan`). A POST that timed out may still reach
the receiver (`LateArrives`). `LogThrows` says where an error of
`logDelivery()` goes: after a POST it is inside the `try`, and is handled as a
failed POST. `Stop` loses the deliveries under way, since they are in memory
only. `Delete` takes an application and its rows of the log away, and the
`save()` of a review that read it before brings it back (`SaveStatus`);
`deleted` remembers. Whether an employer has a URL at the `Lookup` is
arbitrary: `register()` writes it, and the stale `save()` of `updateRole()` may
write it back to null; both are in `Accounts`. `DeliveryContract` is what
callers may rely on; `ContractKept` says that `WebhookDelivery` implements it
under a refinement mapping that forgets the stages: an event is open once its
status is saved, closed once its delivery is done or lost, and the log is
reduced to which events it calls delivered.

The log has one row for each event, not for each attempt: a first attempt that
fails is followed by the second without a row. That is what `OneLogPerEvent`
says (the row is of the last attempt), and not what
`docs/adr/005-event-driven-webhooks.md`:32 counts on, the "Logging of all
delivery attempts" (:13 likewise): a first attempt that failed leaves no trace
in the log, with nothing deleted and no query failing.

`heard` is what the receiver was told last, and `crossed` the applications
whose status was changed before the change before it had run its course.
`ReceiverCurrent` says that only crossed changes leave a receiver with an old
status; within one change no retry, late POST or stop does.

### Pipeline and PrivateRanges

Three routes stand for the kinds there are: `GET health/ready` (neither
throttled nor guarded), `POST auth/login` (throttled with its own limit) and
`POST webhooks/register` (guarded, validated body). A request is `Arrive`d at
an instance, whose throttler counts or refuses it; `Blacklist` and `LoadUser`
are the guards, which answer 401 also when Redis or PostgreSQL is down;
`Intercept` is the metrics interceptor, registered first and so outermost, and
the validation pipe inside it, of login and register; `Query` asks the
dependencies of the handler one by one (`Awaits`); `Finish` returns or throws.
The sender of a login has the right password, a wrong one, or a locked account,
which is answered 401 after one question to Redis, whatever the password
(`auth.service.ts`:73). A value passes `tap()` on its way out (`Succeed`), an
exception does not (`Fail`). What the handlers of login and register do with
the stores is in `LoginAttempts`, `Sessions` and `Accounts`. `Toggle` is a
dependency that goes down or comes back, `Elapse` the end of an admission's
window in the throttler, `Restart` an instance that loses its memory with the
requests in it. `seen` and `recent` are history.

The throttler is external: `@nestjs/throttler` with its default storage, which
is in memory, and a key for each route and client. `DESIGN.md`:224 and
`README.md`:37 of the repository name Redis as the storage, which
`app.module.ts` does not configure; `AdmittedBounded` says what the limit is
worth as it is. `DESIGN.md`:459 sets `THROTTLE_TTL=60`, which the library reads
as milliseconds.

`MetricsMeaning` says what the two metrics are worth, which is not what their
help texts say (`metrics.service.ts`:37 "Total number of HTTP requests", :51
"Number of active connections"): the total leaves out every failure, and the
gauge keeps each of them until the instance restarts.

`PrivateRanges` is pure, and about IPv4 literals: the code stores a bracketed
IPv6 literal, also one that maps a private address such as `[::ffff:10.0.0.1]`,
and `RegisteredPublic` says nothing of it. TLC's integers have 32 bits with a
sign, so a word is a pair of halves; `Reserved` is the reference, by octets.

### Listing

The four listings make the same queries: `getCount()` (`Count`), and
`getMany()` with an offset and a limit, which with joins is two of its own, one
for the ids of the page (`Fetch`, `Page`) and one for their rows (`Rows`),
which leaves out those that have gone. A row is the number of its creation, so
that `ORDER BY created_at DESC` is descending order; `listed` are the rows the
filters let through, whichever they are. Writes of other requests are single
queries that create a row, make it match or not, or delete it. The client is
the one of `DESIGN.md`:497, which goes up to `meta.totalPages`. `README.md`:38
of the repository calls the pagination cursor-based; it is by offset, and
`RepeatsExplained` and `MissedExplained` say what that costs: with a cursor, no
row would be repeated.

## Runs

| Run | Checks | Shows |
|---|---|---|
| `LoginAttempts` | `TypeOK`, `OverrunBounded`, `TtlOwed`, `LockHolds`, `LockoutEnds` | Three requests, two addresses, evictions and aborted requests: the counter exceeds the limit by at most the requests past the check; a counter without a TTL has its EXPIRE coming or lost it with a request; a lock ends only by Redis or by a login that had passed the check; it ends unless its EXPIRE was lost |
| `Sessions_concurrent` | `BlacklistCovers`, `LogoutComplete`, `AccessCutOff` | Two requests and a clock, with evictions, aborts and any header: the blacklist key outlives the token although its TTL is floored, unless Redis drops it; a token it bans does not pass; Redis and PostgreSQL come apart only by a failure between them |
| `Sessions_faults` | `TypeOK`, `SessionKept`, `SignedOutStays` | Hashes that tell tokens apart, so that a mismatch revokes the family, and aborts: racing refreshes lose a session only if one fails between its writes; only a login brings a signed-out user back |
| `Sessions_logout_race` | `LogoutFinal` violated | A refresh that has revoked its row but not stored the next one survives a logout |
| `Sessions_reuse` | `ReuseRefused` violated | A revoked refresh token is accepted |
| `Accounts_concurrent` | `TypeOK`, `UniqueEmails`, `RolesGiven` | Two requests, with aborts: what holds although checks and writes are apart and stale columns are written back |
| `Accounts_last_admin` | `AdminKept` violated | Two admins demote each other |
| `Recruitment` | `TypeOK`, `UniqueApplications`, `AppsHaveJobs`, `ReviewersEntitled`, `ChecksAnticipate`, `StatusSigned`, `DeletedStaysDeleted`, `ClosedGetsNoApplications`, `StatusAsAsked` | Three requests of an employer and an applicant who is made a recruiter and a rival employer at any moment, with aborts: the tables stay consistent through revived rows, checks on stale roles and rows still bind those on an application, and undisturbed requests get what the API promises |
| `WebhookDelivery` | `TypeOK`, `LogTruthful`, `OneLogPerEvent`, `RedeliveryExplained`, `ReceiverCurrent`, `DeliveryRecorded`, `ContractKept` | Two status changes, any receiver, deletions, re-insertions, failing queries and stops: the log is true, deliveries are recorded unless one of those took the record away, an answered delivery is repeated for two reasons only, the receiver is left with an old status only by changes that cross, and the contract is implemented |
| `Listing` | `TypeOK`, `MissedExplained`, `RepeatsExplained` | A walk through the pages while rows come and go: it misses at most one row for each that went and for each that came between its last count and answer, and repeats at most one for each that came |
| `Pipeline` | `TypeOK`, `MetricsMeaning`, `AdmittedBounded`, `RegisteredPublic`, `ReadySound`, `RefusalExplained` | Two requests, two instances, three routes, outages and restarts: the gauge counts failures as active; the limit holds for an instance between restarts; no URL of a private IPv4 literal is stored; a probe answers 200 only if each dependency was up at some time (not at one time); a request with a good token, or a right password for an account that is not locked, is refused only under an outage, and 401 without an objection only by the guards |
| `Pipeline_errors` | `ErrorsCounted` violated | An error response is not counted |

The four violations are real interleavings or inputs of the code, and each
contradicts a sentence of the repository:

- `DESIGN.md`:176 says of a logout that the token row is revoked and "cannot be
  reused". `logout()` updates the rows there are. A refresh that is hashing its
  new token at that moment inserts it afterwards.
- `auth.service.ts`:137 says that a revoked token which is reused is detected.
  The query above it asks for `revoked: false`, so the branch is dead; the
  token presented is compared with the newest live row, and both hashes cover
  the same bytes.
- `users.service.ts`:86 refuses to demote the last super_admin. The count and
  the UPDATE are two queries.
- `metrics.service.ts`:44 describes a counter of error responses. `tap()` of the
  interceptor has a callback for values only, so no error is ever counted.

### Bounds

- LoginAttempts: three requests are two racing and a third that arrives between
  them; a limit of 3 is reached by one request in turn and overrun by several.
  The limit and the number of requests are arbitrary in the proofs.
- Sessions: three pairs of tokens are a login, its successor and a racing
  successor. An access token lives one second and a refresh token two. What
  `Sessions_concurrent` checks, with evictions, failures and both kinds of
  header, is about one token, which two requests present; so it has two pairs,
  and a clock with two positions in a second that stops a second after the
  start: then the tokens signed first have expired, a key set at the first
  position ends with them and one set at the second outlives them. Lifetimes
  and the clock are arbitrary in the proofs. `Sessions_faults` asks about rows
  only, of three pairs; its clock stops a second after the start, the least
  that gives two rows different hashes. The runs have one user: that requests
  hold tokens and rows of their own user only is proved, for any users.
- Accounts: two admins at first and room for two registrations; two requests
  are the least that race. `Ordered` has a role that makes an admin and one that
  unmakes one.
- Recruitment: three requests are needed for a review, an update and a deletion
  to overlap, which is how an application is re-inserted; then one job, two
  applications and two patches suffice. An employer and an applicant who
  becomes a recruiter and an employer (`Assigned`), in this order or the other
  and again, are the parties a check tells apart: an owner, a rival, a reviewer
  of everything and an applicant, whose requests in flight keep the role they
  came with. An admin may do what a recruiter and every owner may; the proofs
  have all roles.
- WebhookDelivery: two events, to let their deliveries overlap and a row of one
  be taken away under the other, of one application, so that they can cross;
  attempts are bounded by the code. Applications share nothing but the log,
  whose rows are those of their events.
- Pipeline: two requests, a limit of one and one restart of each of two
  instances let a limit be reached, refused, and begun again after a restart; no
  property relates more than two requests. Four addresses around the ends of one
  range; every address is covered by `RangesExact`.
- Listing: six rows on pages of two and four changes, enough for two changes
  between the queries of a request and two more between requests. Changes
  before a walk are in the initial states, which have every listing of that
  size.

Bounds that exist only for TLC (`Ids`, `MaxSec`, `JobIds`, `AppIds`, `Patches`,
`Asked`, `Assigned`, `Ordered`, `MaxRows`, `MaxChanges`, `MaxRestarts`, and the
`Room` and `MayIssue` guards) are marked as such in the modules. They prevent
no interleaving of the requests that fit. No run disables the deadlock check.

### Fairness

`LoginAttempts!Fairness` is weak fairness of the steps of each request, since
the event loop resumes whatever it awaited, and of the end of each TTL, which
Redis guarantees. `WebhookDelivery!Fairness` is weak fairness of each delivery:
axios has a timeout of five seconds and the retry a timer. Clients, deletions,
evictions and failures have no fairness: they need not happen.

## Proofs

`LoginAttemptsProofs`, for any finite set of requests, any addresses and any
limit:

- `TypeCorrect`: `TypeOK`, which includes that a TTL is on a key that exists.
- `OverrunSafe`: `OverrunBounded`. It is inductive with `TypeOK` because it
  counts the INCRs still to come; the proof follows the cardinality of the
  requests before their INCR (`BoundKept`).
- `TtlAlwaysOwed`: `TtlOwed`, failures and evictions included. The request that
  owes the TTL is in it as an existential, so that a step of any other request
  leaves its witness alone, and an abort of it moves the address to `orphaned`.
- `LockHeld`: `LockHolds`, from `TypeOK`.

`SessionsProofs`, for any requests, users, lifetimes, resolution of the clock
and hash:

- `TypeCorrect`: `TypeOK`, which includes that each stage of a request has a
  token and a row of its own user.
- `BlacklistSafe`: `BlacklistCovers`, whatever fails and whatever Redis drops.
  It is not inductive. `CoverInv` adds what a logout knows before it is
  answered: at `blacklist`, its TTL added to the clock reaches the token's
  expiry, because the clock has only advanced since; at `revokeAll` of a header
  that decodes, the key is there until the expiry, or was dropped, or the token
  has expired.
- `AccessCut`: `AccessCutOff` from the same invariant.
- `LogoutInBothStores`: `LogoutComplete`, failures included. It is inductive
  with `TypeOK`: the row of a token has the user of the request that logs out
  with it, so `revokeAll` reaches it, and a failure before that puts it in
  `torn`.
- `SessionsSurvive`: `SessionKept`, failures included. It is inductive when read
  per session (`Kept`): the refresh that revokes the last live row becomes a
  successor in the same step, and one that fails then puts it in `dropped`.
- `OnlyLoginSignsIn`: `SignedOutStays`, without assumptions. `LoginsIssue` adds
  that a request that logs in does nothing but issue, so a request that brings
  a user back either is one that just began or was bringing them back before.
- `OneAtATimeLogoutFinal`: `LogoutFinal`, assuming that there is at most one
  request at a time, and whether or not it fails half way or Redis drops keys.
  With the run `Sessions_logout_race` it says what lets a session outlive its
  logout: a refresh between its two writes. `SerialInv` is the invariant: the
  rows of a session are of one user, so ending one row ends them all, and a
  refresh continues a session that was not ended, because the row it selected
  was live.

`AccountsProofs`, for any requests, ids, addresses, orders and users at first,
whether queries fail or not:

- `TypeCorrect`, `EmailsUnique`, `RolesWereGiven`: `TypeOK`, `UniqueEmails` and
  `RolesGiven`, from one invariant. `RowsGiven` adds where the role in a row
  about to be written comes from: the order, or the roles its user was given
  before it was read. `given` only grows, so a stale row stays covered.
- `OneAtATimeKeepsAdmin`: `AdminKept`, assuming that there is at most one
  request at a time, and whether or not it fails half way. Together with the
  run `Accounts_last_admin` it says exactly what loses the last admin: two
  orders at once. `SenderStays` is the invariant: the sender of an order is
  still an admin when its UPDATE is made, and is not the user it is about.

`RecruitmentProofs`, for any requests, users, jobs, applications and patches:

- `TypeCorrect`, `AppsKeepJobs`, `OneApplication`, `ReviewersAreEntitled`:
  `TypeOK`, `AppsHaveJobs`, `UniqueApplications` and `ReviewersEntitled`. The
  difficulty is that a row may be deleted and inserted again by a save(), so a
  copy a request holds cannot be compared with the table. `CopiesAgree` says
  that there is one poster for each job ever created and one job and applicant
  for each application ever created, with which the tables and every copy
  agree; the two functions are an existential, extended when a row is created.
  Roles change under the requests: `ReviewersEntitled` is about `held`, which
  only grows and has the role of every request in flight.
- `ApplyForesees`, `ReviewsSigned`: `ChecksAnticipate` and `StatusSigned`, from
  `AllAsRead`: whatever a request has read is still so, as long as no other
  request wrote under it.
- `DeletedJobsStay`, `ClosedJobsRefuse`, `StatusChangesAsAsked`: the action
  properties `DeletedStaysDeleted`, `ClosedGetsNoApplications` and
  `StatusAsAsked`, from the same two invariants.

`WebhookDeliveryProofs`, for any events and employers and any applications but
none (a delivery is of some application). The proofs split on the moves of a
delivery (`Moves`) rather than on the actions:

- `TypeCorrect`: `TypeOK`; `RetriesFirst` adds which attempt each stage is at.
- `LogTellsTruth`, `LoggedOnce`, `RedeliveriesExplained`: `LogTruthful`,
  `OneLogPerEvent` and `RedeliveryExplained`, from `LogInv`. It adds that, while
  no query has failed under an event and its application was never deleted, a
  POST that was answered is the last the event makes.
- `ReceiverStaysCurrent`: `ReceiverCurrent`, from `ToldInv`. It drops `Quiet`:
  while no change of an application crosses another, only the change that set
  its status is announced or on its way.
- `ContractSafe`: the safety part of the refinement of `DeliveryContract`, step
  by step (`ContractMove`): each move is a step of the contract or a stutter.

`ListingProofs`, for pages of any size, any number of rows and of changes:

- `TypeCorrect`: `TypeOK`.
- `MissesExplained`, `RepetitionsExplained`: `MissedExplained` and
  `RepeatsExplained`, from `WalkInv`. It relates the walk to the offset of its
  next page: rows on earlier positions that it has not seen number at most the
  rows that went, and rows it has seen, or has the ids of, that are on later
  positions, with those already repeated, at most the rows that came. The
  lemmas on `Rank` say that a row that comes or goes moves at most one row over
  any offset. At the end, `PagesHoldAll` turns the rounding of `totalPages`
  into rows (`BehindBounded`).

`PrivateRangesProofs`, for each of the 2^32 addresses: `RangesExact`, that the
comparisons of shifted words agree with the octets of the reserved networks.
`ShiftInOctets` shows that no shift loses an octet, `IpToNumberExact` what the
four of them leave, and `SameFirstOctet` turns the comparisons into octets.

`PipelineProofs`, for any finite set of requests, any instances, hosts, limits
and number of restarts:

- `RegisteredIsPublic`: `RegisteredPublic`. The invariant `HostsValidated` says
  that whatever a request or the row of the employer holds has passed the pipe;
  `RangesExact` does the rest.
- `ReadyIsSound`, `RefusalsExplained`: `ReadySound` and `RefusalExplained`, from
  `AllConsistent`: a request under way has seen the dependencies as they are,
  and a probe has seen up what it has asked as long as it believes so. A 401 is
  traced to its sender or to an outage.
- `AdmissionsBounded`: `AdmittedBounded`. The invariant splits what an instance
  admitted in the window into what its throttler still holds, at most the
  limit, and what it forgot, at most the limit for each restart (`WithinLimit`).
- `MetricsAreAsTheyMean`: `MetricsMeaning`. `MetricsInv` counts the requests in
  the gauge and in the total; each step of a request moves it into the gauge,
  from the gauge to the total, or leaves both alone (`StepMoves`).
- `TypeCorrect`: `TypeOK`.

Every invariant and action property of the passing runs is the statement of a
theorem. Only model-checked: liveness (`LockoutEnds`, `DeliveryRecorded`, the
liveness in `ContractKept`), which is out of the prover's reach; and what the
violation runs show, since a counterexample is a behaviour of an instance.

## Not modelled

- Rows with the same creation time: only the seed inserts several in one
  transaction. Page numbers of the webhook log that are 0 or negative, which
  PostgreSQL refuses.
- A state machine of application statuses: the code checks no transition.
- How URLs are parsed, IPv6 literals and `isPrivateIPv6()`; the signature of
  webhooks; histograms, labels and the two metrics nothing uses; the texts and
  codes of replies (a probe that fails is answered `INTERNAL_ERROR` without its
  checks).
- The auth audit is injected and never called. Request ids and logging only
  write. Headers, CORS, body parsing and the values of the configuration have
  no state. The seed and the scripts are development tools.

`PROJECT.json` lists every component with the reason.

## Plan

Written so far, in order of importance: the lockout, sessions, delivery with the
reviews it starts from, recruitment under changing roles, accounts, listings,
the pipeline. Left: the guard and accounts in one module, which would show both
halves of an assignment, its checks and what it does to requests in flight, at
once; now the first is in `Accounts`, the second in `Recruitment`.

Proofs left: every safety property of the passing runs is a theorem. What is
left follows the model: type correctness and the safety of the guard and
accounts together, once they are composed; and the mapping of the composition's
steps to those of its parts, so that the theorems about the parts carry over
rather than being proved again.
