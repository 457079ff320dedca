--------------------------- MODULE LoginAttempts ---------------------------
(***************************************************************************)
(* The login lockout: AuthService.login up to the point where the password *)
(* is accepted, over LoginAttemptService, whose state is one Redis key     *)
(* login_attempts:<email> per email, a counter that may carry a TTL.       *)
(*                                                                         *)
(* A request is a process.  Every await of the handler is a step of its    *)
(* own, so the commands of concurrent logins interleave as they do on the  *)
(* one Redis server the instances share.  What a request replies is left   *)
(* out: no state depends on it.                                            *)
(***************************************************************************)
EXTENDS Naturals, FiniteSets

CONSTANTS
  Requests,     \* login requests that may be in flight together
  Emails,       \* addresses the requests name
  Registered,   \* the addresses that have an account
  MaxAttempts   \* MAX_ATTEMPTS: failures that lock an address

ASSUME RequestsAssumption == IsFiniteSet(Requests)
ASSUME RegisteredAssumption == Registered \subseteq Emails
ASSUME MaxAttemptsAssumption == MaxAttempts \in Nat \ {0}

VARIABLES
  attempts,  \* the counter of each email, 0 when the key does not exist
  ttl,       \* whether the key of each email carries a TTL
  pc,        \* the await each request is at
  email,     \* the email each request names
  orphaned   \* history: emails whose counter lost the request that was to
             \* set its TTL

vars == <<attempts, ttl, pc, email, orphaned>>

Stages == {"idle", "isLocked", "findUser", "compare", "incr", "expire",
           "reset"}

\* The stages after isLocked() has said no.
PastCheck == {"findUser", "compare", "incr", "expire", "reset"}

\* The stages after isLocked() from which an INCR may still come.
BeforeIncr == {"findUser", "compare", "incr"}

InFlight(stages, e) == {r \in Requests : pc[r] \in stages /\ email[r] = e}

Locked(e) == attempts[e] >= MaxAttempts

Goto(r, stage) == pc' = [pc EXCEPT ![r] = stage]

\* DEL, the end of a TTL and an eviction all leave no key.
DropKey(e) ==
  /\ attempts' = [attempts EXCEPT ![e] = 0]
  /\ ttl' = [ttl EXCEPT ![e] = FALSE]
  /\ orphaned' = orphaned \ {e}

Init ==
  /\ attempts = [e \in Emails |-> 0]
  /\ ttl = [e \in Emails |-> FALSE]
  /\ pc = [r \in Requests |-> "idle"]
  /\ email \in [Requests -> Emails]
  /\ orphaned = {}

-----------------------------------------------------------------------------
\* login() is called.
Start(r, e) ==
  /\ pc[r] = "idle"
  /\ Goto(r, "isLocked")
  /\ email' = [email EXCEPT ![r] = e]
  /\ UNCHANGED <<attempts, ttl, orphaned>>

\* Mutant of IsLocked: compares with > where the code has >=.
IsLockedOffByOne(r) ==
  /\ pc[r] = "isLocked"
  /\ Goto(r, IF attempts[email[r]] > MaxAttempts THEN "idle" ELSE "findUser")
  /\ UNCHANGED <<attempts, ttl, email, orphaned>>

\* GET of the counter; a locked address is refused at once.
IsLocked(r) ==
  /\ pc[r] = "isLocked"
  /\ Goto(r, IF Locked(email[r]) THEN "idle" ELSE "findUser")
  /\ UNCHANGED <<attempts, ttl, email, orphaned>>

\* findByEmail(); an unknown address counts as a failed attempt.
FindUser(r) ==
  /\ pc[r] = "findUser"
  /\ Goto(r, IF email[r] \in Registered THEN "compare" ELSE "incr")
  /\ UNCHANGED <<attempts, ttl, email, orphaned>>

\* bcrypt.compare() of the password.
Compare(r) ==
  /\ pc[r] = "compare"
  /\ \E next \in {"reset", "incr"} : Goto(r, next)
  /\ UNCHANGED <<attempts, ttl, email, orphaned>>

\* Mutant of Incr: the caller that locks the address is the one that sets
\* the TTL.
IncrLateExpire(r) ==
  LET e == email[r] IN
  /\ pc[r] = "incr"
  /\ attempts' = [attempts EXCEPT ![e] = @ + 1]
  /\ Goto(r, IF attempts[e] + 1 = MaxAttempts THEN "expire" ELSE "idle")
  /\ UNCHANGED <<ttl, email, orphaned>>

\* Mutant of Incr: the TTL is never set.
IncrNoExpire(r) ==
  /\ pc[r] = "incr"
  /\ attempts' = [attempts EXCEPT ![email[r]] = @ + 1]
  /\ Goto(r, "idle")
  /\ UNCHANGED <<ttl, email, orphaned>>

\* INCR; only the caller that made the counter 1 goes on to set its TTL.
\* INCR keeps the TTL of a key that has one.
Incr(r) ==
  LET e == email[r] IN
  /\ pc[r] = "incr"
  /\ attempts' = [attempts EXCEPT ![e] = @ + 1]
  /\ Goto(r, IF attempts[e] = 0 THEN "expire" ELSE "idle")
  /\ UNCHANGED <<ttl, email, orphaned>>

\* Mutant of Expire: sets the TTL without regard to the key being there.
ExpireUnchecked(r) ==
  /\ pc[r] = "expire"
  /\ ttl' = [ttl EXCEPT ![email[r]] = TRUE]
  /\ Goto(r, "idle")
  /\ UNCHANGED <<attempts, email, orphaned>>

\* Mutant of Expire: a TTL of 0, which makes Redis delete the key.
ExpireAtOnce(r) ==
  /\ pc[r] = "expire"
  /\ DropKey(email[r])
  /\ Goto(r, "idle")
  /\ UNCHANGED email

\* EXPIRE; it does nothing to a key that is gone.
Expire(r) ==
  LET e == email[r] IN
  /\ pc[r] = "expire"
  /\ ttl' = [ttl EXCEPT ![e] = attempts[e] > 0]
  /\ Goto(r, "idle")
  /\ UNCHANGED <<attempts, email, orphaned>>

\* DEL after a correct password; the login goes on in Sessions.
Reset(r) ==
  /\ pc[r] = "reset"
  /\ DropKey(email[r])
  /\ Goto(r, "idle")
  /\ UNCHANGED email

\* The TTL of a key runs out.
Elapse(e) ==
  /\ ttl[e]
  /\ DropKey(e)
  /\ UNCHANGED <<pc, email>>

\* Redis drops a key under memory pressure.
Evict(e) ==
  /\ attempts[e] > 0
  /\ DropKey(e)
  /\ UNCHANGED <<pc, email>>

\* The command a request waits for fails after its retries, or its
\* instance stops: the request ends there.
Abort(r) ==
  /\ pc[r] # "idle"
  /\ Goto(r, "idle")
  /\ orphaned' = IF pc[r] = "expire" THEN orphaned \cup {email[r]}
                 ELSE orphaned
  /\ UNCHANGED <<attempts, ttl, email>>

Step(r) ==
  \/ IsLocked(r)
  \/ FindUser(r)
  \/ Compare(r)
  \/ Incr(r)
  \/ Expire(r)
  \/ Reset(r)

Next ==
  \/ \E r \in Requests : \/ \E e \in Emails : Start(r, e)
                         \/ Step(r)
                         \/ Abort(r)
  \/ \E e \in Emails : Elapse(e) \/ Evict(e)

Spec == Init /\ [][Next]_vars

\* The event loop resumes every awaited request, and Redis honours TTLs.
\* Nothing obliges a client to call, Redis to evict or a command to fail.
Fairness ==
  /\ \A r \in Requests : WF_vars(Step(r))
  /\ \A e \in Emails : WF_vars(Elapse(e))

FairSpec == Spec /\ Fairness

-----------------------------------------------------------------------------
\* Every variable has its type, and a TTL belongs to a key that exists: the
\* Redis commands of login-attempt.service.ts leave nothing else behind.
TypeOK ==
  /\ attempts \in [Emails -> Nat]
  /\ ttl \in [Emails -> BOOLEAN]
  /\ pc \in [Requests -> Stages]
  /\ email \in [Requests -> Emails]
  /\ orphaned \subseteq Emails
  /\ \A e \in Emails : ttl[e] => attempts[e] > 0

\* The check (GET) and the count (INCR) are two commands, so concurrent
\* logins overrun the limit; they can do so by no more than the requests
\* that were past the check together: the counter never exceeds
\* MaxAttempts - 1 plus the number of requests, and every INCR still to
\* come is already accounted for.
OverrunBounded ==
  \A e \in Emails :
    attempts[e] + Cardinality(InFlight(BeforeIncr, e))
      <= MaxAttempts - 1 + Cardinality(Requests)

\* INCR and EXPIRE are two commands: whatever DELs, expiries, evictions and
\* INCRs of other requests come in between, a counter without a TTL is one
\* whose EXPIRE some request is about to send, or one whose EXPIRE was lost
\* with its request.
TtlOwed ==
  \A e \in Emails :
    attempts[e] > 0 /\ ~ttl[e] =>
      InFlight({"expire"}, e) # {} \/ e \in orphaned

\* No request lifts a lock but a login that passed isLocked() before the
\* lock and had the right password; otherwise Redis does, at the end of the
\* TTL or to free memory.
LockHolds ==
  [][\A e \in Emails :
       Locked(e) /\ ~Locked(e)' =>
         \/ UNCHANGED pc
         \/ \E r \in InFlight({"reset"}, e) : pc'[r] = "idle"]_vars

\* "Please try again later" (auth.service.ts:77): a locked address is
\* unlocked again, unless the EXPIRE of its counter was lost.
LockoutEnds == \A e \in Emails : Locked(e) ~> (~Locked(e) \/ e \in orphaned)
=============================================================================
