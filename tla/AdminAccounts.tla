---------------------------- MODULE AdminAccounts ----------------------------
(***************************************************************************)
(* User accounts: the requests of the admin service (app/admin/router.py   *)
(* and the browser's app/admin/ui_router.py), the check each makes of its  *)
(* sender (app/auth/dependencies.py), and the bootstrap of the first       *)
(* administrator that both processes run at their start                    *)
(* (app/auth/bootstrap.py).                                                *)
(*                                                                         *)
(* A request is one MongoDB call after another; an action is one call and  *)
(* the code up to the next, so requests interleave at each of them.        *)
(* MongoDB's unique index on username is what makes `users` a function.    *)
(***************************************************************************)
EXTENDS Naturals, FiniteSets

CONSTANTS
  Username, AdminNames,   \* AdminNames: what ADMIN_USERNAME is ever set to
  Password,
  Request,
  Absent, NoJob,
  MaxStops                \* bound on how often a process is stopped

Process == {"operator", "admin"}
Account == [role: {"admin", "operator"}, enabled: BOOLEAN, password: Password]
Kinds == {"create", "enable", "disable", "toggle", "reset"}
Job == [kind: Kinds, by: Username, target: Username, password: Password]

ASSUME AccountsAssumption ==
  /\ IsFiniteSet(Username)
  /\ AdminNames \subseteq Username
  /\ Absent \notin Account
  /\ NoJob \notin Job
  /\ MaxStops \in Nat

VARIABLES
  users,      \* the collection `users`, by username
  proc,       \* where each process is in its start
  wanted,     \* its ADMIN_USERNAME
  pc,         \* the call each request is about to make
  job,        \* what the request asks for, and whose token it carries
  enabling,   \* the value a request is about to write to `enabled`
  stops,      \* how much of the bound is used
  \* History, read by properties only:
  entitled,   \* requests whose sender has been an enabled admin since they arrived
  counted,    \* the enabled admins a guarded request has counted
  raced       \* an admin some request had counted was disabled before it wrote

vars == <<users, proc, wanted, pc, job, enabling, stops, entitled, counted, raced>>
service == <<proc, wanted, stops>>

Init ==
  /\ users = [u \in Username |-> Absent]
  /\ proc = [p \in Process |-> "down"]
  /\ wanted \in [Process -> AdminNames]
  /\ pc = [r \in Request |-> "idle"]
  /\ job = [r \in Request |-> NoJob]
  /\ enabling = [r \in Request |-> TRUE]
  /\ stops = 0
  /\ entitled = [r \in Request |-> FALSE]
  /\ counted = [r \in Request |-> {}]
  /\ raced = FALSE

Enabled(accounts, u) == accounts[u] # Absent /\ accounts[u].enabled
IsAdmin(accounts, u) == Enabled(accounts, u) /\ accounts[u].role = "admin"
EnabledAdmins(accounts) == {u \in Username : IsAdmin(accounts, u)}

Goto(r, label) == pc' = [pc EXCEPT ![r] = label]

\* History: entitled, once the account written makes an enabled administrator
\* of a sender; the requests in `done` have been answered.
StillEntitled(done) == [r \in Request |->
  r \notin done /\ (entitled[r] \/ (job[r] # NoJob /\ IsAdmin(users', job[r].by)))]

Done(r) ==
  /\ Goto(r, "idle")
  /\ job' = [job EXCEPT ![r] = NoJob]
  /\ enabling' = [enabling EXCEPT ![r] = TRUE]
  /\ counted' = [counted EXCEPT ![r] = {}]

\* The request is answered without a write, whatever the answer.
Answer(r) ==
  /\ Done(r)
  /\ entitled' = [entitled EXCEPT ![r] = FALSE]
  /\ UNCHANGED users

\* The request writes one account and is answered.
Store(r, u, account) ==
  /\ users' = [users EXCEPT ![u] = account]
  /\ entitled' = StillEntitled({r})
  /\ Done(r)

-----------------------------------------------------------------------------
(***************************************************************************)
(* The bootstrap of the two processes.                                     *)
(***************************************************************************)
Requests == <<pc, job, enabling, counted, raced>>

\* A process is started, with the same environment after a failed start and
\* perhaps another after a deliberate stop.
Start(p) ==
  /\ \/ proc[p] = "down" /\ \E u \in AdminNames : wanted' = [wanted EXCEPT ![p] = u]
     \/ proc[p] = "failed" /\ UNCHANGED wanted
  /\ proc' = [proc EXCEPT ![p] = "find"]
  /\ UNCHANGED <<users, Requests, stops, entitled>>

\* Mutant: it looks for an administrator and not for the account of that name.
FindAnyAdmin(p) ==
  /\ proc[p] = "find"
  /\ proc' = [proc EXCEPT ![p] = IF EnabledAdmins(users) # {} THEN "up" ELSE "insert"]
  /\ UNCHANGED <<users, Requests, wanted, stops, entitled>>

\* find_one: an account of that name is left untouched, whatever its role.
FindAdmin(p) ==
  /\ proc[p] = "find"
  /\ proc' = [proc EXCEPT ![p] = IF users[wanted[p]] # Absent THEN "up" ELSE "insert"]
  /\ UNCHANGED <<users, Requests, wanted, stops, entitled>>

NewAdmin(pw) == [role |-> "admin", enabled |-> TRUE, password |-> pw]

\* Mutant: the insert is an upsert.
UpsertAdmin(p) ==
  /\ proc[p] = "insert"
  /\ \E pw \in Password : users' = [users EXCEPT ![wanted[p]] = NewAdmin(pw)]
  /\ entitled' = StillEntitled({})
  /\ proc' = [proc EXCEPT ![p] = "up"]
  /\ UNCHANGED <<Requests, wanted, stops>>

\* insert: where the other process or a request was faster, the unique index
\* refuses and the exception ends the start.
InsertAdmin(p) ==
  /\ proc[p] = "insert"
  /\ \/ /\ users[wanted[p]] = Absent
        /\ \E pw \in Password : users' = [users EXCEPT ![wanted[p]] = NewAdmin(pw)]
        /\ entitled' = StillEntitled({})
        /\ proc' = [proc EXCEPT ![p] = "up"]
     \/ /\ users[wanted[p]] # Absent
        /\ proc' = [proc EXCEPT ![p] = "failed"]
        /\ UNCHANGED <<users, entitled>>
  /\ UNCHANGED <<Requests, wanted, stops>>

\* A process is stopped.  The requests are the admin service's; they end with it.
Stop(p) ==
  /\ proc[p] = "up"
  /\ stops < MaxStops
  /\ stops' = stops + 1
  /\ proc' = [proc EXCEPT ![p] = "down"]
  /\ IF p = "admin"
     THEN /\ pc' = [r \in Request |-> "idle"]
          /\ job' = [r \in Request |-> NoJob]
          /\ enabling' = [r \in Request |-> TRUE]
          /\ counted' = [r \in Request |-> {}]
          /\ entitled' = [r \in Request |-> FALSE]
     ELSE UNCHANGED <<pc, job, enabling, counted, entitled>>
  /\ UNCHANGED <<users, wanted, raced>>

-----------------------------------------------------------------------------
(***************************************************************************)
(* Requests.                                                               *)
(***************************************************************************)
\* A request arrives with the JWT of an account that exists.  A login
\* (POST /auth/token, POST /admin/ui/login) needs an enabled account, as every
\* account is when it is made; what has become of it since is up to the check.
Receive(r) ==
  /\ pc[r] = "idle"
  /\ proc["admin"] = "up"
  /\ \E j \in Job :
       /\ users[j.by] # Absent
       /\ job' = [job EXCEPT ![r] = j]
       /\ entitled' = [entitled EXCEPT ![r] = IsAdmin(users, j.by)]
  /\ Goto(r, "authenticate")
  /\ UNCHANGED <<users, service, enabling, counted, raced>>

\* Mutant: the role claim of the JWT is believed.
require_token(r) ==
  /\ pc[r] = "authenticate"
  /\ \/ /\ users[job[r].by].role = "admin"
        /\ Goto(r, IF job[r].kind = "create" THEN "findNew" ELSE "find")
        /\ UNCHANGED <<users, job, enabling, entitled, counted>>
     \/ users[job[r].by].role # "admin" /\ Answer(r)
  /\ UNCHANGED <<service, raced>>

\* require_admin and require_admin_cookie: the sender is read again; 401 when
\* missing or disabled, 403 when no administrator.
require_admin(r) ==
  /\ pc[r] = "authenticate"
  /\ \/ /\ IsAdmin(users, job[r].by)
        /\ Goto(r, IF job[r].kind = "create" THEN "findNew" ELSE "find")
        /\ UNCHANGED <<users, job, enabling, entitled, counted>>
     \/ ~IsAdmin(users, job[r].by) /\ Answer(r)
  /\ UNCHANGED <<service, raced>>

\* create_user: find_one, 409 when the name is taken.
FindNew(r) ==
  /\ pc[r] = "findNew"
  /\ \/ /\ users[job[r].target] = Absent
        /\ Goto(r, "insert")
        /\ UNCHANGED <<users, job, enabling, entitled, counted>>
     \/ users[job[r].target] # Absent /\ Answer(r)
  /\ UNCHANGED <<service, raced>>

\* create_user: insert; a name taken meanwhile is refused by the index (500).
InsertUser(r) ==
  /\ pc[r] = "insert"
  /\ \/ /\ users[job[r].target] = Absent
        /\ Store(r, job[r].target,
             [role |-> "operator", enabled |-> TRUE, password |-> job[r].password])
     \/ /\ users[job[r].target] # Absent
        /\ Answer(r)
  /\ UNCHANGED <<service, raced>>

\* What set_user_enabled and toggle_user will write, given the account they read.
NewEnabled(kind, account) == kind # "disable" /\ ~(kind = "toggle" /\ account.enabled)

\* The account was found: on to the write of a password, to the guard, or to
\* the write of `enabled`.
Found(r, account, guarded) ==
  LET value == NewEnabled(job[r].kind, account) IN
  /\ enabling' = [enabling EXCEPT ![r] = value]
  /\ Goto(r, IF job[r].kind = "reset" THEN "reset"
             ELSE IF guarded /\ ~value THEN "count" ELSE "set")
  /\ UNCHANGED <<users, job, entitled, counted>>

\* Mutant: the guard is forgotten where the account is toggled.
FindUserUnguarded(r) ==
  /\ pc[r] = "find"
  /\ LET u == users[job[r].target] IN
     \/ u = Absent /\ Answer(r)
     \/ u # Absent /\ Found(r, u, job[r].kind = "disable" /\ u.role = "admin")
  /\ UNCHANGED <<service, raced>>

\* Mutant: no 404 where a password is reset.
FindUserUnchecked(r) ==
  /\ pc[r] = "find"
  /\ LET u == users[job[r].target] IN
     \/ u = Absent /\ job[r].kind # "reset" /\ Answer(r)
     \/ u = Absent /\ job[r].kind = "reset" /\ Found(r, u, FALSE)
     \/ u # Absent /\ Found(r, u, u.role = "admin")
  /\ UNCHANGED <<service, raced>>

\* find_one of the account (404 without one); disabling an administrator is
\* guarded, by the role and state just read.
FindUser(r) ==
  /\ pc[r] = "find"
  /\ LET u == users[job[r].target] IN
     \/ u = Absent /\ Answer(r)
     \/ u # Absent /\ Found(r, u, u.role = "admin")
  /\ UNCHANGED <<service, raced>>

\* The lockout guard: 409 when no more than one administrator is enabled.
CountAdmins(r) ==
  /\ pc[r] = "count"
  /\ LET admins == EnabledAdmins(users) IN
     \/ /\ Cardinality(admins) > 1
        /\ counted' = [counted EXCEPT ![r] = admins]
        /\ Goto(r, "set")
        /\ UNCHANGED <<users, job, enabling, entitled>>
     \/ ~(Cardinality(admins) > 1) /\ Answer(r)
  /\ UNCHANGED <<service, raced>>

\* user.set({enabled}): one field of the account.
SetEnabled(r) ==
  /\ pc[r] = "set"
  /\ LET u == job[r].target IN Store(r, u, [users[u] EXCEPT !.enabled = enabling[r]])
  /\ raced' = (raced \/ ~(counted[r] \subseteq EnabledAdmins(users)))
  /\ UNCHANGED <<service>>

\* user.set({hashed_password}).
SetPassword(r) ==
  /\ pc[r] = "reset"
  /\ LET u == job[r].target IN Store(r, u, [users[u] EXCEPT !.password = job[r].password])
  /\ UNCHANGED <<service, raced>>

Handle(r) ==
  \/ require_admin(r)
  \/ FindNew(r)
  \/ InsertUser(r)
  \/ FindUser(r)
  \/ CountAdmins(r)
  \/ SetEnabled(r)
  \/ SetPassword(r)

Next ==
  \/ \E p \in Process : Start(p) \/ FindAdmin(p) \/ InsertAdmin(p) \/ Stop(p)
  \/ \E r \in Request : Receive(r) \/ Handle(r)

Spec == Init /\ [][Next]_vars

-----------------------------------------------------------------------------
(***************************************************************************)
(*                               Properties                                *)
(***************************************************************************)
\* Type correctness; a request past its authentication has a job, and what it
\* found is still there.
TypeOK ==
  /\ users \in [Username -> Account \cup {Absent}]
  /\ proc \in [Process -> {"down", "find", "insert", "up", "failed"}]
  /\ wanted \in [Process -> AdminNames]
  /\ pc \in [Request -> {"idle", "authenticate", "findNew", "insert", "find", "count", "set", "reset"}]
  /\ job \in [Request -> Job \cup {NoJob}]
  /\ \A r \in Request : pc[r] # "idle" => job[r] # NoJob
  /\ \A r \in Request : pc[r] \in {"count", "set", "reset"} => users[job[r].target] # Absent
  /\ enabling \in [Request -> BOOLEAN]
  /\ stops \in 0..MaxStops
  /\ entitled \in [Request -> BOOLEAN]
  /\ counted \in [Request -> SUBSET Username]
  /\ raced \in BOOLEAN

\* "Raises 409 if disabling the last enabled admin (lockout guard)": once there
\* has been an administrator there is an enabled one, unless two requests that
\* disable administrators overlapped, each counting the other's.
LockoutOnlyByRace ==
  \/ EnabledAdmins(users) # {}
  \/ raced
  \/ \A u \in Username : users[u] # Absent => users[u].role = "operator"

\* A request of someone who was no enabled administrator when it arrived, nor
\* at any time since, does not get past its authentication, whatever the JWT
\* it carries says.  docs/admin-guide/account-management.md:63 says that the
\* token of a disabled user works until it expires; the code reads its sender
\* again, and tests/test_auth.py:366 expects it to be refused.
RefusedOnceDisabled ==
  \A r \in Request : pc[r] \notin {"idle", "authenticate"} => entitled[r]

\* A process that is up has an account for its ADMIN_USERNAME; a start that
\* lost the race of the two bootstraps failed because the account was there,
\* so that starting again gets past it.
StartedWithAdmin ==
  \A p \in Process : proc[p] \in {"up", "failed"} => users[wanted[p]] # Absent

\* An existing account changes only by a request, only in the one field the
\* request is about, and never in role: neither a bootstrap nor a create that
\* lost its race touches it.
OnlyOrderedChanges ==
  [][\A u \in Username : users[u] # Absent =>
       \/ users'[u] = users[u]
       \/ \E r \in Request :
            /\ pc[r] \in {"set", "reset"}
            /\ job[r].target = u
            /\ users'[u] = IF pc[r] = "set" THEN [users[u] EXCEPT !.enabled = enabling[r]]
                           ELSE [users[u] EXCEPT !.password = job[r].password]]_vars
=============================================================================
