------------------------- MODULE AdminAccountsProofs -------------------------
(***************************************************************************)
(* Proofs about AdminAccounts, for any number of accounts, requests and    *)
(* stops of the processes.                                                 *)
(***************************************************************************)
EXTENDS AdminAccounts, FiniteSetTheorems, TLAPS

Labels == {"idle", "authenticate", "findNew", "insert", "find", "count", "set", "reset"}

\* The part of TypeOK that every action keeps by itself.
Typed ==
  /\ users \in [Username -> Account \cup {Absent}]
  /\ proc \in [Process -> {"down", "find", "insert", "up", "failed"}]
  /\ wanted \in [Process -> AdminNames]
  /\ pc \in [Request -> Labels]
  /\ job \in [Request -> Job \cup {NoJob}]
  /\ enabling \in [Request -> BOOLEAN]
  /\ stops \in 0..MaxStops
  /\ entitled \in [Request -> BOOLEAN]
  /\ counted \in [Request -> SUBSET Username]
  /\ raced \in BOOLEAN

\* A request on its way has a job, and the account it found stays.
JobsAreThere ==
  /\ \A r \in Request : pc[r] # "idle" => job[r] # NoJob
  /\ \A r \in Request : pc[r] \in {"count", "set", "reset"} => users[job[r].target] # Absent

\* What an action may do to the accounts and to the requests.
KeepsAccounts == \A u \in Username : users[u] # Absent => users'[u] # Absent

-----------------------------------------------------------------------------
LEMMA AbsentIsNoAccount == Absent \notin Account
  BY AccountsAssumption

\* The two requests that end.
LEMMA DoneTyped ==
  ASSUME Typed, NEW r \in Request, Done(r)
  PROVE  /\ pc' \in [Request -> Labels]
         /\ job' \in [Request -> Job \cup {NoJob}]
         /\ enabling' \in [Request -> BOOLEAN]
         /\ counted' \in [Request -> SUBSET Username]
  BY DEF Done, Goto, Typed, Labels

LEMMA EntitledTyped ==
  ASSUME Typed, NEW done, entitled' = StillEntitled(done)
  PROVE  entitled' \in [Request -> BOOLEAN]
  BY DEF StillEntitled, Typed

LEMMA AnswerTyped ==
  ASSUME Typed, NEW r \in Request, Answer(r), UNCHANGED <<service, raced>>
  PROVE  Typed'
  <1>1. entitled' \in [Request -> BOOLEAN]
    BY DEF Answer, Typed
  <1> QED
    BY <1>1, DoneTyped DEF Answer, Typed, service

LEMMA StoreTyped ==
  ASSUME Typed, NEW r \in Request, NEW u \in Username, NEW a \in Account,
         Store(r, u, a), UNCHANGED service, raced' \in BOOLEAN
  PROVE  Typed'
  <1>1. users' \in [Username -> Account \cup {Absent}]
    BY DEF Store, Typed
  <1>2. entitled' \in [Request -> BOOLEAN]
    BY EntitledTyped DEF Store
  <1> QED
    BY <1>1, <1>2, DoneTyped DEF Store, Typed, service

LEMMA NewAdminTyped == ASSUME NEW pw \in Password PROVE NewAdmin(pw) \in Account
  BY DEF NewAdmin, Account

\* What SetEnabled and SetPassword write is an account.
LEMMA WrittenIsAccount ==
  ASSUME Typed, JobsAreThere, NEW r \in Request, pc[r] \in {"set", "reset"}
  PROVE  /\ job[r] \in Job
         /\ users[job[r].target] \in Account
         /\ [users[job[r].target] EXCEPT !.enabled = enabling[r]] \in Account
         /\ [users[job[r].target] EXCEPT !.password = job[r].password] \in Account
  <1>1. job[r] \in Job
    BY DEF Typed, JobsAreThere
  <1>2. users[job[r].target] \in Account
    BY <1>1 DEF Typed, JobsAreThere, Job
  <1> QED
    BY <1>1, <1>2 DEF Typed, Account, Job

LEMMA NewUserTyped ==
  ASSUME NEW j \in Job
  PROVE  [role |-> "operator", enabled |-> TRUE, password |-> j.password] \in Account
  BY DEF Job, Account

-----------------------------------------------------------------------------
(***************************************************************************)
(* Type correctness.                                                       *)
(***************************************************************************)
LEMMA InitTyped == Init => Typed /\ JobsAreThere
  <1> SUFFICES ASSUME Init PROVE Typed /\ JobsAreThere
    OBVIOUS
  <1>1. stops \in 0..MaxStops
    BY AccountsAssumption DEF Init
  <1>2. counted \in [Request -> SUBSET Username]
    BY DEF Init
  <1>3. Typed
    BY <1>1, <1>2 DEF Init, Typed, Labels
  <1>4. JobsAreThere
    BY DEF Init, JobsAreThere
  <1> QED
    BY <1>3, <1>4

LEMMA StartTyped ==
  ASSUME Typed, NEW p \in Process, Start(p) \/ FindAdmin(p)
  PROVE  Typed'
  BY DEF Typed, Start, FindAdmin, Requests

LEMMA InsertAdminTyped ==
  ASSUME Typed, NEW p \in Process, InsertAdmin(p)
  PROVE  Typed'
  <1>1. CASE users[wanted[p]] = Absent
    <2>1. PICK pw \in Password : users' = [users EXCEPT ![wanted[p]] = NewAdmin(pw)]
      BY <1>1 DEF InsertAdmin
    <2>2. wanted[p] \in Username
      BY AccountsAssumption DEF Typed
    <2>3. users' \in [Username -> Account \cup {Absent}]
      BY <2>1, <2>2, NewAdminTyped DEF Typed
    <2>4. entitled' \in [Request -> BOOLEAN]
      BY <1>1, EntitledTyped DEF InsertAdmin
    <2> QED
      BY <1>1, <2>3, <2>4 DEF Typed, InsertAdmin, Requests
  <1>2. CASE users[wanted[p]] # Absent
    BY <1>2 DEF Typed, InsertAdmin, Requests
  <1> QED
    BY <1>1, <1>2

LEMMA StopTyped ==
  ASSUME Typed, NEW p \in Process, Stop(p)
  PROVE  Typed'
  <1>1. stops' \in 0..MaxStops
    BY AccountsAssumption DEF Typed, Stop
  <1> QED
    BY <1>1 DEF Typed, Stop, Labels

LEMMA ReceiveTyped ==
  ASSUME Typed, NEW r \in Request, Receive(r)
  PROVE  Typed'
  <1>1. PICK j \in Job : /\ job' = [job EXCEPT ![r] = j]
                         /\ entitled' = [entitled EXCEPT ![r] = IsAdmin(users, j.by)]
    BY DEF Receive
  <1>2. IsAdmin(users, j.by) \in BOOLEAN
    BY DEF IsAdmin, Enabled
  <1>3. entitled' \in [Request -> BOOLEAN]
    BY <1>1, <1>2 DEF Typed
  <1> QED
    BY <1>1, <1>3 DEF Typed, Receive, Goto, Labels, service

LEMMA HandleTyped ==
  ASSUME Typed, JobsAreThere, NEW r \in Request, Handle(r)
  PROVE  Typed'
  <1>1. CASE Answer(r) /\ UNCHANGED <<service, raced>>
    BY <1>1, AnswerTyped
  <1>2. CASE require_admin(r)
    BY <1>2, <1>1 DEF require_admin, Typed, Goto, Labels, service
  <1>3. CASE FindNew(r)
    BY <1>3, <1>1 DEF FindNew, Typed, Goto, Labels, service
  <1>4. CASE InsertUser(r)
    <2>1. job[r] \in Job
      BY <1>4 DEF InsertUser, Typed, JobsAreThere
    <2>2. raced' \in BOOLEAN
      BY <1>4 DEF InsertUser, Typed
    <2>3. job[r].target \in Username
      BY <2>1 DEF Job
    <2> QED
      BY <1>4, <1>1, <2>1, <2>2, <2>3, NewUserTyped, StoreTyped DEF InsertUser
  <1>5. CASE FindUser(r)
    <2>1. ASSUME NEW a, NEW g, Found(r, a, g), UNCHANGED <<service, raced>>
          PROVE  Typed'
      BY <2>1 DEF Found, NewEnabled, Typed, Goto, Labels, service
    <2> QED
      BY <1>5, <1>1, <2>1 DEF FindUser
  <1>6. CASE CountAdmins(r)
    <2>1. EnabledAdmins(users) \in SUBSET Username
      BY DEF EnabledAdmins
    <2> QED
      BY <1>6, <1>1, <2>1 DEF CountAdmins, Typed, Goto, Labels, service
  <1>7. CASE SetEnabled(r)
    <2>1. raced' \in BOOLEAN
      BY <1>7 DEF SetEnabled
    <2>2. job[r].target \in Username
      BY <1>7, WrittenIsAccount DEF SetEnabled, Job
    <2> QED
      BY <1>7, <2>1, <2>2, WrittenIsAccount, StoreTyped DEF SetEnabled
  <1>8. CASE SetPassword(r)
    <2>1. raced' \in BOOLEAN
      BY <1>8 DEF SetPassword, Typed
    <2>2. job[r].target \in Username
      BY <1>8, WrittenIsAccount DEF SetPassword, Job
    <2> QED
      BY <1>8, <2>1, <2>2, WrittenIsAccount, StoreTyped DEF SetPassword
  <1> QED
    BY <1>2, <1>3, <1>4, <1>5, <1>6, <1>7, <1>8 DEF Handle

LEMMA StepTyped == Typed /\ JobsAreThere /\ [Next]_vars => Typed'
  <1> SUFFICES ASSUME Typed, JobsAreThere, [Next]_vars PROVE Typed'
    OBVIOUS
  <1>1. CASE UNCHANGED vars
    BY <1>1 DEF vars, Typed
  <1>2. CASE Next
    BY <1>2, StartTyped, InsertAdminTyped, StopTyped, ReceiveTyped, HandleTyped DEF Next
  <1> QED
    BY <1>1, <1>2

-----------------------------------------------------------------------------
(***************************************************************************)
(* Accounts are never removed, so what was found stays found.              *)
(***************************************************************************)
LEMMA AccountsStay ==
  ASSUME Typed, JobsAreThere, [Next]_vars
  PROVE  KeepsAccounts
  <1>1. ASSUME NEW p \in Process, InsertAdmin(p) PROVE KeepsAccounts
    <2>1. CASE users[wanted[p]] = Absent
      BY <1>1, <2>1, AbsentIsNoAccount, NewAdminTyped DEF InsertAdmin, KeepsAccounts, Typed
    <2> QED
      BY <1>1, <2>1 DEF InsertAdmin, KeepsAccounts
  <1>2. ASSUME NEW r \in Request, NEW u \in Username, NEW a \in Account, Store(r, u, a)
        PROVE  KeepsAccounts
    BY <1>2, AbsentIsNoAccount DEF Store, KeepsAccounts, Typed
  <1>3. ASSUME NEW r \in Request, Handle(r) PROVE KeepsAccounts
    <2>1. CASE UNCHANGED users
      BY <2>1 DEF KeepsAccounts
    <2>2. CASE InsertUser(r)
      <3>1. job[r] \in Job
        BY <2>2 DEF InsertUser, Typed, JobsAreThere
      <3> QED
        BY <2>1, <2>2, <3>1, <1>2, NewUserTyped DEF InsertUser, Answer, Job
    <2>3. CASE SetEnabled(r)
      BY <2>3, <1>2, WrittenIsAccount DEF SetEnabled, Job
    <2>4. CASE SetPassword(r)
      BY <2>4, <1>2, WrittenIsAccount DEF SetPassword, Job
    <2> QED
      BY <1>3, <2>1, <2>2, <2>3, <2>4
         DEF Handle, require_admin, FindNew, FindUser, Found, CountAdmins, Answer
  <1>4. CASE UNCHANGED users
    BY <1>4 DEF KeepsAccounts
  <1> QED
    BY <1>1, <1>3, <1>4 DEF Next, vars, Start, FindAdmin, Stop, Receive

\* How the call a request is about to make may change: only its own step takes
\* it on, to the account step with the account found, or back to idle.
LEMMA JobsStay == Typed /\ JobsAreThere /\ [Next]_vars => JobsAreThere'
  <1> SUFFICES ASSUME Typed, JobsAreThere, [Next]_vars PROVE JobsAreThere'
    OBVIOUS
  <1>0. KeepsAccounts
    BY AccountsStay
  <1>1. CASE UNCHANGED <<pc, job>>
    <2>1. ASSUME NEW r \in Request, pc[r] \in {"count", "set", "reset"}
          PROVE  job[r].target \in Username
      BY <2>1 DEF Typed, JobsAreThere, Job
    <2> QED
      BY <1>0, <1>1, <2>1 DEF JobsAreThere, KeepsAccounts
  <1>2. ASSUME NEW r \in Request, Done(r) PROVE JobsAreThere'
    <2>1. ASSUME NEW q \in Request, pc[q] \in {"count", "set", "reset"}
          PROVE  job[q].target \in Username
      BY <2>1 DEF Typed, JobsAreThere, Job
    <2> QED
      BY <1>0, <1>2, <2>1 DEF Done, Goto, JobsAreThere, KeepsAccounts, Typed
  <1>3. ASSUME NEW r \in Request, Handle(r) PROVE JobsAreThere'
    <2>1. job[r] \in Job /\ pc[r] # "idle"
      BY <1>3 DEF Handle, require_admin, FindNew, InsertUser, FindUser, CountAdmins,
                  SetEnabled, SetPassword, Typed, JobsAreThere
    <2>2. ASSUME NEW label, Goto(r, label), UNCHANGED <<users, job>>,
                 label \in {"count", "set", "reset"} => users[job[r].target] # Absent
          PROVE  JobsAreThere'
      BY <2>1, <2>2 DEF Goto, JobsAreThere, Typed
    <2>3. CASE require_admin(r)
      BY <2>3, <2>2, <1>2 DEF require_admin, Answer
    <2>4. CASE FindNew(r)
      BY <2>4, <2>2, <1>2 DEF FindNew, Answer
    <2>5. CASE InsertUser(r)
      BY <2>5, <1>2 DEF InsertUser, Answer, Store
    <2>6. CASE FindUser(r)
      BY <2>6, <2>2, <1>2 DEF FindUser, Found, Answer
    <2>7. CASE CountAdmins(r)
      BY <2>7, <2>2, <1>2 DEF CountAdmins, Answer, JobsAreThere
    <2>8. CASE SetEnabled(r) \/ SetPassword(r)
      BY <2>8, <1>2 DEF SetEnabled, SetPassword, Store
    <2> QED
      BY <1>3, <2>3, <2>4, <2>5, <2>6, <2>7, <2>8 DEF Handle
  <1>4. ASSUME NEW r \in Request, Receive(r) PROVE JobsAreThere'
    <2>1. PICK j \in Job : job' = [job EXCEPT ![r] = j]
      BY <1>4 DEF Receive
    <2>2. j # NoJob
      BY AccountsAssumption
    <2> QED
      BY <1>4, <2>1, <2>2 DEF Receive, Goto, JobsAreThere, Typed
  <1>5. ASSUME NEW p \in Process, Stop(p) PROVE JobsAreThere'
    BY <1>5, <1>1 DEF Stop, JobsAreThere
  <1> QED
    BY <1>1, <1>3, <1>4, <1>5
       DEF Next, vars, Start, FindAdmin, InsertAdmin, Requests

\* TypeOK holds in every reachable state.
THEOREM TypeCorrect == Spec => []TypeOK
  <1>1. Init => Typed /\ JobsAreThere
    BY InitTyped
  <1>2. (Typed /\ JobsAreThere) /\ [Next]_vars => (Typed /\ JobsAreThere)'
    BY StepTyped, JobsStay
  <1>3. Typed /\ JobsAreThere => TypeOK
    BY DEF Typed, JobsAreThere, TypeOK, Labels
  <1> QED
    BY <1>1, <1>2, <1>3, PTL DEF Spec

LEMMA InvariantTypes == Spec => [](Typed /\ JobsAreThere)
  <1>1. (Typed /\ JobsAreThere) /\ [Next]_vars => (Typed /\ JobsAreThere)'
    BY StepTyped, JobsStay
  <1> QED
    BY <1>1, InitTyped, PTL DEF Spec

-----------------------------------------------------------------------------
(***************************************************************************)
(* Every step keeps the accounts, adds one where there was none, or is the *)
(* write of a request.                                                     *)
(***************************************************************************)
Adds(u, a) == users[u] = Absent /\ a.enabled /\ users' = [users EXCEPT ![u] = a]

LEMMA AccountStep ==
  ASSUME Typed, JobsAreThere, [Next]_vars
  PROVE  \/ UNCHANGED users
         \/ raced' = raced /\ \E u \in Username, a \in Account : Adds(u, a)
         \/ \E r \in Request : SetEnabled(r) \/ SetPassword(r)
  <1>1. ASSUME NEW p \in Process, InsertAdmin(p)
        PROVE  UNCHANGED users \/ (raced' = raced /\ \E u \in Username, a \in Account : Adds(u, a))
    <2>1. wanted[p] \in Username
      BY AccountsAssumption DEF Typed
    <2>2. CASE users[wanted[p]] = Absent
      <3>1. PICK pw \in Password : users' = [users EXCEPT ![wanted[p]] = NewAdmin(pw)]
        BY <1>1, <2>2 DEF InsertAdmin
      <3>2. Adds(wanted[p], NewAdmin(pw))
        BY <2>2, <3>1 DEF Adds, NewAdmin
      <3>3. raced' = raced /\ NewAdmin(pw) \in Account
        BY <1>1, NewAdminTyped DEF InsertAdmin, Requests
      <3>4. \E u \in Username, a \in Account : Adds(u, a)
        BY <2>1, <3>2, <3>3
      <3> QED
        BY <3>3, <3>4
    <2> QED
      BY <1>1, <2>2 DEF InsertAdmin
  <1>2. ASSUME NEW r \in Request, InsertUser(r)
        PROVE  UNCHANGED users \/ (raced' = raced /\ \E u \in Username, a \in Account : Adds(u, a))
    <2>1. job[r] \in Job
      BY <1>2 DEF InsertUser, Typed, JobsAreThere
    <2>2. job[r].target \in Username
      BY <2>1 DEF Job
    <2> DEFINE new == [role |-> "operator", enabled |-> TRUE, password |-> job[r].password]
    <2>3. CASE users[job[r].target] = Absent
      <3>1. Adds(job[r].target, new)
        BY <1>2, <2>3 DEF InsertUser, Store, Adds
      <3>2. new \in Account
        BY <2>1, NewUserTyped
      <3>3. raced' = raced
        BY <1>2 DEF InsertUser
      <3>4. \E u \in Username, a \in Account : Adds(u, a)
        BY <2>2, <3>1, <3>2
      <3> QED
        BY <3>3, <3>4
    <2> QED
      BY <1>2, <2>3 DEF InsertUser, Answer
  <1>3. ASSUME NEW r \in Request, Handle(r)
        PROVE  \/ UNCHANGED users
               \/ raced' = raced /\ \E u \in Username, a \in Account : Adds(u, a)
               \/ SetEnabled(r) \/ SetPassword(r)
    BY <1>2, <1>3 DEF Handle, require_admin, FindNew, FindUser, Found, CountAdmins, Answer
  <1> QED
    BY <1>1, <1>3 DEF Next, vars, Start, FindAdmin, Stop, Receive

LEMMA WriteShape ==
  ASSUME Typed, JobsAreThere, NEW r \in Request, SetEnabled(r) \/ SetPassword(r)
  PROVE  /\ job[r] \in Job /\ job[r].target \in Username
         /\ users[job[r].target] \in Account
         /\ pc[r] \in {"set", "reset"}
         /\ users' = [users EXCEPT ![job[r].target] =
              IF pc[r] = "set" THEN [users[job[r].target] EXCEPT !.enabled = enabling[r]]
              ELSE [users[job[r].target] EXCEPT !.password = job[r].password]]
  BY WrittenIsAccount DEF SetEnabled, SetPassword, Store, Job

LEMMA WriteKeepsRole ==
  ASSUME Typed, JobsAreThere, NEW r \in Request, SetEnabled(r) \/ SetPassword(r)
  PROVE  /\ users'[job[r].target] \in Account
         /\ users'[job[r].target].role = users[job[r].target].role
         /\ \A v \in Username : v # job[r].target => users'[v] = users[v]
  <1> DEFINE t == job[r].target
  <1>1. t \in Username /\ users[t] \in Account /\ pc[r] \in {"set", "reset"}
    BY WriteShape
  <1>2. \A v \in Username : v # t => users'[v] = users[v]
    BY <1>1, WriteShape DEF Typed
  <1>3. CASE pc[r] = "set"
    <2>1. users'[t] = [users[t] EXCEPT !.enabled = enabling[r]]
      BY <1>1, <1>3, WriteShape DEF Typed
    <2>2. users'[t] \in Account
      BY <1>3, <2>1, WrittenIsAccount
    <2>3. users'[t].role = users[t].role
      BY <1>1, <2>1 DEF Account
    <2> QED
      BY <1>2, <2>2, <2>3
  <1>4. CASE pc[r] = "reset"
    <2>1. users'[t] = [users[t] EXCEPT !.password = job[r].password]
      BY <1>1, <1>4, WriteShape DEF Typed
    <2>2. users'[t] \in Account
      BY <1>4, <2>1, WrittenIsAccount
    <2>3. users'[t].role = users[t].role
      BY <1>1, <2>1 DEF Account
    <2> QED
      BY <1>2, <2>2, <2>3
  <1> QED
    BY <1>1, <1>3, <1>4

\* Accounts change by an administrator's request and in one field only.
THEOREM ChangesAreOrdered == Spec => OnlyOrderedChanges
  <1> DEFINE Ordered == \A u \in Username : users[u] # Absent =>
               \/ users'[u] = users[u]
               \/ \E r \in Request :
                    /\ pc[r] \in {"set", "reset"}
                    /\ job[r].target = u
                    /\ users'[u] = IF pc[r] = "set" THEN [users[u] EXCEPT !.enabled = enabling[r]]
                                   ELSE [users[u] EXCEPT !.password = job[r].password]
  <1>1. Typed /\ JobsAreThere /\ [Next]_vars => [Ordered]_vars
    <2> SUFFICES ASSUME Typed, JobsAreThere, [Next]_vars PROVE Ordered
      OBVIOUS
    <2>1. CASE UNCHANGED users
      BY <2>1
    <2>2. CASE \E w \in Username, a \in Account : Adds(w, a)
      BY <2>2 DEF Adds, Typed
    <2>3. ASSUME NEW r \in Request, SetEnabled(r) \/ SetPassword(r)
          PROVE  Ordered
      <3> SUFFICES ASSUME NEW u \in Username
                   PROVE  \/ users'[u] = users[u]
                          \/ \E q \in Request :
                               /\ pc[q] \in {"set", "reset"}
                               /\ job[q].target = u
                               /\ users'[u] = IF pc[q] = "set" THEN [users[u] EXCEPT !.enabled = enabling[q]]
                                              ELSE [users[u] EXCEPT !.password = job[q].password]
        OBVIOUS
      <3>1. CASE u # job[r].target
        BY <2>3, <3>1, WriteShape DEF Typed
      <3>2. CASE u = job[r].target
        <4>1. users'[u] = IF pc[r] = "set" THEN [users[u] EXCEPT !.enabled = enabling[r]]
                          ELSE [users[u] EXCEPT !.password = job[r].password]
          BY <2>3, <3>2, WriteShape DEF Typed
        <4>2. pc[r] \in {"set", "reset"}
          BY <2>3, WriteShape
        <4> QED
          BY <3>2, <4>1, <4>2
      <3> QED
        BY <3>1, <3>2
    <2> QED
      BY <2>1, <2>2, <2>3, AccountStep
  <1> QED
    BY <1>1, InvariantTypes, PTL DEF Spec, OnlyOrderedChanges

-----------------------------------------------------------------------------
(***************************************************************************)
(* A start that ended found or made the account it wants.                  *)
(***************************************************************************)
LEMMA StartsStep ==
  ASSUME Typed, JobsAreThere, StartedWithAdmin, [Next]_vars
  PROVE  StartedWithAdmin'
  <1>1. KeepsAccounts
    BY AccountsStay
  <1>2. \A p \in Process : wanted[p] \in Username
    BY AccountsAssumption DEF Typed
  <1>3. CASE UNCHANGED <<proc, wanted>>
    BY <1>1, <1>2, <1>3 DEF StartedWithAdmin, KeepsAccounts
  <1>4. ASSUME NEW p \in Process, Start(p) PROVE StartedWithAdmin'
    BY <1>4, <1>1, <1>2 DEF Start, StartedWithAdmin, KeepsAccounts, Typed
  <1>5. ASSUME NEW p \in Process, FindAdmin(p) PROVE StartedWithAdmin'
    BY <1>5, <1>1, <1>2 DEF FindAdmin, StartedWithAdmin, KeepsAccounts, Typed
  <1>6. ASSUME NEW p \in Process, InsertAdmin(p) PROVE StartedWithAdmin'
    <2>1. users'[wanted[p]] # Absent
      BY <1>6, <1>2, AbsentIsNoAccount, NewAdminTyped DEF InsertAdmin, Typed
    <2> QED
      BY <1>6, <2>1, <1>1, <1>2 DEF InsertAdmin, StartedWithAdmin, KeepsAccounts, Typed
  <1>7. ASSUME NEW p \in Process, Stop(p) PROVE StartedWithAdmin'
    BY <1>7, <1>1, <1>2 DEF Stop, StartedWithAdmin, KeepsAccounts, Typed
  <1>8. ASSUME NEW r \in Request, Handle(r) PROVE UNCHANGED <<proc, wanted>>
    BY <1>8 DEF Handle, require_admin, FindNew, InsertUser, FindUser, CountAdmins,
                SetEnabled, SetPassword, service
  <1> QED
    BY <1>3, <1>4, <1>5, <1>6, <1>7, <1>8 DEF Next, vars, Receive, service

\* Whatever the order of the two bootstraps and of requests that create
\* accounts, a process that is up, or lost the race, has its administrator.
THEOREM StartsFindTheirAdmin == Spec => []StartedWithAdmin
  <1>1. Init => StartedWithAdmin
    BY DEF Init, StartedWithAdmin
  <1>2. Typed /\ JobsAreThere /\ StartedWithAdmin /\ [Next]_vars => StartedWithAdmin'
    BY StartsStep
  <1> QED
    BY <1>1, <1>2, InvariantTypes, PTL DEF Spec

-----------------------------------------------------------------------------
(***************************************************************************)
(* A sender who is an enabled administrator is entitled, and only such a   *)
(* sender's request gets past the check.                                   *)
(***************************************************************************)
EntitledNow == \A r \in Request :
  job[r] # NoJob /\ IsAdmin(users, job[r].by) => entitled[r]

LEMMA EntitledStep ==
  ASSUME Typed, JobsAreThere, EntitledNow, RefusedOnceDisabled, [Next]_vars
  PROVE  EntitledNow' /\ RefusedOnceDisabled'
  <1>1. ASSUME NEW r \in Request, Answer(r) PROVE EntitledNow' /\ RefusedOnceDisabled'
    BY <1>1 DEF Answer, Done, Goto, EntitledNow, RefusedOnceDisabled, Typed, IsAdmin, Enabled
  <1>2. ASSUME NEW r \in Request, NEW u, NEW a, Store(r, u, a)
        PROVE  EntitledNow' /\ RefusedOnceDisabled'
    BY <1>2 DEF Store, Done, Goto, StillEntitled, EntitledNow, RefusedOnceDisabled, Typed
  <1>3. ASSUME NEW r \in Request, Receive(r) PROVE EntitledNow' /\ RefusedOnceDisabled'
    <2>1. PICK j \in Job : /\ job' = [job EXCEPT ![r] = j]
                           /\ entitled' = [entitled EXCEPT ![r] = IsAdmin(users, j.by)]
      BY <1>3 DEF Receive
    <2> QED
      BY <1>3, <2>1 DEF Receive, Goto, EntitledNow, RefusedOnceDisabled, Typed, IsAdmin, Enabled
  <1>4. ASSUME NEW p \in Process, InsertAdmin(p) PROVE EntitledNow' /\ RefusedOnceDisabled'
    <2>1. CASE users[wanted[p]] = Absent
      BY <1>4, <2>1 DEF InsertAdmin, Requests, StillEntitled, EntitledNow, RefusedOnceDisabled
    <2>2. CASE users[wanted[p]] # Absent
      BY <1>4, <2>2 DEF InsertAdmin, Requests, EntitledNow, RefusedOnceDisabled, IsAdmin, Enabled
    <2> QED
      BY <2>1, <2>2
  <1>5. ASSUME NEW p \in Process, Stop(p) PROVE EntitledNow' /\ RefusedOnceDisabled'
    BY <1>5 DEF Stop, EntitledNow, RefusedOnceDisabled
  <1>6. ASSUME NEW r \in Request, NEW label, Goto(r, label), pc[r] # "idle",
               UNCHANGED <<users, job, entitled>>,
               pc[r] = "authenticate" => IsAdmin(users, job[r].by)
        PROVE  EntitledNow' /\ RefusedOnceDisabled'
    BY <1>6 DEF Goto, EntitledNow, RefusedOnceDisabled, Typed, JobsAreThere, IsAdmin, Enabled
  <1>7. ASSUME NEW r \in Request, Handle(r) PROVE EntitledNow' /\ RefusedOnceDisabled'
    <2>1. CASE require_admin(r)
      BY <2>1, <1>1, <1>6 DEF require_admin
    <2>2. CASE FindNew(r)
      BY <2>2, <1>1, <1>6 DEF FindNew
    <2>3. CASE InsertUser(r)
      BY <2>3, <1>1, <1>2 DEF InsertUser
    <2>4. CASE FindUser(r)
      BY <2>4, <1>1, <1>6 DEF FindUser, Found
    <2>5. CASE CountAdmins(r)
      BY <2>5, <1>1, <1>6 DEF CountAdmins
    <2>6. CASE SetEnabled(r) \/ SetPassword(r)
      BY <2>6, <1>2 DEF SetEnabled, SetPassword
    <2> QED
      BY <1>7, <2>1, <2>2, <2>3, <2>4, <2>5, <2>6 DEF Handle
  <1>8. CASE UNCHANGED <<users, pc, job, entitled>>
    BY <1>8 DEF EntitledNow, RefusedOnceDisabled, IsAdmin, Enabled
  <1> QED
    BY <1>3, <1>4, <1>5, <1>7, <1>8 DEF Next, vars, Start, FindAdmin, Requests

\* Nobody who was no enabled administrator when a request arrived, or since,
\* gets a request past its authentication.
THEOREM DisabledAreRefused == Spec => []RefusedOnceDisabled
  <1>1. Init => EntitledNow /\ RefusedOnceDisabled
    BY DEF Init, EntitledNow, RefusedOnceDisabled
  <1>2. /\ Typed /\ JobsAreThere
        /\ EntitledNow /\ RefusedOnceDisabled
        /\ [Next]_vars
        => EntitledNow' /\ RefusedOnceDisabled'
    BY EntitledStep
  <1> QED
    BY <1>1, <1>2, InvariantTypes, PTL DEF Spec

-----------------------------------------------------------------------------
(***************************************************************************)
(* The lockout guard.                                                      *)
(***************************************************************************)
\* A request about to disable an administrator has counted another.
CountedAnother == \A r \in Request :
  pc[r] = "set" /\ ~enabling[r] /\ users[job[r].target].role = "admin"
    => Cardinality(counted[r]) > 1

LEMMA AnotherOne ==
  ASSUME NEW S \in SUBSET Username, Cardinality(S) > 1, NEW u
  PROVE  \E v \in S : v # u
  <1>1. IsFiniteSet({u}) /\ Cardinality({u}) = 1
    BY FS_Singleton
  <1>2. ASSUME S \subseteq {u} PROVE FALSE
    <2>1. Cardinality(S) <= 1 /\ Cardinality(S) \in Nat
      BY <1>1, <1>2, FS_Subset, FS_CardinalityType
    <2> QED
      BY <2>1
  <1> QED
    BY <1>2

LEMMA CountStep ==
  ASSUME Typed, JobsAreThere, CountedAnother, [Next]_vars
  PROVE  CountedAnother'
  <1>1. ASSUME NEW q \in Request, pc[q] = "set"
        PROVE  /\ job[q].target \in Username
               /\ users[job[q].target] \in Account
               /\ users'[job[q].target].role = users[job[q].target].role
    <2>1. job[q] \in Job /\ job[q].target \in Username
      BY <1>1 DEF Typed, JobsAreThere, Job
    <2>2. users[job[q].target] \in Account
      BY <1>1, <2>1 DEF Typed, JobsAreThere
    <2>3. CASE \E u \in Username, a \in Account : Adds(u, a)
      BY <2>1, <2>2, <2>3, AbsentIsNoAccount DEF Adds, Typed
    <2>4. ASSUME NEW r \in Request, SetEnabled(r) \/ SetPassword(r)
          PROVE  users'[job[q].target].role = users[job[q].target].role
      BY <2>1, <2>4, WriteKeepsRole
    <2> QED
      BY <2>1, <2>2, <2>3, <2>4, AccountStep
  <1>2. CASE UNCHANGED <<pc, job, enabling, counted>>
    BY <1>1, <1>2 DEF CountedAnother
  <1>3. ASSUME NEW r \in Request, Done(r) PROVE CountedAnother'
    BY <1>1, <1>3 DEF Done, Goto, CountedAnother, Typed
  <1>4. ASSUME NEW r \in Request, NEW label, Goto(r, label), label # "set",
               \A q \in Request \ {r} :
                 job'[q] = job[q] /\ enabling'[q] = enabling[q] /\ counted'[q] = counted[q]
        PROVE  CountedAnother'
    BY <1>1, <1>4 DEF Goto, CountedAnother, Typed
  <1>5. ASSUME NEW r \in Request, Handle(r) PROVE CountedAnother'
    <2>1. CASE require_admin(r)
      BY <2>1, <1>3, <1>4 DEF require_admin, Answer
    <2>2. CASE FindNew(r)
      BY <2>2, <1>3, <1>4 DEF FindNew, Answer
    <2>3. CASE InsertUser(r)
      BY <2>3, <1>3 DEF InsertUser, Answer, Store
    <2>4. CASE FindUser(r)
      <3>1. ASSUME Found(r, users[job[r].target], users[job[r].target].role = "admin")
            PROVE  CountedAnother'
        BY <3>1, <1>1 DEF Found, Goto, CountedAnother, Typed
      <3> QED
        BY <2>4, <3>1, <1>3 DEF FindUser, Answer
    <2>5. CASE CountAdmins(r)
      <3>1. CASE Answer(r)
        BY <3>1, <1>3 DEF Answer
      <3>2. CASE /\ Cardinality(EnabledAdmins(users)) > 1
                 /\ counted' = [counted EXCEPT ![r] = EnabledAdmins(users)]
                 /\ Goto(r, "set")
                 /\ UNCHANGED <<users, job, enabling>>
        BY <3>2 DEF Goto, CountedAnother, Typed
      <3> QED
        BY <2>5, <3>1, <3>2 DEF CountAdmins
    <2>6. CASE SetEnabled(r) \/ SetPassword(r)
      BY <2>6, <1>3 DEF SetEnabled, SetPassword, Store
    <2> QED
      BY <1>5, <2>1, <2>2, <2>3, <2>4, <2>5, <2>6 DEF Handle
  <1>6. ASSUME NEW r \in Request, Receive(r) PROVE CountedAnother'
    <2>1. PICK j \in Job : job' = [job EXCEPT ![r] = j]
      BY <1>6 DEF Receive
    <2> QED
      BY <1>6, <2>1, <1>4 DEF Receive, Typed
  <1>7. ASSUME NEW p \in Process, Stop(p) PROVE CountedAnother'
    BY <1>2, <1>7 DEF Stop, CountedAnother
  <1> QED
    BY <1>2, <1>5, <1>6, <1>7 DEF Next, vars, Start, FindAdmin, InsertAdmin, Requests

LEMMA LockoutStep ==
  ASSUME Typed, JobsAreThere, CountedAnother, LockoutOnlyByRace, [Next]_vars
  PROVE  LockoutOnlyByRace'
  <1>1. CASE UNCHANGED users
    <2>1. raced => raced'
      BY <1>1, AccountStep DEF SetEnabled, Next, vars, Start, FindAdmin, InsertAdmin, Requests, Stop,
         Receive, Handle, require_admin, FindNew, InsertUser, FindUser, CountAdmins, SetPassword
    <2> QED
      BY <1>1, <2>1 DEF LockoutOnlyByRace, EnabledAdmins, IsAdmin, Enabled
  <1>2. ASSUME NEW u \in Username, NEW a \in Account, Adds(u, a), raced' = raced
        PROVE  LockoutOnlyByRace'
    <2>1. ASSUME NEW v \in EnabledAdmins(users) PROVE v \in EnabledAdmins(users)'
      BY <1>2, <2>1 DEF Adds, EnabledAdmins, IsAdmin, Enabled, Typed
    <2>2. CASE a.role = "admin"
      BY <1>2, <2>2, AbsentIsNoAccount DEF Adds, LockoutOnlyByRace, EnabledAdmins, IsAdmin, Enabled, Typed
    <2>3. CASE a.role # "admin"
      <3>1. a.role = "operator"
        BY <2>3 DEF Account
      <3> QED
        BY <1>2, <2>1, <3>1 DEF Adds, LockoutOnlyByRace, Typed
    <2> QED
      BY <2>2, <2>3
  <1>3. ASSUME NEW r \in Request, SetEnabled(r) \/ SetPassword(r) PROVE LockoutOnlyByRace'
    <2> DEFINE t == job[r].target
    <2>1. /\ t \in Username /\ users[t] \in Account /\ pc[r] \in {"set", "reset"}
          /\ users' = [users EXCEPT ![t] =
               IF pc[r] = "set" THEN [users[t] EXCEPT !.enabled = enabling[r]]
               ELSE [users[t] EXCEPT !.password = job[r].password]]
      BY <1>3, WriteShape
    <2>2. raced => raced'
      BY <1>3 DEF SetEnabled, SetPassword
    <2>3. \A v \in Username : v # t => users'[v] = users[v]
      BY <1>3, WriteKeepsRole
    <2>4. users'[t] \in Account /\ users'[t].role = users[t].role
      BY <1>3, WriteKeepsRole
    <2>5. ASSUME NEW v \in EnabledAdmins(users), v # t PROVE v \in EnabledAdmins(users)'
      BY <2>3, <2>5 DEF EnabledAdmins, IsAdmin, Enabled
    <2>6. CASE pc[r] = "set" /\ ~enabling[r] /\ users[t].role = "admin"
      <3>1. counted[r] \in SUBSET Username /\ Cardinality(counted[r]) > 1
        BY <2>6 DEF CountedAnother, Typed
      <3>2. PICK v \in counted[r] : v # t
        BY <3>1, AnotherOne
      <3>3. raced' = (raced \/ ~(counted[r] \subseteq EnabledAdmins(users)))
        BY <1>3, <2>6 DEF SetEnabled, SetPassword
      <3> QED
        BY <2>5, <3>2, <3>3 DEF LockoutOnlyByRace
    <2>7. CASE ~(pc[r] = "set" /\ ~enabling[r] /\ users[t].role = "admin")
      <3>1. t \in EnabledAdmins(users) => t \in EnabledAdmins(users)'
        BY <2>1, <2>4, <2>7, AbsentIsNoAccount DEF EnabledAdmins, IsAdmin, Enabled, Typed, Account
      <3>2. (\A u \in Username : users[u] # Absent => users[u].role = "operator")
              => \A u \in Username : users'[u] # Absent => users'[u].role = "operator"
        BY <2>1, <2>3, <2>4, AbsentIsNoAccount
      <3> QED
        BY <2>2, <2>5, <3>1, <3>2 DEF LockoutOnlyByRace
    <2> QED
      BY <2>6, <2>7
  <1> QED
    BY <1>1, <1>2, <1>3, AccountStep

\* The lockout guard leaves nobody enabled only when two requests that disable
\* administrators overlap between their count and their write.
THEOREM GuardHolds == Spec => []LockoutOnlyByRace
  <1>1. Init => CountedAnother /\ LockoutOnlyByRace
    BY DEF Init, CountedAnother, LockoutOnlyByRace
  <1>2. /\ Typed /\ JobsAreThere
        /\ CountedAnother /\ LockoutOnlyByRace
        /\ [Next]_vars
        => CountedAnother' /\ LockoutOnlyByRace'
    BY CountStep, LockoutStep
  <1> QED
    BY <1>1, <1>2, InvariantTypes, PTL DEF Spec
=============================================================================
