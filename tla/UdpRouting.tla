----------------------------- MODULE UdpRouting -----------------------------
(***************************************************************************)
(* Who a UDP datagram is credited to: app/udp/server.py with the two       *)
(* in-memory caches it consults, app/udp/token_cache.py and                *)
(* app/udp/operator_cache.py, the requests that create and revoke tokens,  *)
(* and the admin service that enables and disables users.                  *)
(*                                                                         *)
(* Datagrams are asyncio tasks; the caches are reloaded by whichever task  *)
(* finds them dirty, one MongoDB read at a time, and several tasks may be  *)
(* reloading at once.  The admin service is a second process on the same   *)
(* database (docker-compose.yml), with cache objects of its own.           *)
(***************************************************************************)
EXTENDS Naturals, FiniteSets

CONSTANTS
  User, Token, Task,
  Owner,              \* [Token -> User]
  NoUser, NoToken,
  Stranger,           \* an OPERATOR field that is nobody's callsign
  MaxChanges,         \* bound on the changes to users, and on restarts
  MaxFaults           \* bound on failing MongoDB calls

ASSUME RoutingAssumption ==
  /\ Owner \in [Token -> User]
  /\ NoUser \notin User
  /\ Stranger \notin User \cup {NoUser}
  /\ NoToken \notin Token
  /\ MaxChanges \in Nat
  /\ MaxFaults \in Nat

Process == {"operator", "admin"}

VARIABLES
  enabled,   \* users.enabled
  token,     \* each ApiToken: none, active (enabled) or revoked
  lapsed,    \* tokens whose expires_at has passed
  tcache,    \* token_cache._cache
  tdirty,    \* token_cache._dirty
  ocache,    \* operator_cache._cache of the operator process, keyed by callsign
  odirty,    \* operator_cache._dirty of each process
  fallback,  \* the user of UDP_OPERATOR as found at startup, or NoUser
  notices,   \* token requests whose write is done and whose notify is to come
  pc,        \* where each datagram's task waits
  dgram,     \* its APP_OLLOG_TOKEN and OPERATOR fields
  credit,    \* the user resolved so far
  todo,      \* the tokens its reload has still to look at
  asked,     \* the token whose user its reload is reading, or NoToken
  draft,     \* the cache its reload is building
  spent,     \* how much of the bounds is used
  \* History, read by properties only:
  stale,     \* for each token, the reloads under way that began before its last write
  told,      \* tokens of which a notification since their last write met no such reload
  settled,   \* tokens whose last request has called notify_refresh
  shunned,   \* users disabled or never enabled since they were last so
  swept,     \* expired tokens that a notification found in no reload under way
  arrival    \* what was settled about its token when each datagram came

db == <<enabled, token, lapsed>>
caches == <<tcache, tdirty, ocache, odirty, fallback>>
task == <<pc, dgram, credit, todo, asked, draft>>
history == <<stale, told, settled, shunned, swept, arrival>>
vars == <<enabled, token, lapsed, tcache, tdirty, ocache, odirty, fallback, notices, pc,
          dgram, credit, todo, asked, draft, spent, stale, told, settled, shunned, swept, arrival>>

NoDgram == [token |-> NoToken, op |-> NoUser]
EmptyCache == [t \in Token |-> NoUser]

\* The cache entry for a token that was active when it was looked at.
EntryFor(t) == IF Owner[t] \in enabled THEN Owner[t] ELSE NoUser

\* Startup: both caches are loaded before the socket is bound.
Init ==
  /\ enabled = User
  /\ token = [t \in Token |-> "none"]
  /\ lapsed = {}
  /\ tcache = EmptyCache
  /\ tdirty = FALSE
  /\ ocache = enabled
  /\ odirty = [p \in Process |-> p = "admin"]
  /\ fallback \in User \cup {NoUser}
  /\ notices = {}
  /\ pc = [d \in Task |-> "idle"]
  /\ dgram = [d \in Task |-> NoDgram]
  /\ credit = [d \in Task |-> NoUser]
  /\ todo = [d \in Task |-> {}]
  /\ asked = [d \in Task |-> NoToken]
  /\ draft = [d \in Task |-> EmptyCache]
  /\ spent = [changes |-> 0, faults |-> 0]
  /\ stale = [t \in Token |-> {}]
  /\ told = {}
  /\ settled = {}
  /\ shunned = {}
  /\ swept = {}
  /\ arrival = [d \in Task |-> {}]

Goto(d, label) == pc' = [pc EXCEPT ![d] = label]
Reloads == {d \in Task : pc[d] = "visit"}
Forget(d) == stale' = [t \in Token |-> stale[t] \ {d}]

-----------------------------------------------------------------------------
(***************************************************************************)
(* Tokens and users.                                                       *)
(***************************************************************************)
WriteToken(t, state) ==
  /\ token' = [token EXCEPT ![t] = state]
  /\ notices' = notices \cup {t}
  /\ stale' = [stale EXCEPT ![t] = Reloads]
  /\ told' = told \ {t}
  /\ settled' = settled \ {t}
  /\ UNCHANGED <<enabled, lapsed, caches, task, spent, shunned, swept, arrival>>

\* doc.insert() of POST /api/tokens/ and of the profile page.  Its user was
\* enabled when the request was authenticated and need not be any more.
create_token(t) ==
  /\ token[t] = "none"
  /\ WriteToken(t, "active")

\* token.set({enabled: False}) of DELETE /api/tokens/{id} and of the profile page.
revoke_token(t) ==
  /\ token[t] = "active"
  /\ t \notin notices
  /\ WriteToken(t, "revoked")

\* token_cache.notify_refresh(), when the request's own await has returned.
notify_refresh(t) ==
  /\ t \in notices
  /\ notices' = notices \ {t}
  /\ tdirty' = TRUE
  /\ settled' = settled \cup {t}
  /\ told' = told \cup {s \in Token : stale[s] = {}}
  /\ swept' = swept \cup {s \in lapsed : \A d \in Task : asked[d] # s /\ draft[d][s] = NoUser}
  /\ UNCHANGED <<db, tcache, ocache, odirty, fallback, task, spent, stale, shunned, arrival>>

\* expires_at passes.  Nothing is notified.
Expire(t) ==
  /\ token[t] = "active"
  /\ t \notin lapsed
  /\ lapsed' = lapsed \cup {t}
  /\ UNCHANGED <<enabled, token, caches, notices, task, spent, history>>

\* The admin service enables or disables a user and calls notify_refresh() on
\* the operator cache it has; nothing reads that cache, so the two are one step.
set_user_enabled(u) ==
  /\ spent.changes < MaxChanges
  /\ spent' = [spent EXCEPT !.changes = @ + 1]
  /\ enabled' = IF u \in enabled THEN enabled \ {u} ELSE enabled \cup {u}
  /\ odirty' = [odirty EXCEPT !["admin"] = TRUE]
  /\ shunned' = shunned \cup {u}
  /\ UNCHANGED <<token, lapsed, tcache, tdirty, ocache, fallback, notices, task, stale, told,
                 settled, swept, arrival>>

-----------------------------------------------------------------------------
(***************************************************************************)
(* Datagrams.                                                              *)
(***************************************************************************)
Known(t) ==
  {w \in {"revoked", "toldRevoked", "toldCreated", "expired"} :
    \/ w = "revoked" /\ t \in settled /\ token[t] = "revoked"
    \/ w = "toldRevoked" /\ t \in told /\ token[t] = "revoked"
    \/ w = "toldCreated" /\ t \in told /\ token[t] = "active"
    \/ w = "expired" /\ t \in swept}

datagram_received(d) ==
  /\ pc[d] = "idle"
  /\ \E t \in Token \cup {NoToken}, op \in User \cup {NoUser, Stranger} :
       /\ dgram' = [dgram EXCEPT ![d] = [token |-> t, op |-> op]]
       /\ arrival' = [arrival EXCEPT ![d] = Known(t)]
  /\ credit' = [credit EXCEPT ![d] = fallback]
  /\ Goto(d, "token")
  /\ UNCHANGED <<db, caches, notices, todo, asked, draft, spent, stale, told, settled, shunned,
                 swept>>

\* The cache has answered for d's token: reject the datagram or credit it.
Answered(d, cache) ==
  LET u == cache[dgram[d].token] IN
  IF u = NoUser
  THEN Goto(d, "badToken") /\ UNCHANGED credit
  ELSE Goto(d, "operator") /\ credit' = [credit EXCEPT ![d] = u]

\* token_cache.resolve: the dirty flag is looked at before anything is awaited.
resolve_token(d) ==
  /\ pc[d] = "token"
  /\ \/ /\ dgram[d].token = NoToken
        /\ Goto(d, "operator")
        /\ UNCHANGED credit
     \/ /\ dgram[d].token # NoToken
        /\ tdirty
        /\ Goto(d, "load")
        /\ UNCHANGED credit
     \/ /\ dgram[d].token # NoToken
        /\ ~tdirty
        /\ Answered(d, tcache)
  /\ UNCHANGED <<db, caches, notices, dgram, todo, asked, draft, spent, history>>

\* token_cache.load: find the tokens with enabled set.
ReadTokens(d) ==
  /\ pc[d] = "load"
  /\ todo' = [todo EXCEPT ![d] = {t \in Token : token[t] = "active"}]
  /\ draft' = [draft EXCEPT ![d] = EmptyCache]
  /\ Goto(d, "visit")
  /\ UNCHANGED <<db, caches, notices, dgram, credit, asked, spent, history>>

\* The next token of the list, as the list gave it: token_is_active looks at
\* the clock, and find_one for its user is awaited unless it has expired.
token_is_active(d) ==
  /\ pc[d] = "visit"
  /\ asked[d] = NoToken
  /\ \E t \in todo[d] :
       /\ todo' = [todo EXCEPT ![d] = @ \ {t}]
       /\ asked' = [asked EXCEPT ![d] = IF t \in lapsed THEN NoToken ELSE t]
  /\ UNCHANGED <<db, caches, notices, pc, dgram, credit, draft, spent, history>>

\* The user is read; the token is not looked at again.
FindUser(d) ==
  /\ pc[d] = "visit"
  /\ asked[d] # NoToken
  /\ draft' = [draft EXCEPT ![d][asked[d]] = EntryFor(asked[d])]
  /\ asked' = [asked EXCEPT ![d] = NoToken]
  /\ UNCHANGED <<db, caches, notices, pc, dgram, credit, todo, spent, history>>

\* Mutant: a reload adds to the cache and forgets nothing.
MergeCache(d) ==
  /\ pc[d] = "visit"
  /\ todo[d] = {} /\ asked[d] = NoToken
  /\ tcache' = [t \in Token |-> IF draft[d][t] = NoUser THEN tcache[t] ELSE draft[d][t]]
  /\ tdirty' = FALSE
  /\ draft' = [draft EXCEPT ![d] = EmptyCache]
  /\ Answered(d, tcache')
  /\ Forget(d)
  /\ UNCHANGED <<db, ocache, odirty, fallback, notices, dgram, todo, asked, spent, told, settled,
                 shunned, swept, arrival>>

\* The list is done: install the new cache, clear the flag, look the token up.
\* The lock is free, so none of this lets another task run.
InstallCache(d) ==
  /\ pc[d] = "visit"
  /\ todo[d] = {} /\ asked[d] = NoToken
  /\ tcache' = draft[d]
  /\ tdirty' = FALSE
  /\ draft' = [draft EXCEPT ![d] = EmptyCache]
  /\ Answered(d, draft[d])
  /\ Forget(d)
  /\ UNCHANGED <<db, ocache, odirty, fallback, notices, dgram, todo, asked, spent, told, settled,
                 shunned, swept, arrival>>

\* Mutant: an OPERATOR that is not found is passed over.
PassOverUnknown(d) ==
  LET op == dgram[d].op
      known == IF odirty["operator"] THEN enabled ELSE ocache
  IN  /\ pc[d] = "operator"
      /\ ocache' = known
      /\ odirty' = [odirty EXCEPT !["operator"] = FALSE]
      /\ credit' = [credit EXCEPT ![d] = IF op \in known THEN op ELSE @]
      /\ Goto(d, IF credit'[d] = NoUser THEN "dropped" ELSE "ingest")
      /\ UNCHANGED <<db, tcache, tdirty, fallback, notices, dgram, todo, asked, draft, spent, history>>

\* Mutant: nothing checks that a user was resolved.
IngestAnyway(d) ==
  LET op == dgram[d].op
      known == IF odirty["operator"] THEN enabled ELSE ocache
  IN  /\ pc[d] = "operator"
      /\ ocache' = known
      /\ odirty' = [odirty EXCEPT !["operator"] = FALSE]
      /\ credit' = [credit EXCEPT ![d] = IF op \in known THEN op ELSE @]
      /\ Goto(d, IF op # NoUser /\ op \notin known THEN "dropped" ELSE "ingest")
      /\ UNCHANGED <<db, tcache, tdirty, fallback, notices, dgram, todo, asked, draft, spent, history>>

\* operator_cache.resolve for the OPERATOR field, which overrides the rest; the
\* reload of a dirty cache is the same code, one read.  Then the check that
\* some user was resolved.
resolve_operator(d) ==
  LET op == dgram[d].op
      known == IF odirty["operator"] THEN enabled ELSE ocache
  IN  /\ pc[d] = "operator"
      /\ ocache' = known
      /\ odirty' = [odirty EXCEPT !["operator"] = FALSE]
      /\ credit' = [credit EXCEPT ![d] = IF op \in known THEN op ELSE @]
      /\ Goto(d, IF (op # NoUser /\ op \notin known) \/ credit'[d] = NoUser
                 THEN "dropped" ELSE "ingest")
      /\ UNCHANGED <<db, tcache, tdirty, fallback, notices, dgram, todo, asked, draft, spent, history>>

\* The datagram is dropped, or handed to ingest_qso_record (QsoStore's Submit).
Finish(d) ==
  /\ pc[d] \in {"badToken", "dropped", "ingest"}
  /\ Goto(d, "idle")
  /\ dgram' = [dgram EXCEPT ![d] = NoDgram]
  /\ credit' = [credit EXCEPT ![d] = NoUser]
  /\ arrival' = [arrival EXCEPT ![d] = {}]
  /\ UNCHANGED <<db, caches, notices, todo, asked, draft, spent, stale, told, settled, shunned,
                 swept>>

\* A MongoDB read fails: _handle_datagram logs the exception and drops the
\* datagram; the flag stays set.
ReadFails(d) ==
  /\ pc[d] \in {"load", "visit"}
  /\ spent.faults < MaxFaults
  /\ spent' = [spent EXCEPT !.faults = @ + 1]
  /\ Goto(d, "dropped")
  /\ todo' = [todo EXCEPT ![d] = {}]
  /\ asked' = [asked EXCEPT ![d] = NoToken]
  /\ draft' = [draft EXCEPT ![d] = EmptyCache]
  /\ Forget(d)
  /\ UNCHANGED <<db, caches, notices, dgram, credit, told, settled, shunned, swept, arrival>>

\* The operator process restarts: tasks and requests are lost, caches loaded.
Restart ==
  /\ spent.changes < MaxChanges
  /\ spent' = [spent EXCEPT !.changes = @ + 1]
  /\ tcache' = [t \in Token |-> IF token[t] = "active" /\ t \notin lapsed
                             THEN EntryFor(t) ELSE NoUser]
  /\ tdirty' = FALSE
  /\ ocache' = enabled
  /\ odirty' = [odirty EXCEPT !["operator"] = FALSE]
  /\ notices' = {}
  /\ pc' = [d \in Task |-> "idle"]
  /\ dgram' = [d \in Task |-> NoDgram]
  /\ credit' = [d \in Task |-> NoUser]
  /\ todo' = [d \in Task |-> {}]
  /\ asked' = [d \in Task |-> NoToken]
  /\ draft' = [d \in Task |-> EmptyCache]
  /\ stale' = [t \in Token |-> {}]
  /\ told' = Token
  /\ settled' = Token
  /\ shunned' = User \ enabled
  /\ swept' = lapsed
  /\ arrival' = [d \in Task |-> {}]
  /\ UNCHANGED <<db, fallback>>

Handle(d) ==
  \/ resolve_token(d)
  \/ ReadTokens(d)
  \/ token_is_active(d)
  \/ FindUser(d)
  \/ InstallCache(d)
  \/ resolve_operator(d)
  \/ Finish(d)

Next ==
  \/ \E t \in Token : create_token(t) \/ revoke_token(t) \/ notify_refresh(t) \/ Expire(t)
  \/ \E u \in User : set_user_enabled(u)
  \/ \E d \in Task : datagram_received(d) \/ ReadFails(d) \/ Handle(d)
  \/ Restart

Spec == Init /\ [][Next]_vars

-----------------------------------------------------------------------------
(***************************************************************************)
(*                               Properties                                *)
(***************************************************************************)
Labels == {"idle", "token", "load", "visit", "operator", "badToken", "dropped", "ingest"}
Cache == [Token -> User \cup {NoUser}]

\* Type correctness; what is ingested has a user.
TypeOK ==
  /\ enabled \subseteq User
  /\ token \in [Token -> {"none", "active", "revoked"}]
  /\ lapsed \subseteq Token
  /\ tcache \in Cache
  /\ tdirty \in BOOLEAN
  /\ ocache \subseteq User
  /\ odirty \in [Process -> BOOLEAN]
  /\ fallback \in User \cup {NoUser}
  /\ notices \subseteq Token
  /\ pc \in [Task -> Labels]
  /\ dgram \in [Task -> [token: Token \cup {NoToken}, op: User \cup {NoUser, Stranger}]]
  /\ credit \in [Task -> User \cup {NoUser}]
  /\ \A d \in Task : pc[d] = "ingest" => credit[d] # NoUser
  /\ todo \in [Task -> SUBSET Token]
  /\ asked \in [Task -> Token \cup {NoToken}]
  /\ draft \in [Task -> Cache]

Accepted(d) == dgram[d].token # NoToken /\ pc[d] \in {"operator", "ingest"}

\* A revoked token is refused to every datagram that arrives after some
\* notification, its own or another token's, came once the reloads that began
\* before the revocation had ended: whatever reloads race later, none brings
\* the token back.
RevocationSeenLater ==
  \A d \in Task : Accepted(d) => "toldRevoked" \notin arrival[d]

\* The mirror image: after such a notification a token that was created is good
\* for every datagram that arrives, as long as it is neither revoked nor
\* expired and its user has not been disabled.
CreationSeenLater ==
  \A d \in Task : pc[d] = "badToken" =>
    LET t == dgram[d].token IN
    ~("toldCreated" \in arrival[d] /\ token[t] = "active" /\ t \notin lapsed
        /\ Owner[t] \notin shunned)

\* Nothing is notified when a token expires.  The next notification about any
\* token makes up for it: from then on no datagram is accepted with one that
\* had expired, unless a reload under way had already found it active, be its
\* user in the new cache or still to be read.
ExpirySeenLater ==
  \A d \in Task : Accepted(d) => "expired" \notin arrival[d]

(* What is revoked, created or expired takes effect with the first
   notification that meets no reload which had looked before, and no reload
   undoes it. *)
ChangesSeenLater == RevocationSeenLater /\ CreationSeenLater /\ ExpirySeenLater

\* What notify_refresh promises ("triggers lazy reload on next resolve()") of a
\* revocation, reloads in flight or not.
RevocationReaches ==
  \A d \in Task : Accepted(d) => "revoked" \notin arrival[d]

\* A rule that fails never gives way to a weaker one.  A datagram is logged for
\* UDP_OPERATOR only if it bears neither token nor OPERATOR; one that bears a
\* bad token, or that names an OPERATOR who is nobody, is logged for no one.
\* A datagram with both is logged for one of the two they stand for: the guide
\* (docs/operator-guide/udp-adif.md:87) says the token's, the code takes
\* OPERATOR, and this property does not decide between them.
NoWeakerRule ==
  \A d \in Task : pc[d] = "ingest" =>
    LET t == dgram[d].token  op == dgram[d].op IN
    /\ t = NoToken /\ op = NoUser => credit[d] = fallback
    /\ t = NoToken /\ op # NoUser => credit[d] = op
    /\ t # NoToken /\ op = NoUser => credit[d] = Owner[t]
    /\ t # NoToken /\ op # NoUser => op \in User /\ credit[d] \in {Owner[t], op}
=============================================================================
