-------------------------- MODULE UdpRoutingProofs --------------------------
(***************************************************************************)
(* Proofs about UdpRouting, for any users, tokens, datagrams in flight and *)
(* bounds.                                                                 *)
(***************************************************************************)
EXTENDS UdpRouting, TLAPS

Bounded == spent \in [changes: 0..MaxChanges, faults: 0..MaxFaults]

History ==
  /\ stale \in [Token -> SUBSET Task]
  /\ told \subseteq Token
  /\ settled \subseteq Token
  /\ shunned \subseteq User
  /\ swept \subseteq Token
  /\ arrival \in [Task -> SUBSET {"revoked", "toldRevoked", "toldCreated", "expired"}]

\* Both caches and every draft say of a token what its owner is, or nothing.
Truthful ==
  /\ \A t \in Token : tcache[t] \in {NoUser, Owner[t]}
  /\ \A d \in Task, t \in Token : draft[d][t] \in {NoUser, Owner[t]}

\* A task that is not reloading has nothing of a reload.
NoLeftovers == \A d \in Task :
  pc[d] # "visit" => todo[d] = {} /\ asked[d] = NoToken /\ draft[d] = EmptyCache

TypeInv == TypeOK /\ Bounded /\ History /\ Truthful /\ NoLeftovers

-----------------------------------------------------------------------------
LEMMA EntryIsOwner ==
  ASSUME NEW t \in Token
  PROVE  EntryFor(t) \in {NoUser, Owner[t]} /\ EntryFor(t) \in User \cup {NoUser}
  BY RoutingAssumption DEF EntryFor

LEMMA EmptyIsCache == EmptyCache \in Cache /\ \A t \in Token : EmptyCache[t] = NoUser
  BY DEF EmptyCache, Cache

LEMMA KnownTyped ==
  ASSUME NEW t
  PROVE  Known(t) \in SUBSET {"revoked", "toldRevoked", "toldCreated", "expired"}
  BY DEF Known

LEMMA GotoTyped ==
  ASSUME pc \in [Task -> Labels], NEW d \in Task, NEW label \in Labels, Goto(d, label)
  PROVE  pc' \in [Task -> Labels]
  BY DEF Goto

LEMMA AnsweredTyped ==
  ASSUME TypeInv, NEW d \in Task, NEW cache \in Cache, dgram[d].token # NoToken,
         pc[d] # "ingest", Answered(d, cache)
  PROVE  /\ pc' \in [Task -> Labels]
         /\ credit' \in [Task -> User \cup {NoUser}]
         /\ \A e \in Task : pc'[e] = "ingest" => credit'[e] # NoUser
         /\ pc'[d] # "visit"
         /\ \A e \in Task \ {d} : pc'[e] = pc[e]
  <1>1. dgram[d].token \in Token
    BY DEF TypeInv, TypeOK
  <1>2. cache[dgram[d].token] \in User \cup {NoUser}
    BY <1>1 DEF Cache
  <1> QED
    BY <1>2 DEF Answered, Goto, TypeInv, TypeOK, Labels

\* A step that is about tokens, users or the cache's flag only.
LEMMA DatabaseStepTyped ==
  ASSUME TypeInv, Bounded', UNCHANGED <<tcache, ocache, fallback, task, arrival>>,
         enabled' \subseteq User, token' \in [Token -> {"none", "active", "revoked"}],
         lapsed' \subseteq Token, tdirty' \in BOOLEAN, odirty' \in [Process -> BOOLEAN],
         notices' \subseteq Token, stale' \in [Token -> SUBSET Task], told' \subseteq Token, settled' \subseteq Token,
         shunned' \subseteq User, swept' \subseteq Token
  PROVE  TypeInv'
  BY DEF TypeInv, TypeOK, History, Truthful, NoLeftovers, EmptyCache, task

LEMMA TokenStepTyped ==
  ASSUME TypeInv, NEW t \in Token,
         create_token(t) \/ revoke_token(t) \/ notify_refresh(t) \/ Expire(t)
  PROVE  TypeInv'
  <1>1. Bounded' /\ UNCHANGED <<tcache, ocache, fallback, task, arrival>>
    BY DEF TypeInv, Bounded, create_token, revoke_token, WriteToken, notify_refresh, Expire,
           caches, history
  <1>2. CASE create_token(t) \/ revoke_token(t)
    <2>1. /\ enabled' \subseteq User /\ token' \in [Token -> {"none", "active", "revoked"}]
          /\ lapsed' \subseteq Token /\ tdirty' \in BOOLEAN /\ odirty' \in [Process -> BOOLEAN]
          /\ notices' \subseteq Token /\ told' \subseteq Token /\ settled' \subseteq Token
          /\ shunned' \subseteq User /\ swept' \subseteq Token
      BY <1>2 DEF TypeInv, TypeOK, History, create_token, revoke_token, WriteToken, caches
    <2>2. stale' \in [Token -> SUBSET Task]
      BY <1>2 DEF TypeInv, History, create_token, revoke_token, WriteToken, Reloads
    <2> QED
      BY <1>1, <2>1, <2>2, DatabaseStepTyped
  <1>3. CASE notify_refresh(t) \/ Expire(t)
    <2>1. /\ enabled' \subseteq User /\ token' \in [Token -> {"none", "active", "revoked"}]
          /\ lapsed' \subseteq Token /\ tdirty' \in BOOLEAN /\ odirty' \in [Process -> BOOLEAN]
          /\ notices' \subseteq Token /\ stale' \in [Token -> SUBSET Task] /\ told' \subseteq Token
          /\ settled' \subseteq Token /\ shunned' \subseteq User /\ swept' \subseteq Token
      BY <1>3 DEF TypeInv, TypeOK, History, notify_refresh, Expire, caches, history, db
    <2> QED
      BY <1>1, <2>1, DatabaseStepTyped
  <1> QED
    BY <1>2, <1>3

LEMMA UserStepTyped ==
  ASSUME TypeInv, NEW u \in User, set_user_enabled(u)
  PROVE  TypeInv'
  <1>1. Bounded'
    BY RoutingAssumption DEF TypeInv, Bounded, set_user_enabled
  <1>2. /\ enabled' \subseteq User /\ odirty' \in [Process -> BOOLEAN] /\ shunned' \subseteq User
    BY DEF TypeInv, TypeOK, History, set_user_enabled
  <1> QED
    BY <1>1, <1>2, DatabaseStepTyped DEF TypeInv, TypeOK, History, set_user_enabled

LEMMA ArriveTyped ==
  ASSUME TypeInv, NEW d \in Task, datagram_received(d)
  PROVE  TypeInv'
  <1>1. PICK t \in Token \cup {NoToken}, op \in User \cup {NoUser, Stranger} :
          /\ dgram' = [dgram EXCEPT ![d] = [token |-> t, op |-> op]]
          /\ arrival' = [arrival EXCEPT ![d] = Known(t)]
    BY DEF datagram_received
  <1>2. dgram' \in [Task -> [token: Token \cup {NoToken}, op: User \cup {NoUser, Stranger}]]
    BY <1>1 DEF TypeInv, TypeOK
  <1>3. arrival' \in [Task -> SUBSET {"revoked", "toldRevoked", "toldCreated", "expired"}]
    BY <1>1, KnownTyped DEF TypeInv, History
  <1>4. /\ pc' \in [Task -> Labels] /\ credit' \in [Task -> User \cup {NoUser}]
        /\ \A e \in Task : pc'[e] \in {"ingest", "visit"} =>
                             pc'[e] = pc[e] /\ credit'[e] = credit[e]
        /\ \A e \in Task : pc'[e] # "visit" => pc[e] # "visit"
    BY DEF datagram_received, Goto, TypeInv, TypeOK, Labels
  <1>5. Bounded' /\ Truthful'
    BY DEF datagram_received, caches, TypeInv, Bounded, Truthful
  <1>6. NoLeftovers'
    BY <1>4 DEF datagram_received, TypeInv, NoLeftovers, EmptyCache
  <1> QED
    BY <1>2, <1>3, <1>4, <1>5, <1>6
    DEF datagram_received, db, caches, TypeInv, TypeOK, History

LEMMA ResolveTokenTyped ==
  ASSUME TypeInv, NEW d \in Task, resolve_token(d)
  PROVE  TypeInv'
  <1>1. /\ pc' \in [Task -> Labels]
        /\ credit' \in [Task -> User \cup {NoUser}]
        /\ \A e \in Task : pc'[e] = "ingest" => credit'[e] # NoUser
        /\ pc'[d] # "visit"
        /\ \A e \in Task \ {d} : pc'[e] = pc[e]
    <2>1. CASE UNCHANGED credit /\ (Goto(d, "operator") \/ Goto(d, "load"))
      BY <2>1 DEF Goto, TypeInv, TypeOK, Labels
    <2>2. CASE dgram[d].token # NoToken /\ Answered(d, tcache)
      BY <2>2, AnsweredTyped DEF resolve_token, TypeInv, TypeOK
    <2> QED
      BY <2>1, <2>2 DEF resolve_token
  <1>2. NoLeftovers' /\ Truthful' /\ Bounded' /\ History'
    BY <1>1 DEF resolve_token, caches, history, TypeInv, NoLeftovers, EmptyCache, Truthful,
                Bounded, History
  <1> QED
    BY <1>1, <1>2 DEF resolve_token, db, caches, TypeInv, TypeOK

LEMMA ReadTokensTyped ==
  ASSUME TypeInv, NEW d \in Task, ReadTokens(d)
  PROVE  TypeInv'
  <1>1. /\ pc' \in [Task -> Labels]
        /\ todo' \in [Task -> SUBSET Token]
        /\ draft' \in [Task -> Cache]
    BY EmptyIsCache DEF ReadTokens, Goto, TypeInv, TypeOK, Labels
  <1>2. Truthful'
    BY EmptyIsCache DEF ReadTokens, caches, TypeInv, TypeOK, Truthful
  <1>3. NoLeftovers' /\ \A e \in Task : pc'[e] = "ingest" => pc[e] = "ingest"
    BY DEF ReadTokens, Goto, TypeInv, TypeOK, NoLeftovers, EmptyCache
  <1>4. Bounded' /\ History'
    BY DEF ReadTokens, history, TypeInv, Bounded, History
  <1> QED
    BY <1>1, <1>2, <1>3, <1>4 DEF ReadTokens, db, caches, TypeInv, TypeOK

LEMMA CheckTyped ==
  ASSUME TypeInv, NEW d \in Task, token_is_active(d)
  PROVE  TypeInv'
  <1>1. PICK t \in todo[d] : /\ todo' = [todo EXCEPT ![d] = @ \ {t}]
                             /\ asked' = [asked EXCEPT ![d] = IF t \in lapsed THEN NoToken ELSE t]
    BY DEF token_is_active
  <1>2. t \in Token
    BY <1>1 DEF TypeInv, TypeOK
  <1>3. todo' \in [Task -> SUBSET Token] /\ asked' \in [Task -> Token \cup {NoToken}]
    BY <1>1, <1>2 DEF TypeInv, TypeOK
  <1>4. NoLeftovers'
    BY <1>1 DEF token_is_active, TypeInv, TypeOK, NoLeftovers, EmptyCache
  <1>5. Truthful' /\ Bounded' /\ History'
    BY DEF token_is_active, caches, history, TypeInv, Truthful, Bounded, History
  <1> QED
    BY <1>3, <1>4, <1>5 DEF token_is_active, db, caches, TypeInv, TypeOK

LEMMA FindUserTyped ==
  ASSUME TypeInv, NEW d \in Task, FindUser(d)
  PROVE  TypeInv'
  <1>1. /\ asked[d] \in Token
        /\ draft' = [draft EXCEPT ![d][asked[d]] = EntryFor(asked[d])]
    BY DEF FindUser, TypeInv, TypeOK
  <1>2. asked' \in [Task -> Token \cup {NoToken}] /\ draft' \in [Task -> Cache]
    BY <1>1, EntryIsOwner DEF FindUser, TypeInv, TypeOK, Cache
  <1>3. Truthful'
    BY <1>1, EntryIsOwner DEF FindUser, caches, TypeInv, TypeOK, Truthful, Cache
  <1>4. NoLeftovers'
    BY <1>1 DEF FindUser, TypeInv, TypeOK, NoLeftovers, EmptyCache
  <1>5. Bounded' /\ History'
    BY DEF FindUser, history, TypeInv, Bounded, History
  <1> QED
    BY <1>2, <1>3, <1>4, <1>5 DEF FindUser, db, caches, TypeInv, TypeOK

\* Only a datagram with a token reloads the cache.
Reloaders == \A d \in Task : pc[d] \in {"load", "visit", "badToken"} => dgram[d].token # NoToken

LEMMA InstallTyped ==
  ASSUME TypeInv, Reloaders, NEW d \in Task, InstallCache(d)
  PROVE  TypeInv'
  <1>1. draft[d] \in Cache /\ dgram[d].token # NoToken /\ pc[d] # "ingest"
    BY DEF InstallCache, Reloaders, TypeInv, TypeOK
  <1>2. /\ pc' \in [Task -> Labels]
        /\ credit' \in [Task -> User \cup {NoUser}]
        /\ \A e \in Task : pc'[e] = "ingest" => credit'[e] # NoUser
        /\ pc'[d] # "visit"
        /\ \A e \in Task \ {d} : pc'[e] = pc[e]
    BY <1>1, AnsweredTyped DEF InstallCache
  <1>3. tcache' \in Cache /\ draft' \in [Task -> Cache]
    BY <1>1, EmptyIsCache DEF InstallCache, TypeInv, TypeOK
  <1>4. Truthful'
    BY EmptyIsCache DEF InstallCache, TypeInv, TypeOK, Truthful
  <1>5. NoLeftovers'
    BY <1>2 DEF InstallCache, TypeInv, TypeOK, NoLeftovers, EmptyCache
  <1>6. Bounded' /\ History'
    BY DEF InstallCache, Forget, TypeInv, Bounded, History
  <1> QED
    BY <1>2, <1>3, <1>4, <1>5, <1>6 DEF InstallCache, db, TypeInv, TypeOK

LEMMA ResolveOperatorTyped ==
  ASSUME TypeInv, NEW d \in Task, resolve_operator(d)
  PROVE  TypeInv'
  <1> DEFINE known == IF odirty["operator"] THEN enabled ELSE ocache
  <1>1. ocache' \subseteq User /\ odirty' \in [Process -> BOOLEAN]
    BY DEF resolve_operator, TypeInv, TypeOK
  <1>2. known \subseteq User
    BY DEF TypeInv, TypeOK
  <1>3. credit' \in [Task -> User \cup {NoUser}]
    BY <1>2 DEF resolve_operator, TypeInv, TypeOK
  <1>4. /\ pc' \in [Task -> Labels]
        /\ pc'[d] = "ingest" => credit'[d] # NoUser
        /\ pc'[d] # "visit"
        /\ \A e \in Task \ {d} : pc'[e] = pc[e] /\ credit'[e] = credit[e]
    BY DEF resolve_operator, Goto, TypeInv, TypeOK, Labels
  <1>5. Truthful' /\ Bounded' /\ History'
    BY DEF resolve_operator, history, TypeInv, Truthful, Bounded, History
  <1>6. NoLeftovers'
    BY <1>4 DEF resolve_operator, TypeInv, NoLeftovers, EmptyCache
  <1> QED
    BY <1>1, <1>3, <1>4, <1>5, <1>6 DEF resolve_operator, db, TypeInv, TypeOK

LEMMA FinishTyped ==
  ASSUME TypeInv, NEW d \in Task, Finish(d)
  PROVE  TypeInv'
  <1>1. /\ pc' \in [Task -> Labels]
        /\ dgram' \in [Task -> [token: Token \cup {NoToken}, op: User \cup {NoUser, Stranger}]]
        /\ credit' \in [Task -> User \cup {NoUser}]
        /\ arrival' \in [Task -> SUBSET {"revoked", "toldRevoked", "toldCreated", "expired"}]
    BY DEF Finish, Goto, NoDgram, TypeInv, TypeOK, History, Labels
  <1>2. \A e \in Task : pc'[e] # "idle" => pc'[e] = pc[e] /\ credit'[e] = credit[e]
    BY DEF Finish, Goto, TypeInv, TypeOK
  <1>3. NoLeftovers' /\ Truthful' /\ Bounded'
    BY DEF Finish, Goto, caches, TypeInv, TypeOK, NoLeftovers, EmptyCache, Truthful, Bounded
  <1> QED
    BY <1>1, <1>2, <1>3 DEF Finish, db, caches, TypeInv, TypeOK, History

LEMMA ReadFailsTyped ==
  ASSUME TypeInv, NEW d \in Task, ReadFails(d)
  PROVE  TypeInv'
  <1>1. Bounded'
    BY RoutingAssumption DEF ReadFails, TypeInv, Bounded
  <1>2. /\ pc' \in [Task -> Labels]
        /\ todo' \in [Task -> SUBSET Token] /\ asked' \in [Task -> Token \cup {NoToken}]
        /\ draft' \in [Task -> Cache]
    BY EmptyIsCache DEF ReadFails, Goto, TypeInv, TypeOK, Labels
  <1>3. \A e \in Task : pc'[e] # "dropped" => pc'[e] = pc[e]
    BY DEF ReadFails, Goto, TypeInv, TypeOK
  <1>4. NoLeftovers'
    BY DEF ReadFails, Goto, TypeInv, TypeOK, NoLeftovers, EmptyCache
  <1>5. Truthful'
    BY EmptyIsCache DEF ReadFails, caches, TypeInv, TypeOK, Truthful
  <1> QED
    BY <1>1, <1>2, <1>3, <1>4, <1>5
    DEF ReadFails, Forget, db, caches, TypeInv, TypeOK, History

LEMMA RestartTyped == ASSUME TypeInv, Restart PROVE TypeInv'
  <1>1. Bounded'
    BY RoutingAssumption DEF Restart, TypeInv, Bounded
  <1>2. tcache' \in Cache /\ \A t \in Token : tcache'[t] \in {NoUser, Owner[t]}
    BY EntryIsOwner DEF Restart, Cache
  <1>3. draft' \in [Task -> Cache] /\ \A d \in Task, t \in Token : draft'[d][t] = NoUser
    BY EmptyIsCache DEF Restart
  <1>4. /\ pc' \in [Task -> Labels] /\ todo' \in [Task -> SUBSET Token]
        /\ dgram' \in [Task -> [token: Token \cup {NoToken}, op: User \cup {NoUser, Stranger}]]
        /\ credit' \in [Task -> User \cup {NoUser}]
        /\ asked' \in [Task -> Token \cup {NoToken}]
        /\ \A d \in Task : pc'[d] = "idle" /\ todo'[d] = {} /\ asked'[d] = NoToken
                             /\ draft'[d] = EmptyCache
    BY DEF Restart, NoDgram, Labels
  <1>5. History'
    BY DEF Restart, History, TypeInv, TypeOK
  <1>6. /\ enabled' \subseteq User /\ token' \in [Token -> {"none", "active", "revoked"}]
        /\ lapsed' \subseteq Token /\ ocache' \subseteq User /\ tdirty' \in BOOLEAN
        /\ odirty' \in [Process -> BOOLEAN] /\ fallback' \in User \cup {NoUser}
        /\ notices' \subseteq Token
    BY DEF Restart, db, TypeInv, TypeOK
  <1>7. NoLeftovers'
    BY <1>4 DEF NoLeftovers, EmptyCache
  <1> QED
    BY <1>1, <1>2, <1>3, <1>4, <1>5, <1>6, <1>7 DEF TypeInv, TypeOK, Truthful

LEMMA ReloadersStep == ASSUME TypeInv, Reloaders, [Next]_vars PROVE Reloaders'
  <1> USE DEF Reloaders, TypeInv, TypeOK
  <1>1. CASE \E t \in Token : create_token(t) \/ revoke_token(t) \/ notify_refresh(t) \/ Expire(t)
    BY <1>1 DEF create_token, revoke_token, WriteToken, notify_refresh, Expire, task
  <1>2. CASE \E u \in User : set_user_enabled(u)
    BY <1>2 DEF set_user_enabled, task
  <1>3. ASSUME NEW d \in Task, datagram_received(d) \/ Finish(d) \/ ReadFails(d)
        PROVE  Reloaders'
    BY <1>3 DEF datagram_received, Finish, ReadFails, Goto
  <1>4. ASSUME NEW d \in Task, resolve_token(d) \/ InstallCache(d)
        PROVE  Reloaders'
    BY <1>4 DEF resolve_token, InstallCache, Answered, Goto
  <1>5. ASSUME NEW d \in Task, ReadTokens(d) \/ token_is_active(d) \/ FindUser(d) \/ resolve_operator(d)
        PROVE  Reloaders'
    BY <1>5 DEF ReadTokens, token_is_active, FindUser, resolve_operator, Goto
  <1>6. CASE Restart
    BY <1>6 DEF Restart
  <1>7. CASE UNCHANGED vars
    BY <1>7 DEF vars
  <1> QED
    BY <1>1, <1>2, <1>3, <1>4, <1>5, <1>6, <1>7 DEF Next, Handle

Sound == TypeInv /\ Reloaders

LEMMA InitSound == Init => Sound
  <1> SUFFICES ASSUME Init PROVE Sound
    OBVIOUS
  <1>1. TypeOK
    <2>1. enabled \subseteq User /\ ocache \subseteq User /\ fallback \in User \cup {NoUser}
      BY DEF Init
    <2>2. odirty \in [Process -> BOOLEAN]
      BY DEF Init, Process
    <2>3. tcache \in Cache /\ draft \in [Task -> Cache]
      BY EmptyIsCache DEF Init
    <2> QED
      BY <2>1, <2>2, <2>3 DEF Init, TypeOK, Labels, NoDgram
  <1>2. Bounded /\ History
    BY RoutingAssumption DEF Init, Bounded, History
  <1>3. Truthful /\ NoLeftovers /\ Reloaders
    BY EmptyIsCache DEF Init, Truthful, NoLeftovers, Reloaders
  <1> QED
    BY <1>1, <1>2, <1>3 DEF Sound, TypeInv

LEMMA SoundStep == ASSUME Sound, [Next]_vars PROVE Sound'
  <1>1. CASE UNCHANGED vars
    BY <1>1 DEF vars, Sound, TypeInv, TypeOK, Bounded, History, Truthful, NoLeftovers, EmptyCache,
                Reloaders
  <1> QED
    BY <1>1, ReloadersStep, TokenStepTyped, UserStepTyped, ArriveTyped, ResolveTokenTyped,
       ReadTokensTyped, CheckTyped, FindUserTyped, InstallTyped, ResolveOperatorTyped, FinishTyped,
       ReadFailsTyped, RestartTyped
    DEF Sound, Next, Handle

LEMMA AlwaysSound == Spec => []Sound
  BY InitSound, SoundStep, PTL DEF Spec

\* Type correctness, and that no datagram is ingested without a user.
THEOREM TypeCorrect == Spec => []TypeOK
  <1>1. Sound => TypeOK
    BY DEF Sound, TypeInv
  <1> QED
    BY AlwaysSound, <1>1, PTL

-----------------------------------------------------------------------------
(***************************************************************************)
(* Who is credited.  Until its OPERATOR field is looked up a datagram is   *)
(* credited to UDP_OPERATOR, and from its token's answer on to the owner.  *)
(***************************************************************************)
ByToken(d) == IF dgram[d].token # NoToken THEN Owner[dgram[d].token] ELSE fallback

CreditSoFar == \A d \in Task :
  /\ pc[d] \in {"token", "load", "visit"} => credit[d] = fallback
  /\ pc[d] = "operator" => credit[d] = ByToken(d)

CreditInv == CreditSoFar /\ NoWeakerRule

\* A step that leaves what a datagram is and is credited with alone.
LEMMA CreditByLess ==
  ASSUME CreditInv, UNCHANGED fallback,
         \A d \in Task : \/ pc'[d] \notin {"token", "load", "visit", "operator", "ingest"}
                         \/ /\ dgram'[d] = dgram[d] /\ credit'[d] = credit[d]
                            /\ \/ pc'[d] = pc[d]
                               \/ /\ pc[d] \in {"token", "load", "visit"}
                                  /\ pc'[d] \in {"token", "load", "visit"}
                               \/ /\ pc[d] = "token" /\ pc'[d] = "operator"
                                  /\ dgram[d].token = NoToken
  PROVE  CreditInv'
  BY DEF CreditInv, CreditSoFar, NoWeakerRule, ByToken

\* The answer of a cache for the token of d.
LEMMA CreditByAnswer ==
  ASSUME Sound, CreditInv, UNCHANGED <<dgram, fallback>>, NEW d \in Task, NEW cache,
         pc[d] \in {"token", "visit"}, dgram[d].token # NoToken,
         cache[dgram[d].token] \in {NoUser, Owner[dgram[d].token]}, Answered(d, cache)
  PROVE  CreditInv'
  <1>1. \A e \in Task \ {d} : pc'[e] = pc[e] /\ credit'[e] = credit[e]
    BY DEF Answered, Goto, Sound, TypeInv, TypeOK
  <1>2. \/ pc'[d] = "badToken"
        \/ pc'[d] = "operator" /\ credit'[d] = Owner[dgram[d].token]
    BY DEF Answered, Goto, Sound, TypeInv, TypeOK
  <1> QED
    BY <1>1, <1>2 DEF CreditInv, CreditSoFar, NoWeakerRule, ByToken

LEMMA CreditStep ==
  ASSUME Sound, CreditInv, [Next]_vars
  PROVE  CreditInv'
  <1> USE DEF Sound, TypeInv, TypeOK
  <1>1. CASE \E t \in Token : create_token(t) \/ revoke_token(t) \/ notify_refresh(t) \/ Expire(t)
    BY <1>1, CreditByLess
    DEF create_token, revoke_token, WriteToken, notify_refresh, Expire, task, caches
  <1>2. CASE \E u \in User : set_user_enabled(u)
    BY <1>2, CreditByLess DEF set_user_enabled, task
  <1>3. ASSUME NEW d \in Task, datagram_received(d)
        PROVE  CreditInv'
    <2>1. /\ pc'[d] = "token" /\ credit'[d] = fallback /\ fallback' = fallback
          /\ \A e \in Task \ {d} : pc'[e] = pc[e] /\ credit'[e] = credit[e] /\ dgram'[e] = dgram[e]
      BY <1>3 DEF datagram_received, Goto, caches
    <2> QED
      BY <2>1 DEF CreditInv, CreditSoFar, NoWeakerRule, ByToken
  <1>4. ASSUME NEW d \in Task, resolve_token(d)
        PROVE  CreditInv'
    <2>1. CASE UNCHANGED credit
      <3>1. \/ Goto(d, "operator") /\ dgram[d].token = NoToken
            \/ Goto(d, "load")
            \/ Goto(d, "badToken")
            \/ dgram[d].token # NoToken /\ Answered(d, tcache)
        BY <1>4 DEF resolve_token
      <3>2. CASE dgram[d].token # NoToken /\ Answered(d, tcache)
        BY <1>4, <3>2, CreditByAnswer DEF resolve_token, Truthful, caches
      <3>3. CASE ~(dgram[d].token # NoToken /\ Answered(d, tcache))
        BY <1>4, <2>1, <3>1, <3>3, CreditByLess DEF resolve_token, Goto, caches
      <3> QED
        BY <3>2, <3>3
    <2>2. CASE dgram[d].token # NoToken /\ Answered(d, tcache)
      BY <1>4, <2>2, CreditByAnswer DEF resolve_token, Truthful, caches
    <2> QED
      BY <1>4, <2>1, <2>2 DEF resolve_token
  <1>5. ASSUME NEW d \in Task, ReadTokens(d) \/ token_is_active(d) \/ FindUser(d)
        PROVE  CreditInv'
    BY <1>5, CreditByLess DEF ReadTokens, token_is_active, FindUser, Goto, caches
  <1>6. ASSUME NEW d \in Task, InstallCache(d)
        PROVE  CreditInv'
    <2>1. dgram[d].token \in Token /\ draft[d][dgram[d].token] \in {NoUser, Owner[dgram[d].token]}
      BY <1>6 DEF InstallCache, Truthful, Reloaders
    <2> QED
      BY <1>6, <2>1, CreditByAnswer DEF InstallCache, Reloaders
  <1>7. ASSUME NEW d \in Task, resolve_operator(d)
        PROVE  CreditInv'
    <2> DEFINE op == dgram[d].op
               known == IF odirty["operator"] THEN enabled ELSE ocache
    <2>1. /\ pc[d] = "operator" /\ UNCHANGED <<dgram, fallback>>
          /\ \A e \in Task \ {d} : pc'[e] = pc[e] /\ credit'[e] = credit[e]
          /\ credit'[d] = IF op \in known THEN op ELSE credit[d]
          /\ pc'[d] = IF (op # NoUser /\ op \notin known) \/ credit'[d] = NoUser
                      THEN "dropped" ELSE "ingest"
      BY <1>7 DEF resolve_operator, Goto
    <2>2. NoUser \notin known /\ known \subseteq User
      BY RoutingAssumption
    <2>3. credit[d] = ByToken(d)
      BY <2>1 DEF CreditInv, CreditSoFar
    <2>4. pc'[d] = "ingest" => /\ credit'[d] = IF op # NoUser THEN op ELSE ByToken(d)
                               /\ op # NoUser => op \in User
      BY <2>1, <2>2, <2>3
    <2> QED
      BY <2>1, <2>4 DEF CreditInv, CreditSoFar, NoWeakerRule, ByToken
  <1>8. ASSUME NEW d \in Task, Finish(d) \/ ReadFails(d)
        PROVE  CreditInv'
    BY <1>8, CreditByLess DEF Finish, ReadFails, Goto, caches
  <1>9. CASE Restart
    BY <1>9, CreditByLess DEF Restart
  <1>10. CASE UNCHANGED vars
    BY <1>10, CreditByLess DEF vars
  <1> QED
    BY <1>1, <1>2, <1>3, <1>4, <1>5, <1>6, <1>7, <1>8, <1>9, <1>10 DEF Next, Handle

\* A bad token or an unknown OPERATOR leaves a datagram with nobody to be logged
\* for, and UDP_OPERATOR is taken only when it bears neither, whatever reloads
\* and changes fall between the lookups.
THEOREM NoWeakerRuleIsTaken == Spec => []NoWeakerRule
  <1>1. Init => CreditInv
    BY DEF Init, CreditInv, CreditSoFar, NoWeakerRule
  <1>2. Sound /\ CreditInv /\ [Next]_vars => CreditInv'
    BY CreditStep
  <1>3. CreditInv => NoWeakerRule
    BY DEF CreditInv
  <1> QED
    BY AlwaysSound, <1>1, <1>2, <1>3, PTL DEF Spec

-----------------------------------------------------------------------------
(***************************************************************************)
(* Revocations.  A token that is revoked is in no reload but those that    *)
(* began before it was, and once a notification has met none of these the  *)
(* next lookup reloads or the cache has been without the token already.    *)
(***************************************************************************)
Without(d, t) == t \notin todo[d] /\ asked[d] # t /\ draft[d][t] = NoUser

RevokedGone == \A t \in Token : token[t] = "revoked" =>
  /\ \A d \in Task \ stale[t] : Without(d, t)
  /\ t \in told => stale[t] = {} /\ (tdirty \/ tcache[t] = NoUser)

RevokedKnown == \A d \in Task : "toldRevoked" \in arrival[d] =>
  /\ dgram[d].token \in told
  /\ token[dgram[d].token] = "revoked"
  /\ pc[d] \notin {"operator", "ingest"}

RevokedInv == RevokedGone /\ RevokedKnown

\* A step that writes no token, puts none in a reload that was without it, and
\* has no answer of a cache but NoUser for one known to be revoked.
LEMMA RevokedByLess ==
  ASSUME Sound, RevokedInv, UNCHANGED <<token, told>>,
         \A t \in Token : token[t] = "revoked" =>
           /\ stale'[t] \subseteq stale[t]
           /\ \A d \in Task \ stale'[t] : Without(d, t)'
           /\ t \in told => tdirty' \/ tcache'[t] = NoUser,
         \A d \in Task : "toldRevoked" \in arrival'[d] =>
           /\ "toldRevoked" \in arrival[d]
           /\ dgram'[d] = dgram[d]
           /\ pc'[d] \in {"operator", "ingest"} => pc[d] \in {"operator", "ingest"}
  PROVE  RevokedInv'
  <1>1. RevokedGone'
    BY DEF RevokedInv, RevokedGone
  <1>2. RevokedKnown'
    BY DEF RevokedInv, RevokedKnown
  <1> QED
    BY <1>1, <1>2 DEF RevokedInv

\* A step that touches neither tokens, reloads nor the cache.
LEMMA RevokedByOther ==
  ASSUME Sound, RevokedInv, UNCHANGED <<token, told, stale, todo, asked, draft, tcache, tdirty>>,
         \A d \in Task : "toldRevoked" \in arrival'[d] =>
           /\ "toldRevoked" \in arrival[d]
           /\ dgram'[d] = dgram[d]
           /\ pc'[d] \in {"operator", "ingest"} => pc[d] \in {"operator", "ingest"}
  PROVE  RevokedInv'
  <1>1. \A t \in Token : token[t] = "revoked" =>
          /\ \A d \in Task \ stale'[t] : Without(d, t)'
          /\ t \in told => tdirty' \/ tcache'[t] = NoUser
    BY DEF RevokedInv, RevokedGone, Without
  <1> QED
    BY <1>1, RevokedByLess

\* The answer of a cache.
LEMMA RevokedAnswer ==
  ASSUME Sound, RevokedInv, NEW d \in Task, NEW cache, Answered(d, cache),
         \A t \in Token : token[t] = "revoked" /\ t \in told => cache[t] = NoUser
  PROVE  \A e \in Task : "toldRevoked" \in arrival[e] =>
           (pc'[e] \in {"operator", "ingest"} => pc[e] \in {"operator", "ingest"})
  <1>1. \A e \in Task \ {d} : pc'[e] = pc[e]
    BY DEF Answered, Goto, Sound, TypeInv, TypeOK
  <1>2. "toldRevoked" \in arrival[d] => cache[dgram[d].token] = NoUser
    BY DEF RevokedInv, RevokedKnown, Sound, TypeInv, History
  <1>3. cache[dgram[d].token] = NoUser => pc'[d] = "badToken"
    BY DEF Answered, Goto, Sound, TypeInv, TypeOK
  <1> QED
    BY <1>1, <1>2, <1>3

LEMMA RevokedByWrite ==
  ASSUME Sound, RevokedInv, NEW t \in Token, create_token(t) \/ revoke_token(t)
  PROVE  RevokedInv'
  <1>1. /\ UNCHANGED <<tcache, tdirty, pc, dgram, todo, asked, draft, arrival>>
        /\ token[t] # "revoked"
        /\ \A e \in Token \ {t} : token'[e] = token[e] /\ stale'[e] = stale[e]
        /\ told' = told \ {t} /\ stale'[t] = Reloads
    BY DEF create_token, revoke_token, WriteToken, caches, task, Sound, TypeInv, TypeOK, History
  <1>2. told \subseteq Token
    BY DEF Sound, TypeInv, History
  <1>3. \A d \in Task \ Reloads : Without(d, t)
    BY RoutingAssumption, EmptyIsCache DEF Reloads, Without, Sound, TypeInv, NoLeftovers
  <1>4. RevokedGone'
    <2> SUFFICES ASSUME NEW s \in Token, token'[s] = "revoked"
                 PROVE  /\ \A d \in Task \ stale'[s] : Without(d, s)'
                        /\ s \in told' => stale'[s] = {} /\ (tdirty' \/ tcache'[s] = NoUser)
      BY DEF RevokedGone
    <2>1. CASE s = t
      BY <1>1, <1>3, <2>1 DEF Without
    <2>2. CASE s # t
      BY <1>1, <2>2 DEF RevokedInv, RevokedGone, Without
    <2> QED
      BY <2>1, <2>2
  <1>5. RevokedKnown'
    BY <1>1, <1>2 DEF RevokedInv, RevokedKnown
  <1> QED
    BY <1>4, <1>5 DEF RevokedInv

LEMMA RevokedByArrival ==
  ASSUME Sound, RevokedInv, NEW d \in Task, datagram_received(d)
  PROVE  RevokedInv'
  <1>1. PICK t \in Token \cup {NoToken}, op \in User \cup {NoUser, Stranger} :
          /\ dgram' = [dgram EXCEPT ![d] = [token |-> t, op |-> op]]
          /\ arrival' = [arrival EXCEPT ![d] = Known(t)]
    BY DEF datagram_received
  <1>2. dgram'[d].token = t /\ arrival'[d] = Known(t) /\ pc'[d] = "token"
    BY <1>1 DEF datagram_received, Goto, Sound, TypeInv, TypeOK, History
  <1>3. \A e \in Task \ {d} : dgram'[e] = dgram[e] /\ arrival'[e] = arrival[e] /\ pc'[e] = pc[e]
    BY <1>1 DEF datagram_received, Goto, Sound, TypeInv, TypeOK, History
  <1>4. UNCHANGED <<token, tcache, tdirty, todo, asked, draft, stale, told>>
    BY DEF datagram_received, db, caches
  <1>5. "toldRevoked" \in Known(t) => t \in told /\ token[t] = "revoked"
    BY DEF Known
  <1>6. RevokedGone'
    BY <1>4 DEF RevokedInv, RevokedGone, Without
  <1>7. RevokedKnown'
    BY <1>2, <1>3, <1>4, <1>5 DEF RevokedInv, RevokedKnown
  <1> QED
    BY <1>6, <1>7 DEF RevokedInv

\* A reload that reads on finds no revoked token it did not have.
LEMMA RevokedByReload ==
  ASSUME Sound, RevokedInv, NEW d \in Task, ReadTokens(d) \/ token_is_active(d) \/ FindUser(d)
  PROVE  RevokedInv'
  <1>1. UNCHANGED <<token, tcache, tdirty, stale, told, dgram, arrival>>
    BY DEF ReadTokens, token_is_active, FindUser, db, caches, history
  <1>2. ASSUME NEW t \in Token, token[t] = "revoked", NEW e \in Task, Without(e, t)
        PROVE  Without(e, t)'
    <2>1. CASE e # d
      BY <1>2, <2>1 DEF ReadTokens, token_is_active, FindUser, Without, Sound, TypeInv, TypeOK
    <2>2. CASE e = d /\ ReadTokens(d)
      BY <1>2, <2>2, EmptyIsCache DEF ReadTokens, Without, Sound, TypeInv, TypeOK
    <2>3. CASE e = d /\ token_is_active(d)
      <3>1. PICK s \in todo[d] : /\ todo' = [todo EXCEPT ![d] = @ \ {s}]
                                 /\ asked' = [asked EXCEPT ![d] = IF s \in lapsed THEN NoToken ELSE s]
        BY <2>3 DEF token_is_active
      <3>2. s # t /\ NoToken # t
        BY <1>2, <2>3, <3>1, RoutingAssumption DEF Without
      <3> QED
        BY <1>2, <2>3, <3>1, <3>2 DEF token_is_active, Without, Sound, TypeInv, TypeOK
    <2>4. CASE e = d /\ FindUser(d)
      <3>1. NoToken # t /\ asked[d] # t
        BY <1>2, <2>4, RoutingAssumption DEF Without
      <3> QED
        BY <1>2, <2>4, <3>1 DEF FindUser, Without, Sound, TypeInv, TypeOK, Cache
    <2> QED
      BY <2>1, <2>2, <2>3, <2>4
  <1>3. \A e \in Task : pc'[e] \in {"operator", "ingest"} => pc[e] \in {"operator", "ingest"}
    BY DEF ReadTokens, token_is_active, FindUser, Goto, Sound, TypeInv, TypeOK
  <1>4. \A t \in Token : token[t] = "revoked" =>
          /\ \A e \in Task \ stale'[t] : Without(e, t)'
          /\ t \in told => tdirty' \/ tcache'[t] = NoUser
    BY <1>1, <1>2 DEF RevokedInv, RevokedGone
  <1> QED
    BY <1>1, <1>3, <1>4, RevokedByLess

\* The end of a reload, installed or failed.
LEMMA ForgetsLess ==
  ASSUME Sound, NEW d \in Task, Forget(d), NEW t \in Token
  PROVE  stale'[t] = stale[t] \ {d}
  BY DEF Forget

LEMMA RevokedByInstall ==
  ASSUME Sound, RevokedInv, NEW d \in Task, InstallCache(d)
  PROVE  RevokedInv'
  <1>1. UNCHANGED <<token, told, dgram, arrival, todo, asked>> /\ tcache' = draft[d]
    BY DEF InstallCache, db
  <1>2. ASSUME NEW t \in Token, token[t] = "revoked"
        PROVE  /\ stale'[t] = stale[t] \ {d}
               /\ \A e \in Task \ stale'[t] : Without(e, t)'
               /\ t \in told => draft[d][t] = NoUser
    <2>1. stale'[t] = stale[t] \ {d}
      BY ForgetsLess DEF InstallCache
    <2>2. Without(d, t)'
      BY <1>1, RoutingAssumption, EmptyIsCache DEF InstallCache, Without, Sound, TypeInv, TypeOK
    <2>3. \A e \in Task \ {d} : Without(e, t) => Without(e, t)'
      BY <1>1 DEF InstallCache, Without, Sound, TypeInv, TypeOK
    <2>4. t \in told => Without(d, t)
      BY <1>2 DEF RevokedInv, RevokedGone
    <2> QED
      BY <1>2, <2>1, <2>2, <2>3, <2>4 DEF RevokedInv, RevokedGone, Without
  <1>3. \A e \in Task : "toldRevoked" \in arrival[e] =>
          (pc'[e] \in {"operator", "ingest"} => pc[e] \in {"operator", "ingest"})
    BY <1>2, RevokedAnswer DEF InstallCache
  <1> QED
    BY <1>1, <1>2, <1>3, RevokedByLess

LEMMA RevokedByFailure ==
  ASSUME Sound, RevokedInv, NEW d \in Task, ReadFails(d)
  PROVE  RevokedInv'
  <1>1. UNCHANGED <<token, tcache, tdirty, told, dgram, arrival>>
    BY DEF ReadFails, db, caches
  <1>2. \A e \in Task : pc'[e] \in {"operator", "ingest"} => pc[e] \in {"operator", "ingest"}
    BY DEF ReadFails, Goto, Sound, TypeInv, TypeOK
  <1>3. ASSUME NEW t \in Token, token[t] = "revoked"
        PROVE  stale'[t] = stale[t] \ {d} /\ \A e \in Task \ stale'[t] : Without(e, t)'
    <2>1. stale'[t] = stale[t] \ {d}
      BY ForgetsLess DEF ReadFails
    <2>2. Without(d, t)'
      BY RoutingAssumption, EmptyIsCache DEF ReadFails, Without, Sound, TypeInv, TypeOK
    <2>3. \A e \in Task \ {d} : Without(e, t) => Without(e, t)'
      BY DEF ReadFails, Without, Sound, TypeInv, TypeOK
    <2> QED
      BY <1>3, <2>1, <2>2, <2>3 DEF RevokedInv, RevokedGone
  <1>4. \A t \in Token : token[t] = "revoked" => (t \in told => tdirty' \/ tcache'[t] = NoUser)
    BY <1>1 DEF RevokedInv, RevokedGone
  <1> QED
    BY <1>1, <1>2, <1>3, <1>4, RevokedByLess

LEMMA RevokedByNotice ==
  ASSUME Sound, RevokedInv, NEW t \in Token, notify_refresh(t)
  PROVE  RevokedInv'
  <1>1. /\ UNCHANGED <<token, stale, todo, asked, draft, pc, dgram, arrival>> /\ tdirty'
        /\ told' = told \cup {s \in Token : stale[s] = {}}
    BY DEF notify_refresh, db, task
  <1>2. RevokedGone'
    BY <1>1 DEF RevokedInv, RevokedGone, Without
  <1>3. RevokedKnown'
    BY <1>1 DEF RevokedInv, RevokedKnown
  <1> QED
    BY <1>2, <1>3 DEF RevokedInv

LEMMA RevokedByRestart == ASSUME Sound, Restart PROVE RevokedInv'
  <1>1. \A d \in Task : todo'[d] = {} /\ asked'[d] = NoToken /\ draft'[d] = EmptyCache
                          /\ arrival'[d] = {}
    BY DEF Restart
  <1>2. \A t \in Token : (token'[t] = "revoked" => tcache'[t] = NoUser) /\ stale'[t] = {}
    BY DEF Restart, db
  <1>3. RevokedGone'
    BY <1>1, <1>2, EmptyIsCache, RoutingAssumption DEF RevokedGone, Without
  <1> QED
    BY <1>1, <1>3 DEF RevokedInv, RevokedKnown

LEMMA RevokedStep ==
  ASSUME Sound, RevokedInv, [Next]_vars
  PROVE  RevokedInv'
  <1> USE DEF Sound, TypeInv, TypeOK
  <1>1. ASSUME NEW t \in Token, Expire(t)
        PROVE  RevokedInv'
    BY <1>1, RevokedByOther DEF Expire, caches, task, history
  <1>2. ASSUME NEW u \in User, set_user_enabled(u)
        PROVE  RevokedInv'
    BY <1>2, RevokedByOther DEF set_user_enabled, task
  <1>3. ASSUME NEW d \in Task, resolve_token(d)
        PROVE  RevokedInv'
    <2>1. UNCHANGED <<token, told, stale, todo, asked, draft, tcache, tdirty, dgram, arrival>>
      BY <1>3 DEF resolve_token, db, caches, history
    <2>2. \A e \in Task : "toldRevoked" \in arrival[e] =>
            (pc'[e] \in {"operator", "ingest"} => pc[e] \in {"operator", "ingest"})
      <3>1. CASE Answered(d, tcache) /\ ~tdirty
        BY <3>1, RevokedAnswer DEF RevokedInv, RevokedGone
      <3>2. CASE dgram[d].token = NoToken /\ Goto(d, "operator")
        <4>1. "toldRevoked" \notin arrival[d]
          BY <3>2, RoutingAssumption DEF RevokedInv, RevokedKnown, History
        <4> QED
          BY <3>2, <4>1 DEF Goto
      <3>3. CASE Goto(d, "load")
        BY <3>3 DEF Goto
      <3> QED
        BY <1>3, <3>1, <3>2, <3>3 DEF resolve_token
    <2> QED
      BY <2>1, <2>2, RevokedByOther
  <1>4. ASSUME NEW d \in Task, resolve_operator(d)
        PROVE  RevokedInv'
    <2>1. UNCHANGED <<token, told, stale, todo, asked, draft, tcache, tdirty, dgram, arrival>>
      BY <1>4 DEF resolve_operator, db, history
    <2>2. \A e \in Task : pc'[e] \in {"operator", "ingest"} => pc[e] \in {"operator", "ingest"}
      BY <1>4 DEF resolve_operator, Goto
    <2> QED
      BY <2>1, <2>2, RevokedByOther
  <1>5. ASSUME NEW d \in Task, Finish(d)
        PROVE  RevokedInv'
    <2>1. UNCHANGED <<token, told, stale, todo, asked, draft, tcache, tdirty>>
      BY <1>5 DEF Finish, db, caches
    <2>2. \A e \in Task : "toldRevoked" \in arrival'[e] =>
            e # d /\ arrival'[e] = arrival[e] /\ dgram'[e] = dgram[e] /\ pc'[e] = pc[e]
      BY <1>5 DEF Finish, Goto, History
    <2> QED
      BY <2>1, <2>2, RevokedByOther
  <1>6. CASE UNCHANGED vars
    BY <1>6, RevokedByOther DEF vars
  <1> QED
    BY <1>1, <1>2, <1>3, <1>4, <1>5, <1>6, RevokedByWrite, RevokedByNotice, RevokedByArrival,
       RevokedByReload, RevokedByInstall, RevokedByFailure, RevokedByRestart DEF Next, Handle

\* A revoked token is refused to every datagram that comes after a notification
\* which met no reload begun before the revocation, in whatever order later
\* reloads end.
THEOREM RevocationsAreSeen == Spec => []RevocationSeenLater
  <1>1. Init => RevokedInv
    BY DEF Init, RevokedInv, RevokedGone, RevokedKnown
  <1>2. Sound /\ RevokedInv /\ [Next]_vars => RevokedInv'
    BY RevokedStep
  <1>3. RevokedInv => RevocationSeenLater
    BY DEF RevokedInv, RevokedKnown, RevocationSeenLater, Accepted
  <1> QED
    BY AlwaysSound, <1>1, <1>2, <1>3, PTL DEF Spec

-----------------------------------------------------------------------------
(***************************************************************************)
(* Creations, the mirror image: the token is in every reload but those     *)
(* that began before it was made, and once a notification has met none of  *)
(* these the next lookup reloads or the cache has the token.               *)
(***************************************************************************)
Good(t) == token[t] = "active" /\ t \notin lapsed /\ Owner[t] \notin shunned

EnabledUnlessShunned == User \ shunned \subseteq enabled

With(d, t) == pc[d] = "visit" => t \in todo[d] \/ asked[d] = t \/ draft[d][t] = Owner[t]

CreatedThere == \A t \in Token : Good(t) =>
  /\ \A d \in Task \ stale[t] : With(d, t)
  /\ t \in told => stale[t] = {} /\ (tdirty \/ tcache[t] = Owner[t])

CreatedKnown == \A d \in Task : "toldCreated" \in arrival[d] =>
  /\ dgram[d].token \in Token
  /\ token[dgram[d].token] # "none"
  /\ token[dgram[d].token] = "active" => dgram[d].token \in told

CreatedInv == EnabledUnlessShunned /\ CreatedThere /\ CreatedKnown /\ CreationSeenLater

\* What is good has been so, and its reload entry is its owner.
LEMMA GoodEntry ==
  ASSUME Sound, EnabledUnlessShunned, NEW t \in Token, Good(t)
  PROVE  EntryFor(t) = Owner[t] /\ Owner[t] # NoUser
  BY RoutingAssumption DEF EntryFor, Good, EnabledUnlessShunned

\* A step that writes no token and enables nobody.
LEMMA CreatedByLess ==
  ASSUME Sound, CreatedInv, UNCHANGED <<token, told>>,
         lapsed \subseteq lapsed', shunned \subseteq shunned', EnabledUnlessShunned',
         \A t \in Token : Good(t) =>
           /\ stale'[t] \subseteq stale[t]
           /\ \A d \in Task \ stale'[t] : With(d, t)'
           /\ t \in told => tdirty' \/ tcache'[t] = Owner[t],
         \A d \in Task : "toldCreated" \in arrival'[d] =>
           /\ "toldCreated" \in arrival[d]
           /\ dgram'[d] = dgram[d]
           /\ pc'[d] = "badToken" => pc[d] = "badToken" \/ ~Good(dgram[d].token)
  PROVE  CreatedInv'
  <1>1. \A t \in Token : Good(t)' => Good(t)
    BY DEF Good
  <1>2. CreatedThere'
    BY <1>1 DEF CreatedInv, CreatedThere
  <1>3. CreatedKnown'
    BY DEF CreatedInv, CreatedKnown
  <1>4. ASSUME NEW d \in Task, pc'[d] = "badToken", "toldCreated" \in arrival'[d],
               Good(dgram[d].token)'
        PROVE  FALSE
    <2>1. dgram[d].token \in Token /\ dgram'[d] = dgram[d]
      BY <1>4 DEF CreatedInv, CreatedKnown
    <2>2. Good(dgram[d].token)
      BY <1>1, <1>4, <2>1 DEF Good
    <2>3. pc[d] = "badToken" /\ "toldCreated" \in arrival[d]
      BY <1>4, <2>1, <2>2
    <2> QED
      BY <2>2, <2>3 DEF CreatedInv, CreationSeenLater, Good
  <1>5. CreationSeenLater'
    BY <1>4 DEF CreationSeenLater, Good
  <1> QED
    BY <1>2, <1>3, <1>5 DEF CreatedInv

\* A step that touches neither tokens, users, reloads nor the cache.
LEMMA CreatedByOther ==
  ASSUME Sound, CreatedInv,
         UNCHANGED <<enabled, token, lapsed, shunned, told, stale, todo, asked, draft, tcache,
                     tdirty>>,
         \A d \in Task : pc'[d] = "visit" => pc[d] = "visit",
         \A d \in Task : "toldCreated" \in arrival'[d] =>
           /\ "toldCreated" \in arrival[d]
           /\ dgram'[d] = dgram[d]
           /\ pc'[d] = "badToken" => pc[d] = "badToken" \/ ~Good(dgram[d].token)
  PROVE  CreatedInv'
  <1>1. \A t \in Token : Good(t) =>
          /\ \A d \in Task \ stale'[t] : With(d, t)'
          /\ t \in told => tdirty' \/ tcache'[t] = Owner[t]
    BY DEF CreatedInv, CreatedThere, With
  <1>2. EnabledUnlessShunned'
    BY DEF CreatedInv, EnabledUnlessShunned
  <1> QED
    BY <1>1, <1>2, CreatedByLess

\* The answer of a cache that has every good token it should.
LEMMA CreatedAnswer ==
  ASSUME Sound, CreatedInv, NEW d \in Task, NEW cache, Answered(d, cache),
         \A t \in Token : Good(t) /\ t \in told => cache[t] = Owner[t]
  PROVE  \A e \in Task : "toldCreated" \in arrival[e] /\ pc'[e] = "badToken" =>
           pc[e] = "badToken" \/ ~Good(dgram[e].token)
  <1>1. \A e \in Task \ {d} : pc'[e] = pc[e]
    BY DEF Answered, Goto, Sound, TypeInv, TypeOK
  <1>2. ASSUME "toldCreated" \in arrival[d], Good(dgram[d].token)
        PROVE  pc'[d] = "operator"
    <2>1. dgram[d].token \in Token /\ cache[dgram[d].token] = Owner[dgram[d].token]
      BY <1>2 DEF CreatedInv, CreatedKnown, Good
    <2>2. cache[dgram[d].token] # NoUser
      BY <2>1, RoutingAssumption
    <2> QED
      BY <2>2 DEF Answered, Goto, Sound, TypeInv, TypeOK
  <1> QED
    BY <1>1, <1>2

LEMMA CreatedByWrite ==
  ASSUME Sound, CreatedInv, NEW t \in Token, create_token(t) \/ revoke_token(t)
  PROVE  CreatedInv'
  <1>1. /\ UNCHANGED <<enabled, lapsed, shunned, tcache, tdirty, pc, dgram, todo, asked, draft,
                       arrival>>
        /\ told' = told \ {t} /\ stale'[t] = Reloads
        /\ token'[t] # "none"
        /\ token'[t] = "active" => token[t] = "none"
        /\ \A e \in Token \ {t} : token'[e] = token[e] /\ stale'[e] = stale[e]
    BY DEF create_token, revoke_token, WriteToken, caches, task, Sound, TypeInv, TypeOK, History
  <1>2. EnabledUnlessShunned'
    BY <1>1 DEF CreatedInv, EnabledUnlessShunned
  <1>3. CreatedThere'
    <2> SUFFICES ASSUME NEW s \in Token, Good(s)'
                 PROVE  /\ \A d \in Task \ stale'[s] : With(d, s)'
                        /\ s \in told' => stale'[s] = {} /\ (tdirty' \/ tcache'[s] = Owner[s])
      BY DEF CreatedThere
    <2>1. CASE s = t
      BY <1>1, <2>1 DEF Reloads, With
    <2>2. CASE s # t
      <3>1. Good(s)
        BY <1>1, <2>2 DEF Good
      <3> QED
        BY <1>1, <2>2, <3>1 DEF CreatedInv, CreatedThere, With
    <2> QED
      BY <2>1, <2>2
  <1>4. CreatedKnown'
    BY <1>1 DEF CreatedInv, CreatedKnown
  <1>5. CreationSeenLater'
    BY <1>1 DEF CreatedInv, CreatedKnown, CreationSeenLater
  <1> QED
    BY <1>2, <1>3, <1>4, <1>5 DEF CreatedInv

LEMMA CreatedByNotice ==
  ASSUME Sound, CreatedInv, NEW t \in Token, notify_refresh(t)
  PROVE  CreatedInv'
  <1>1. /\ UNCHANGED <<enabled, token, lapsed, shunned, stale, todo, asked, draft, pc, dgram,
                       arrival>>
        /\ tdirty' /\ told' = told \cup {s \in Token : stale[s] = {}}
    BY DEF notify_refresh, db, task
  <1>2. EnabledUnlessShunned' /\ CreatedThere'
    BY <1>1 DEF CreatedInv, EnabledUnlessShunned, CreatedThere, With, Good
  <1>3. CreatedKnown' /\ CreationSeenLater'
    BY <1>1 DEF CreatedInv, CreatedKnown, CreationSeenLater
  <1> QED
    BY <1>2, <1>3 DEF CreatedInv

LEMMA CreatedByArrival ==
  ASSUME Sound, CreatedInv, NEW d \in Task, datagram_received(d)
  PROVE  CreatedInv'
  <1>1. PICK t \in Token \cup {NoToken}, op \in User \cup {NoUser, Stranger} :
          /\ dgram' = [dgram EXCEPT ![d] = [token |-> t, op |-> op]]
          /\ arrival' = [arrival EXCEPT ![d] = Known(t)]
    BY DEF datagram_received
  <1>2. dgram'[d].token = t /\ arrival'[d] = Known(t) /\ pc'[d] = "token"
    BY <1>1 DEF datagram_received, Goto, Sound, TypeInv, TypeOK, History
  <1>3. \A e \in Task \ {d} : dgram'[e] = dgram[e] /\ arrival'[e] = arrival[e] /\ pc'[e] = pc[e]
    BY <1>1 DEF datagram_received, Goto, Sound, TypeInv, TypeOK, History
  <1>4. UNCHANGED <<enabled, token, lapsed, tcache, tdirty, todo, asked, draft, stale, told, shunned>>
    BY DEF datagram_received, db, caches
  <1>5. "toldCreated" \in Known(t) => t \in told /\ token[t] = "active" /\ t \in Token
    BY DEF Known, Sound, TypeInv, History
  <1>6. EnabledUnlessShunned' /\ CreatedThere'
    <2>1. \A e \in Task : pc'[e] = "visit" => pc[e] = "visit"
      BY <1>2, <1>3
    <2> QED
      BY <1>4, <2>1 DEF CreatedInv, EnabledUnlessShunned, CreatedThere, With, Good
  <1>7. CreatedKnown'
    BY <1>2, <1>3, <1>4, <1>5 DEF CreatedInv, CreatedKnown
  <1>8. CreationSeenLater'
    BY <1>2, <1>3, <1>4 DEF CreatedInv, CreationSeenLater
  <1> QED
    BY <1>6, <1>7, <1>8 DEF CreatedInv

LEMMA CreatedByReload ==
  ASSUME Sound, CreatedInv, NEW d \in Task, ReadTokens(d) \/ token_is_active(d) \/ FindUser(d)
  PROVE  CreatedInv'
  <1>1. UNCHANGED <<enabled, token, lapsed, tcache, tdirty, stale, told, shunned, dgram, arrival>>
    BY DEF ReadTokens, token_is_active, FindUser, db, caches, history
  <1>2. ASSUME NEW t \in Token, Good(t), NEW e \in Task, With(e, t)
        PROVE  With(e, t)'
    <2>1. CASE e # d
      BY <1>2, <2>1 DEF ReadTokens, token_is_active, FindUser, Goto, With, Sound, TypeInv, TypeOK
    <2>2. CASE e = d /\ ReadTokens(d)
      BY <1>2, <2>2 DEF ReadTokens, Good, With, Sound, TypeInv, TypeOK
    <2>3. CASE e = d /\ token_is_active(d)
      <3>1. PICK s \in todo[d] : /\ todo' = [todo EXCEPT ![d] = @ \ {s}]
                                 /\ asked' = [asked EXCEPT ![d] = IF s \in lapsed THEN NoToken ELSE s]
        BY <2>3 DEF token_is_active
      <3>2. pc[d] = "visit" /\ asked[d] = NoToken /\ t # NoToken /\ UNCHANGED <<pc, draft>>
        BY <1>2, <2>3, RoutingAssumption DEF token_is_active
      <3>3. t \in todo[d] \/ draft[d][t] = Owner[t]
        BY <1>2, <2>3, <3>2 DEF With
      <3>4. s = t => asked'[d] = t
        BY <1>2, <3>1 DEF Good, Sound, TypeInv, TypeOK
      <3>5. s # t /\ t \in todo[d] => t \in todo'[d]
        BY <3>1 DEF Sound, TypeInv, TypeOK
      <3> QED
        BY <2>3, <3>2, <3>3, <3>4, <3>5 DEF With
    <2>4. CASE e = d /\ FindUser(d)
      <3>1. EntryFor(t) = Owner[t]
        BY <1>2, GoodEntry DEF CreatedInv
      <3>2. asked[d] \in Token
        BY <2>4 DEF FindUser, Sound, TypeInv, TypeOK
      <3>3. asked[d] = t => draft'[d][t] = Owner[t]
        BY <2>4, <3>1, <3>2 DEF FindUser, Sound, TypeInv, TypeOK, Cache
      <3>4. asked[d] # t => draft'[d][t] = draft[d][t]
        BY <2>4, <3>2 DEF FindUser, Sound, TypeInv, TypeOK, Cache
      <3> QED
        BY <1>2, <2>4, <3>3, <3>4 DEF FindUser, With
    <2> QED
      BY <2>1, <2>2, <2>3, <2>4
  <1>3. \A e \in Task : pc'[e] = "badToken" => pc[e] = "badToken"
    BY DEF ReadTokens, token_is_active, FindUser, Goto, Sound, TypeInv, TypeOK
  <1>4. EnabledUnlessShunned'
    BY <1>1 DEF CreatedInv, EnabledUnlessShunned
  <1>5. \A t \in Token : Good(t) =>
          /\ \A e \in Task \ stale'[t] : With(e, t)'
          /\ t \in told => tdirty' \/ tcache'[t] = Owner[t]
    BY <1>1, <1>2 DEF CreatedInv, CreatedThere
  <1> QED
    BY <1>1, <1>3, <1>4, <1>5, CreatedByLess

LEMMA CreatedByInstall ==
  ASSUME Sound, CreatedInv, NEW d \in Task, InstallCache(d)
  PROVE  CreatedInv'
  <1>1. UNCHANGED <<enabled, token, lapsed, todo, asked, told, shunned, dgram, arrival>>
        /\ tcache' = draft[d]
    BY DEF InstallCache, db
  <1>2. \A e \in Task : pc'[e] = "visit" => e # d /\ pc[e] = "visit" /\ draft'[e] = draft[e]
    BY DEF InstallCache, Answered, Goto, Sound, TypeInv, TypeOK
  <1>3. ASSUME NEW t \in Token, Good(t)
        PROVE  /\ stale'[t] = stale[t] \ {d}
               /\ \A e \in Task \ stale'[t] : With(e, t)'
               /\ t \in told => draft[d][t] = Owner[t]
    <2>1. stale'[t] = stale[t] \ {d}
      BY ForgetsLess DEF InstallCache
    <2>2. With(d, t)' /\ \A e \in Task \ {d} : With(e, t) => With(e, t)'
      BY <1>1, <1>2 DEF With
    <2>3. t \in told => With(d, t)
      BY <1>3 DEF CreatedInv, CreatedThere
    <2>4. t # NoToken
      BY RoutingAssumption
    <2>5. t \in told => draft[d][t] = Owner[t]
      BY <2>3, <2>4 DEF InstallCache, With
    <2> QED
      BY <1>3, <2>1, <2>2, <2>5 DEF CreatedInv, CreatedThere
  <1>4. \A e \in Task : "toldCreated" \in arrival[e] /\ pc'[e] = "badToken" =>
          pc[e] = "badToken" \/ ~Good(dgram[e].token)
    BY <1>3, CreatedAnswer DEF InstallCache
  <1>5. EnabledUnlessShunned'
    BY <1>1 DEF CreatedInv, EnabledUnlessShunned
  <1> QED
    BY <1>1, <1>3, <1>4, <1>5, CreatedByLess

LEMMA CreatedByFailure ==
  ASSUME Sound, CreatedInv, NEW d \in Task, ReadFails(d)
  PROVE  CreatedInv'
  <1>1. UNCHANGED <<enabled, token, lapsed, tcache, tdirty, told, shunned, dgram, arrival>>
    BY DEF ReadFails, db, caches
  <1>2. \A e \in Task : pc'[e] = "visit" =>
          /\ e # d /\ pc[e] = "visit"
          /\ todo'[e] = todo[e] /\ asked'[e] = asked[e] /\ draft'[e] = draft[e]
    BY DEF ReadFails, Goto, Sound, TypeInv, TypeOK
  <1>3. \A e \in Task : pc'[e] = "badToken" => pc[e] = "badToken"
    BY DEF ReadFails, Goto, Sound, TypeInv, TypeOK
  <1>4. ASSUME NEW t \in Token, Good(t)
        PROVE  stale'[t] = stale[t] \ {d} /\ \A e \in Task \ stale'[t] : With(e, t)'
    <2>1. stale'[t] = stale[t] \ {d}
      BY ForgetsLess DEF ReadFails
    <2>2. With(d, t)' /\ \A e \in Task \ {d} : With(e, t) => With(e, t)'
      BY <1>2 DEF With
    <2> QED
      BY <1>4, <2>1, <2>2 DEF CreatedInv, CreatedThere
  <1>5. EnabledUnlessShunned'
    BY <1>1 DEF CreatedInv, EnabledUnlessShunned
  <1>6. \A t \in Token : Good(t) => (t \in told => tdirty' \/ tcache'[t] = Owner[t])
    BY <1>1 DEF CreatedInv, CreatedThere
  <1> QED
    BY <1>1, <1>3, <1>4, <1>5, <1>6, CreatedByLess

LEMMA CreatedByRestart == ASSUME Sound, Restart PROVE CreatedInv'
  <1>1. \A d \in Task : pc'[d] = "idle" /\ arrival'[d] = {}
    BY DEF Restart
  <1>2. EnabledUnlessShunned'
    BY DEF Restart, db, EnabledUnlessShunned
  <1>3. \A t \in Token : (Good(t)' => tcache'[t] = Owner[t]) /\ stale'[t] = {}
    <2>1. /\ enabled' = enabled /\ token' = token /\ lapsed' = lapsed /\ shunned' = User \ enabled
          /\ tcache' = [t \in Token |-> IF token[t] = "active" /\ t \notin lapsed
                                        THEN EntryFor(t) ELSE NoUser]
          /\ stale' = [t \in Token |-> {}]
      BY DEF Restart, db
    <2> QED
      BY <2>1, RoutingAssumption DEF Good, EntryFor
  <1> QED
    BY <1>1, <1>2, <1>3 DEF CreatedInv, CreatedThere, CreatedKnown, CreationSeenLater, With

LEMMA CreatedStep ==
  ASSUME Sound, CreatedInv, [Next]_vars
  PROVE  CreatedInv'
  <1> USE DEF Sound, TypeInv, TypeOK
  <1>1. ASSUME NEW t \in Token, Expire(t)
        PROVE  CreatedInv'
    BY <1>1, CreatedByLess
    DEF Expire, caches, task, history, CreatedInv, EnabledUnlessShunned, CreatedThere, With
  <1>2. ASSUME NEW u \in User, set_user_enabled(u)
        PROVE  CreatedInv'
    <2>1. EnabledUnlessShunned'
      BY <1>2 DEF set_user_enabled, CreatedInv, EnabledUnlessShunned
    <2> QED
      BY <1>2, <2>1, CreatedByLess DEF set_user_enabled, task, CreatedInv, CreatedThere, With
  <1>3. ASSUME NEW d \in Task, resolve_token(d)
        PROVE  CreatedInv'
    <2>1. UNCHANGED <<enabled, token, lapsed, tcache, tdirty, todo, asked, draft, stale, told,
                      shunned, dgram, arrival>>
      BY <1>3 DEF resolve_token, db, caches, history
    <2>2. \A e \in Task : "toldCreated" \in arrival[e] /\ pc'[e] = "badToken" =>
            pc[e] = "badToken" \/ ~Good(dgram[e].token)
      <3>1. CASE Answered(d, tcache) /\ ~tdirty
        BY <3>1, CreatedAnswer DEF CreatedInv, CreatedThere
      <3>2. CASE Goto(d, "operator") \/ Goto(d, "load")
        BY <3>2 DEF Goto
      <3> QED
        BY <1>3, <3>1, <3>2 DEF resolve_token
    <2>3. \A e \in Task : pc'[e] = "visit" => pc[e] = "visit"
      BY <1>3 DEF resolve_token, Answered, Goto
    <2> QED
      BY <2>1, <2>2, <2>3, CreatedByOther
  <1>4. ASSUME NEW d \in Task, resolve_operator(d)
        PROVE  CreatedInv'
    <2>1. UNCHANGED <<enabled, token, lapsed, tcache, tdirty, todo, asked, draft, stale, told,
                      shunned, dgram, arrival>>
      BY <1>4 DEF resolve_operator, db, history
    <2>2. \A e \in Task : pc'[e] \in {"badToken", "visit"} => pc'[e] = pc[e]
      BY <1>4 DEF resolve_operator, Goto
    <2> QED
      BY <2>1, <2>2, CreatedByOther
  <1>5. ASSUME NEW d \in Task, Finish(d)
        PROVE  CreatedInv'
    <2>1. UNCHANGED <<enabled, token, lapsed, tcache, tdirty, todo, asked, draft, stale, told,
                      shunned>>
      BY <1>5 DEF Finish, db, caches
    <2>2. \A e \in Task : pc'[e] = "visit" => pc[e] = "visit"
      BY <1>5 DEF Finish, Goto
    <2>3. \A e \in Task : "toldCreated" \in arrival'[e] =>
            arrival'[e] = arrival[e] /\ dgram'[e] = dgram[e] /\ pc'[e] = pc[e]
      BY <1>5 DEF Finish, Goto, History
    <2> QED
      BY <2>1, <2>2, <2>3, CreatedByOther
  <1>6. CASE UNCHANGED vars
    BY <1>6, CreatedByOther DEF vars
  <1> QED
    BY <1>1, <1>2, <1>3, <1>4, <1>5, <1>6, CreatedByWrite, CreatedByNotice, CreatedByArrival,
       CreatedByReload, CreatedByInstall, CreatedByFailure, CreatedByRestart DEF Next, Handle

\* A token is good for every datagram that comes after a notification which met
\* no reload begun before the token was made, for as long as it is active and
\* unexpired and its user has stayed enabled: no reload that ends late loses it.
THEOREM CreationsAreSeen == Spec => []CreationSeenLater
  <1>1. Init => CreatedInv
    BY DEF Init, CreatedInv, EnabledUnlessShunned, CreatedThere, CreatedKnown, CreationSeenLater,
           Good
  <1>2. Sound /\ CreatedInv /\ [Next]_vars => CreatedInv'
    BY CreatedStep
  <1>3. CreatedInv => CreationSeenLater
    BY DEF CreatedInv
  <1> QED
    BY AlwaysSound, <1>1, <1>2, <1>3, PTL DEF Spec

-----------------------------------------------------------------------------
(***************************************************************************)
(* Expiry.  A token in `swept` has expired for good, so that no check      *)
(* passes it, and no reload had passed it when the notification came.      *)
(***************************************************************************)
Passed(d, t) == asked[d] = t \/ draft[d][t] # NoUser

SweptGone == \A t \in swept :
  /\ t \in lapsed
  /\ \A d \in Task : ~Passed(d, t)
  /\ tdirty \/ tcache[t] = NoUser

SweptKnown == \A d \in Task : "expired" \in arrival[d] =>
  dgram[d].token \in swept /\ pc[d] \notin {"operator", "ingest"}

SweptInv == SweptGone /\ SweptKnown

\* A step that sweeps nothing and lets no datagram with a swept token pass.
LEMMA SweptByLess ==
  ASSUME Sound, SweptInv, UNCHANGED swept, lapsed \subseteq lapsed',
         \A t \in swept : /\ \A d \in Task : ~Passed(d, t)'
                          /\ tdirty' \/ tcache'[t] = NoUser,
         \A d \in Task : "expired" \in arrival'[d] =>
           /\ "expired" \in arrival[d]
           /\ dgram'[d] = dgram[d]
           /\ pc'[d] \in {"operator", "ingest"} => pc[d] \in {"operator", "ingest"}
  PROVE  SweptInv'
  <1>1. SweptGone'
    BY DEF SweptInv, SweptGone
  <1>2. SweptKnown'
    BY DEF SweptInv, SweptKnown
  <1> QED
    BY <1>1, <1>2 DEF SweptInv

\* A step that leaves reloads and the cache alone.
LEMMA SweptByOther ==
  ASSUME Sound, SweptInv, UNCHANGED <<swept, asked, draft, tcache, tdirty>>,
         lapsed \subseteq lapsed',
         \A d \in Task : "expired" \in arrival'[d] =>
           /\ "expired" \in arrival[d]
           /\ dgram'[d] = dgram[d]
           /\ pc'[d] \in {"operator", "ingest"} => pc[d] \in {"operator", "ingest"}
  PROVE  SweptInv'
  <1>1. \A t \in swept : (\A d \in Task : ~Passed(d, t)') /\ (tdirty' \/ tcache'[t] = NoUser)
    BY DEF SweptInv, SweptGone, Passed
  <1> QED
    BY <1>1, SweptByLess

LEMMA SweptAnswer ==
  ASSUME Sound, SweptInv, NEW d \in Task, NEW cache, Answered(d, cache),
         \A t \in swept : cache[t] = NoUser
  PROVE  \A e \in Task : "expired" \in arrival[e] =>
           (pc'[e] \in {"operator", "ingest"} => pc[e] \in {"operator", "ingest"})
  <1>1. \A e \in Task \ {d} : pc'[e] = pc[e]
    BY DEF Answered, Goto, Sound, TypeInv, TypeOK
  <1>2. "expired" \in arrival[d] => cache[dgram[d].token] = NoUser
    BY DEF SweptInv, SweptKnown
  <1>3. cache[dgram[d].token] = NoUser => pc'[d] = "badToken"
    BY DEF Answered, Goto, Sound, TypeInv, TypeOK
  <1> QED
    BY <1>1, <1>2, <1>3

LEMMA SweptByNotice ==
  ASSUME Sound, SweptInv, NEW t \in Token, notify_refresh(t)
  PROVE  SweptInv'
  <1>1. /\ UNCHANGED <<lapsed, asked, draft, pc, dgram, arrival>> /\ tdirty'
        /\ swept' = swept \cup {s \in lapsed : \A d \in Task : asked[d] # s /\ draft[d][s] = NoUser}
    BY DEF notify_refresh, db, task
  <1>2. SweptGone'
    BY <1>1 DEF SweptInv, SweptGone, Passed
  <1>3. SweptKnown'
    BY <1>1 DEF SweptInv, SweptKnown
  <1> QED
    BY <1>2, <1>3 DEF SweptInv

LEMMA SweptByArrival ==
  ASSUME Sound, SweptInv, NEW d \in Task, datagram_received(d)
  PROVE  SweptInv'
  <1>1. PICK t \in Token \cup {NoToken}, op \in User \cup {NoUser, Stranger} :
          /\ dgram' = [dgram EXCEPT ![d] = [token |-> t, op |-> op]]
          /\ arrival' = [arrival EXCEPT ![d] = Known(t)]
    BY DEF datagram_received
  <1>2. dgram'[d].token = t /\ arrival'[d] = Known(t) /\ pc'[d] = "token"
    BY <1>1 DEF datagram_received, Goto, Sound, TypeInv, TypeOK, History
  <1>3. \A e \in Task \ {d} : dgram'[e] = dgram[e] /\ arrival'[e] = arrival[e] /\ pc'[e] = pc[e]
    BY <1>1 DEF datagram_received, Goto, Sound, TypeInv, TypeOK, History
  <1>4. UNCHANGED <<lapsed, tcache, tdirty, asked, draft, swept>>
    BY DEF datagram_received, db, caches
  <1>5. "expired" \in Known(t) => t \in swept
    BY DEF Known
  <1>6. SweptGone'
    BY <1>4 DEF SweptInv, SweptGone, Passed
  <1>7. SweptKnown'
    BY <1>2, <1>3, <1>4, <1>5 DEF SweptInv, SweptKnown
  <1> QED
    BY <1>6, <1>7 DEF SweptInv

\* An expired token does not pass the check, and the user read is of one that did.
LEMMA SweptByReload ==
  ASSUME Sound, SweptInv, NEW d \in Task, ReadTokens(d) \/ token_is_active(d) \/ FindUser(d)
  PROVE  SweptInv'
  <1>1. UNCHANGED <<lapsed, tcache, tdirty, swept, dgram, arrival>>
    BY DEF ReadTokens, token_is_active, FindUser, db, caches, history
  <1>2. ASSUME NEW t \in swept, NEW e \in Task PROVE ~Passed(e, t)'
    <2>1. asked[e] # t /\ draft[e][t] = NoUser /\ t \in lapsed /\ t \in Token /\ t # NoToken
      BY <1>2, RoutingAssumption DEF SweptInv, SweptGone, Passed, Sound, TypeInv, TypeOK
    <2>2. CASE e # d
      BY <2>1, <2>2 DEF ReadTokens, token_is_active, FindUser, Passed, Sound, TypeInv, TypeOK
    <2>3. CASE e = d /\ ReadTokens(d)
      BY <2>1, <2>3, EmptyIsCache DEF ReadTokens, Passed, Sound, TypeInv, TypeOK
    <2>4. CASE e = d /\ token_is_active(d)
      BY <2>1, <2>4 DEF token_is_active, Passed, Sound, TypeInv, TypeOK
    <2>5. CASE e = d /\ FindUser(d)
      BY <2>1, <2>5 DEF FindUser, Passed, Sound, TypeInv, TypeOK, Cache
    <2> QED
      BY <2>2, <2>3, <2>4, <2>5
  <1>3. \A e \in Task : pc'[e] \in {"operator", "ingest"} => pc[e] \in {"operator", "ingest"}
    BY DEF ReadTokens, token_is_active, FindUser, Goto, Sound, TypeInv, TypeOK
  <1>4. \A t \in swept : tdirty' \/ tcache'[t] = NoUser
    BY <1>1 DEF SweptInv, SweptGone
  <1> QED
    BY <1>1, <1>2, <1>3, <1>4, SweptByLess

LEMMA SweptByInstall ==
  ASSUME Sound, SweptInv, NEW d \in Task, InstallCache(d)
  PROVE  SweptInv'
  <1>1. UNCHANGED <<lapsed, swept, dgram, arrival, asked>> /\ tcache' = draft[d]
    BY DEF InstallCache, db
  <1>2. \A t \in swept : draft[d][t] = NoUser /\ t \in Token
    BY DEF SweptInv, SweptGone, Passed, Sound, TypeInv, History
  <1>3. \A e \in Task, t \in Token : draft'[e][t] \in {NoUser, draft[e][t]}
    BY EmptyIsCache DEF InstallCache, Sound, TypeInv, TypeOK
  <1>4. \A e \in Task : "expired" \in arrival[e] =>
          (pc'[e] \in {"operator", "ingest"} => pc[e] \in {"operator", "ingest"})
    BY <1>2, SweptAnswer DEF InstallCache
  <1>5. \A t \in swept : /\ \A e \in Task : ~Passed(e, t)'
                         /\ tdirty' \/ tcache'[t] = NoUser
    BY <1>1, <1>2, <1>3 DEF SweptInv, SweptGone, Passed
  <1> QED
    BY <1>1, <1>4, <1>5, SweptByLess

LEMMA SweptByFailure ==
  ASSUME Sound, SweptInv, NEW d \in Task, ReadFails(d)
  PROVE  SweptInv'
  <1>1. UNCHANGED <<lapsed, tcache, tdirty, swept, dgram, arrival>>
    BY DEF ReadFails, db, caches
  <1>2. \A e \in Task : pc'[e] \in {"operator", "ingest"} => pc[e] \in {"operator", "ingest"}
    BY DEF ReadFails, Goto, Sound, TypeInv, TypeOK
  <1>3. \A e \in Task, t \in Token : ~Passed(e, t) => ~Passed(e, t)'
    BY RoutingAssumption, EmptyIsCache DEF ReadFails, Passed, Sound, TypeInv, TypeOK
  <1>4. \A t \in swept : (\A e \in Task : ~Passed(e, t)') /\ (tdirty' \/ tcache'[t] = NoUser)
    BY <1>1, <1>3 DEF SweptInv, SweptGone, Sound, TypeInv, History
  <1> QED
    BY <1>1, <1>2, <1>4, SweptByLess

LEMMA SweptByRestart == ASSUME Sound, Restart PROVE SweptInv'
  <1>1. \A d \in Task : draft'[d] = EmptyCache /\ asked'[d] = NoToken /\ arrival'[d] = {}
    BY DEF Restart
  <1>2. swept' = lapsed /\ lapsed' = lapsed /\ lapsed \subseteq Token
    BY DEF Restart, db, Sound, TypeInv, TypeOK
  <1>3. \A t \in lapsed : tcache'[t] = NoUser
    BY <1>2 DEF Restart
  <1>4. SweptGone'
    BY <1>1, <1>2, <1>3, RoutingAssumption, EmptyIsCache DEF SweptGone, Passed
  <1> QED
    BY <1>1, <1>4 DEF SweptInv, SweptKnown

LEMMA SweptStep ==
  ASSUME Sound, SweptInv, [Next]_vars
  PROVE  SweptInv'
  <1> USE DEF Sound, TypeInv, TypeOK
  <1>1. ASSUME NEW t \in Token, create_token(t) \/ revoke_token(t) \/ Expire(t)
        PROVE  SweptInv'
    <2>1. /\ UNCHANGED <<tcache, tdirty, pc, dgram, asked, draft, swept, arrival>>
          /\ lapsed \subseteq lapsed'
      BY <1>1 DEF create_token, revoke_token, WriteToken, Expire, caches, task, history
    <2> QED
      BY <2>1, SweptByOther
  <1>2. ASSUME NEW u \in User, set_user_enabled(u)
        PROVE  SweptInv'
    BY <1>2, SweptByOther DEF set_user_enabled, task
  <1>3. ASSUME NEW d \in Task, resolve_token(d)
        PROVE  SweptInv'
    <2>1. UNCHANGED <<lapsed, tcache, tdirty, asked, draft, swept, dgram, arrival>>
      BY <1>3 DEF resolve_token, db, caches, history
    <2>2. \A e \in Task : "expired" \in arrival[e] =>
            (pc'[e] \in {"operator", "ingest"} => pc[e] \in {"operator", "ingest"})
      <3>1. CASE Answered(d, tcache) /\ ~tdirty
        BY <3>1, SweptAnswer DEF SweptInv, SweptGone
      <3>2. CASE dgram[d].token = NoToken /\ Goto(d, "operator")
        <4>1. "expired" \notin arrival[d]
          BY <3>2, RoutingAssumption DEF SweptInv, SweptKnown, History
        <4> QED
          BY <3>2, <4>1 DEF Goto
      <3>3. CASE Goto(d, "load")
        BY <3>3 DEF Goto
      <3> QED
        BY <1>3, <3>1, <3>2, <3>3 DEF resolve_token
    <2> QED
      BY <2>1, <2>2, SweptByOther
  <1>4. ASSUME NEW d \in Task, resolve_operator(d)
        PROVE  SweptInv'
    <2>1. UNCHANGED <<lapsed, tcache, tdirty, asked, draft, swept, dgram, arrival>>
      BY <1>4 DEF resolve_operator, db, history
    <2>2. \A e \in Task : pc'[e] \in {"operator", "ingest"} => pc[e] \in {"operator", "ingest"}
      BY <1>4 DEF resolve_operator, Goto
    <2> QED
      BY <2>1, <2>2, SweptByOther
  <1>5. ASSUME NEW d \in Task, Finish(d)
        PROVE  SweptInv'
    <2>1. UNCHANGED <<lapsed, tcache, tdirty, asked, draft, swept>>
      BY <1>5 DEF Finish, db, caches
    <2>2. \A e \in Task : "expired" \in arrival'[e] =>
            e # d /\ arrival'[e] = arrival[e] /\ dgram'[e] = dgram[e] /\ pc'[e] = pc[e]
      BY <1>5 DEF Finish, Goto, History
    <2> QED
      BY <2>1, <2>2, SweptByOther
  <1>6. CASE UNCHANGED vars
    BY <1>6, SweptByOther DEF vars
  <1> QED
    BY <1>1, <1>2, <1>3, <1>4, <1>5, <1>6, SweptByNotice, SweptByArrival, SweptByReload,
       SweptByInstall, SweptByFailure, SweptByRestart DEF Next, Handle

\* The notification that follows a token's expiry, whichever token it is about,
\* ends its use, unless a reload under way had checked it before it expired.
THEOREM ExpiryIsSeen == Spec => []ExpirySeenLater
  <1>1. Init => SweptInv
    BY DEF Init, SweptInv, SweptGone, SweptKnown
  <1>2. Sound /\ SweptInv /\ [Next]_vars => SweptInv'
    BY SweptStep
  <1>3. SweptInv => ExpirySeenLater
    BY DEF SweptInv, SweptKnown, ExpirySeenLater, Accepted
  <1> QED
    BY AlwaysSound, <1>1, <1>2, <1>3, PTL DEF Spec

\* All together: what is revoked, created or expired is refused, or good, from
\* the first notification on that meets no reload which had looked before.
THEOREM ChangesAreSeen == Spec => []ChangesSeenLater
  BY RevocationsAreSeen, CreationsAreSeen, ExpiryIsSeen, PTL DEF ChangesSeenLater
=============================================================================
