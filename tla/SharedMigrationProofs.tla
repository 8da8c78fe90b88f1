------------------------ MODULE SharedMigrationProofs ------------------------
(***************************************************************************)
(* Proofs about SharedMigration for any documents, accounts, callsigns,    *)
(* crashes, starts and changes: what a log holds has been through every    *)
(* migration, a legacy document has one home, a start leaves what is in a  *)
(* log alone, and one that completes has copied all it should.             *)
(***************************************************************************)
EXTENDS SharedMigration, FiniteSetTheorems, TLAPS

AllStamped == \A d \in Doc : shared[d].stamped
AllPadded == \A d \in Doc : shared[d].padded
Migrated == AllStamped /\ AllPadded /\ Hashable = {}

(* No migration gives a document the rowHash of anything but its own content. *)
HashesKnown == \A d \in Doc : shared[d].rowHash = None \/ OnceHashed(shared[d])

(* What operators have written is there until the log is cleared. *)
WrittenIsThere == \A u \in User, i \in Id : <<u, i>> \in written => logs[u][i] # None

(* How far a start has come. *)
Phases ==
  /\ pc \in {"pad", "hash"} => AllStamped
  /\ pc = "hash" => AllPadded
  /\ pc \in {"load", "copy", "up"} => Migrated

(* Nothing is copied before all is migrated, nor to anyone but the owner. *)
CopiesAreOwned == \A u \in User, d \in Doc : logs[u][d] # None =>
  /\ Migrated
  /\ users[u] = shared[d].callsign
  /\ pc = "copy" => known[u] = users[u]

KnownExist == \A u \in User : known[u] # None => pc = "copy" /\ known[u] = users[u]

(* What the copy has done of its work. *)
CopiedSoFar == pc = "copy" => \A d \in Doc \ (todo \cup failed), u \in User :
  Owners(d) = {u} => \/ logs[u][d] # None \/ u \in disturbed
                     \/ Taken(u, shared[d].rowHash)

IInv ==
  /\ TypeOK /\ HashesKnown /\ Phases /\ CopiesAreOwned /\ KnownExist /\ CopiedSoFar
  /\ LogsAreMigrated /\ OneHome /\ WrittenIsThere

-----------------------------------------------------------------------------
(* Documents *)

(* A document migrated or written is a document, and a rowHash is never None. *)
LEMMA DocumentFacts ==
  ASSUME NEW r \in Document
  PROVE  /\ Hash(r) \in Content /\ Hash(r) # None /\ r # None
         /\ Stamped(r) \in Document /\ Padded(r) \in Document /\ Hashed(r) \in Document
<1>1. Hash(r) \in Content
  BY DEF Hash, Document, Content
<1>2. Hash(r) # None /\ r # None
  BY <1>1, MigrationAssumption
<1>3. Stamped(r) \in Document /\ Padded(r) \in Document /\ Hashed(r) \in Document
  BY <1>1 DEF Stamped, Padded, Hashed, Document
<1> QED BY <1>1, <1>2, <1>3

(* Each migration sets its own field and leaves the others alone. *)
LEMMA StampedFacts ==
  ASSUME NEW r \in Document
  PROVE  /\ Hash(Stamped(r)) = Hash(r)
         /\ Stamped(r).rowHash = r.rowHash /\ Stamped(r).callsign = r.callsign
         /\ Stamped(r).stamped /\ Stamped(r).padded = r.padded
         /\ OnceHashed(r) => OnceHashed(Stamped(r))
BY DEF Stamped, Hash, Document, OnceHashed

LEMMA PaddedFacts ==
  ASSUME NEW r \in Document
  PROVE  /\ Padded(r).rowHash = r.rowHash /\ Padded(r).callsign = r.callsign
         /\ Padded(r).padded /\ Padded(r).stamped = r.stamped
         /\ ~r.padded /\ OnceHashed(r) => OnceHashed(Padded(r))
BY DEF Padded, Hash, Document, OnceHashed

LEMMA HashedFacts ==
  ASSUME NEW r \in Document
  PROVE  /\ Hash(Hashed(r)) = Hash(r) /\ Hashed(r).rowHash = Hash(r)
         /\ Hashed(r).callsign = r.callsign
         /\ Hashed(r).stamped = r.stamped /\ Hashed(r).padded = r.padded
         /\ OnceHashed(Hashed(r))
BY DEF Hashed, Hash, Document, OnceHashed

LEMMA InitIInv == Init => IInv
<1> SUFFICES ASSUME Init PROVE IInv
  OBVIOUS
<1>1. TypeOK
  BY MigrationAssumption DEF Init, TypeOK, Nobody
<1>2. \A u \in User, i \in Id : logs[u][i] = None
  BY DEF Init
<1>3. HashesKnown
  BY MigrationAssumption DEF Init, HashesKnown
<1>4. Phases /\ KnownExist /\ CopiedSoFar
  BY DEF Init, Phases, KnownExist, CopiedSoFar, Nobody
<1>5. CopiesAreOwned /\ LogsAreMigrated /\ OneHome
  BY <1>2 DEF CopiesAreOwned, LogsAreMigrated, OneHome, Id
<1>6. WrittenIsThere
  BY DEF Init, WrittenIsThere
<1> QED BY <1>6, <1>1, <1>3, <1>4, <1>5 DEF IInv

-----------------------------------------------------------------------------
(* The migrations *)

Others == <<logs, users, known, todo, indexed, cleared, written, disturbed, changes, starts, failed>>

(* A migration writes one document, which needs it, or finds none and is done. *)
Migration == backfill_created_at \/ normalize_time_on \/ backfill_qso_row_hash

LEMMA MigrationSteps ==
  /\ backfill_created_at => /\ UNCHANGED Others /\ pc = "stamp"
       /\ \/ \E d \in Doc : /\ ~shared[d].stamped /\ UNCHANGED pc
                            /\ shared' = [shared EXCEPT ![d] = Stamped(shared[d])]
          \/ AllStamped /\ pc' = "pad" /\ UNCHANGED shared
  /\ normalize_time_on => /\ UNCHANGED Others /\ pc = "pad"
       /\ \/ \E d \in Doc : /\ ~shared[d].padded /\ UNCHANGED pc
                            /\ shared' = [shared EXCEPT ![d] = Padded(shared[d])]
          \/ AllPadded /\ pc' = "hash" /\ UNCHANGED shared
  /\ backfill_qso_row_hash => /\ UNCHANGED Others /\ pc = "hash"
       /\ \/ \E d \in Hashable : /\ UNCHANGED pc
                                 /\ shared' = [shared EXCEPT ![d] = Hashed(shared[d])]
          \/ Hashable = {} /\ pc' = "load" /\ UNCHANGED shared
<1>1. backfill_created_at => UNCHANGED Others /\ pc = "stamp"
       /\ \/ \E d \in Doc : /\ ~shared[d].stamped /\ UNCHANGED pc
                            /\ shared' = [shared EXCEPT ![d] = Stamped(shared[d])]
          \/ AllStamped /\ pc' = "pad" /\ UNCHANGED shared
  BY DEF backfill_created_at, Migrates, Others, AllStamped
<1>2. normalize_time_on => UNCHANGED Others /\ pc = "pad"
       /\ \/ \E d \in Doc : /\ ~shared[d].padded /\ UNCHANGED pc
                            /\ shared' = [shared EXCEPT ![d] = Padded(shared[d])]
          \/ AllPadded /\ pc' = "hash" /\ UNCHANGED shared
  BY DEF normalize_time_on, Migrates, Others, AllPadded
<1>3. Hashable \subseteq Doc
  BY DEF Hashable
<1>4. backfill_qso_row_hash => UNCHANGED Others /\ pc = "hash"
       /\ \/ \E d \in Hashable : /\ UNCHANGED pc
                                 /\ shared' = [shared EXCEPT ![d] = Hashed(shared[d])]
          \/ Hashable = {} /\ pc' = "load" /\ UNCHANGED shared
  BY <1>3 DEF backfill_qso_row_hash, Migrates, Others
<1> QED BY <1>1, <1>2, <1>4

(* Once all is migrated, `qsos` does not change any more. *)
LEMMA NothingLeftToMigrate ==
  ASSUME Migrated, Migration
  PROVE  UNCHANGED shared
BY MigrationSteps DEF Migration, Migrated, AllStamped, AllPadded

LEMMA SharedUnchanged ==
  ASSUME UNCHANGED shared
  PROVE  /\ AllStamped' = AllStamped /\ AllPadded' = AllPadded /\ Hashable' = Hashable
         /\ Migrated' = Migrated /\ HashesKnown' = HashesKnown
         /\ \A d, e : Twins(d, e)' = Twins(d, e)
BY DEF AllStamped, AllPadded, Hashable, Migrated, HashesKnown, Twins

LEMMA MigrationKeepsIInv ==
  ASSUME IInv, Migration
  PROVE  IInv'
<1> USE DEF IInv
<1>1. UNCHANGED Others
  BY MigrationSteps DEF Migration
<1>2. /\ pc \in {"stamp", "pad", "hash"} /\ pc' \in {"stamp", "pad", "hash", "load"}
      /\ shared' \in [Doc -> Document]
  <2>1. CASE backfill_created_at
    BY <2>1, MigrationSteps, DocumentFacts DEF TypeOK
  <2>2. CASE normalize_time_on
    BY <2>2, MigrationSteps, DocumentFacts DEF TypeOK
  <2>3. CASE backfill_qso_row_hash
    BY <2>3, MigrationSteps, DocumentFacts DEF TypeOK, Hashable
  <2> QED BY <2>1, <2>2, <2>3 DEF Migration
<1>3. TypeOK'
  BY <1>1, <1>2 DEF TypeOK, Others
<1>4. HashesKnown' /\ Phases'
  <2>1. CASE backfill_created_at
    <3>1. CASE AllStamped /\ pc' = "pad" /\ UNCHANGED shared
      BY <3>1, SharedUnchanged DEF Phases
    <3>2. CASE \E d \in Doc : /\ ~shared[d].stamped /\ UNCHANGED pc
                              /\ shared' = [shared EXCEPT ![d] = Stamped(shared[d])]
      <4>1. PICK d \in Doc : /\ ~shared[d].stamped /\ UNCHANGED pc
                             /\ shared' = [shared EXCEPT ![d] = Stamped(shared[d])]
        BY <3>2
      <4>2. shared'[d].rowHash = None \/ OnceHashed(shared'[d])
        BY <4>1, StampedFacts DEF HashesKnown, TypeOK
      <4>3. HashesKnown'
        BY <4>1, <4>2 DEF HashesKnown, TypeOK
      <4> QED BY <4>1, <4>3, <2>1, MigrationSteps DEF Phases
    <3> QED BY <2>1, <3>1, <3>2, MigrationSteps
  <2>2. CASE normalize_time_on
    <3>1. CASE AllPadded /\ pc' = "hash" /\ UNCHANGED shared
      BY <3>1, <2>2, MigrationSteps, SharedUnchanged DEF Phases
    <3>2. CASE \E d \in Doc : /\ ~shared[d].padded /\ UNCHANGED pc
                              /\ shared' = [shared EXCEPT ![d] = Padded(shared[d])]
      <4>1. PICK d \in Doc : /\ ~shared[d].padded /\ UNCHANGED pc
                             /\ shared' = [shared EXCEPT ![d] = Padded(shared[d])]
        BY <3>2
      <4>2. /\ shared'[d].rowHash = None \/ OnceHashed(shared'[d])
            /\ shared'[d].stamped = shared[d].stamped
        BY <4>1, PaddedFacts DEF HashesKnown, TypeOK
      <4>3. HashesKnown'
        BY <4>1, <4>2 DEF HashesKnown, TypeOK
      <4>4. AllStamped'
        BY <4>1, <4>2, <2>2, MigrationSteps DEF Phases, AllStamped, TypeOK
      <4> QED BY <4>1, <4>3, <4>4, <2>2, MigrationSteps DEF Phases
    <3> QED BY <2>2, <3>1, <3>2, MigrationSteps
  <2>3. CASE backfill_qso_row_hash
    <3>1. AllStamped /\ AllPadded /\ pc = "hash"
      BY <2>3, MigrationSteps DEF Phases
    <3>2. CASE Hashable = {} /\ pc' = "load" /\ UNCHANGED shared
      BY <3>1, <3>2, SharedUnchanged DEF Phases, Migrated
    <3>3. CASE \E d \in Hashable : /\ UNCHANGED pc
                                   /\ shared' = [shared EXCEPT ![d] = Hashed(shared[d])]
      <4>1. PICK d \in Hashable : /\ UNCHANGED pc
                                  /\ shared' = [shared EXCEPT ![d] = Hashed(shared[d])]
        BY <3>3
      <4>2. d \in Doc /\ shared[d] \in Document /\ shared'[d] = Hashed(shared[d])
        BY <4>1 DEF Hashable, TypeOK
      <4>3. /\ OnceHashed(shared'[d])
            /\ shared'[d].stamped = shared[d].stamped
            /\ shared'[d].padded = shared[d].padded
        BY <4>2, HashedFacts
      <4>4. AllStamped' /\ AllPadded'
        BY <3>1, <4>1, <4>2, <4>3 DEF AllStamped, AllPadded, TypeOK
      <4>5. HashesKnown'
        BY <4>1, <4>2, <4>3 DEF HashesKnown, TypeOK
      <4> QED BY <3>1, <4>1, <4>4, <4>5 DEF Phases
    <3> QED BY <2>3, <3>2, <3>3, MigrationSteps
  <2> QED BY <2>1, <2>2, <2>3 DEF Migration
<1>5. CopiesAreOwned' /\ LogsAreMigrated'
  <2>1. ASSUME NEW u \in User, NEW d \in Doc, logs[u][d] # None
        PROVE  UNCHANGED shared
    BY <2>1, NothingLeftToMigrate DEF CopiesAreOwned
  <2>2. CopiesAreOwned'
    <3>1. SUFFICES ASSUME NEW u \in User, NEW d \in Doc, logs'[u][d] # None
                   PROVE  /\ Migrated' /\ users'[u] = shared'[d].callsign
                          /\ pc' # "copy"
      BY DEF CopiesAreOwned
    <3>2. Migrated /\ users[u] = shared[d].callsign /\ UNCHANGED shared
      BY <1>1, <2>1, <3>1 DEF CopiesAreOwned, Others
    <3> QED BY <1>1, <1>2, <3>2, SharedUnchanged DEF Others
  <2>3. LogsAreMigrated'
    BY <1>1, <2>1, SharedUnchanged DEF LogsAreMigrated, Others
  <2> QED BY <2>2, <2>3
<1>6. KnownExist' /\ CopiedSoFar' /\ OneHome' /\ WrittenIsThere'
  BY <1>1, <1>2 DEF KnownExist, CopiedSoFar, OneHome, WrittenIsThere, Others
<1> QED BY <1>3, <1>4, <1>5, <1>6

-----------------------------------------------------------------------------
(* The rest of the start *)

LEMMA StartKeepsIInv ==
  ASSUME IInv, Start
  PROVE  IInv'
<1> USE DEF IInv
<1>1. TypeOK'
  BY MigrationAssumption DEF Start, TypeOK
<1>2. HashesKnown' /\ Phases' /\ KnownExist' /\ CopiedSoFar'
  BY SharedUnchanged DEF Start, Phases, KnownExist, CopiedSoFar
<1>3. CopiesAreOwned' /\ LogsAreMigrated' /\ OneHome' /\ WrittenIsThere'
  BY SharedUnchanged DEF Start, CopiesAreOwned, LogsAreMigrated, OneHome, WrittenIsThere
<1> QED BY <1>1, <1>2, <1>3

(* The process ends, by itself or because an index cannot be built. *)
Ends == /\ pc' = "down" /\ known' = Nobody /\ todo' = {} /\ failed' = {}
        /\ UNCHANGED <<shared, logs, users, indexed, cleared, written, disturbed, changes, starts>>

LEMMA EndKeepsIInv ==
  ASSUME IInv, Ends
  PROVE  IInv'
<1> USE DEF IInv, Ends
<1>1. TypeOK'
  BY DEF TypeOK, Nobody
<1>2. HashesKnown' /\ Phases' /\ KnownExist' /\ CopiedSoFar'
  BY SharedUnchanged DEF Phases, KnownExist, CopiedSoFar, Nobody
<1>3. CopiesAreOwned' /\ LogsAreMigrated' /\ OneHome' /\ WrittenIsThere'
  BY SharedUnchanged DEF CopiesAreOwned, LogsAreMigrated, OneHome, WrittenIsThere
<1> QED BY <1>1, <1>2, <1>3

LEMMA LoadUsersKeepsIInv ==
  ASSUME IInv, LoadUsers
  PROVE  IInv'
<1> USE DEF IInv, LoadUsers
<1>1. TypeOK'
  BY DEF TypeOK
<1>2. HashesKnown' /\ Phases' /\ KnownExist' /\ CopiedSoFar'
  BY SharedUnchanged DEF Phases, KnownExist, CopiedSoFar
<1>3. CopiesAreOwned' /\ LogsAreMigrated' /\ OneHome' /\ WrittenIsThere'
  BY SharedUnchanged DEF CopiesAreOwned, LogsAreMigrated, OneHome, WrittenIsThere
<1> QED BY <1>1, <1>2, <1>3

LEMMA PassOverKeepsIInv ==
  ASSUME IInv, NEW d \in Doc, PassOver(d)
  PROVE  IInv'
<1> USE DEF IInv, PassOver
<1>1. TypeOK'
  BY DEF TypeOK
<1>2. HashesKnown' /\ Phases' /\ KnownExist'
  BY SharedUnchanged DEF Phases, KnownExist
<1>3. CopiedSoFar'
  <2>1. ASSUME NEW u \in User PROVE Owners(d) # {u}
    BY FS_Singleton, Cardinality(Owners(d)) # 1
  <2> QED BY <2>1 DEF CopiedSoFar, Owners, Taken
<1>4. CopiesAreOwned' /\ LogsAreMigrated' /\ OneHome' /\ WrittenIsThere'
  BY SharedUnchanged DEF CopiesAreOwned, LogsAreMigrated, OneHome, WrittenIsThere
<1> QED BY <1>1, <1>2, <1>3, <1>4

LEMMA CopiedKeepsIInv ==
  ASSUME IInv, Copied
  PROVE  IInv'
<1> USE DEF IInv, Copied
<1>1. TypeOK'
  BY DEF TypeOK, Nobody
<1>2. HashesKnown' /\ Phases' /\ KnownExist' /\ CopiedSoFar'
  BY SharedUnchanged DEF Phases, KnownExist, CopiedSoFar, Nobody
<1>3. CopiesAreOwned' /\ LogsAreMigrated' /\ OneHome' /\ WrittenIsThere'
  BY SharedUnchanged DEF CopiesAreOwned, LogsAreMigrated, OneHome, WrittenIsThere
<1> QED BY <1>1, <1>2, <1>3

LEMMA CopyDocKeepsIInv ==
  ASSUME IInv, NEW d \in Doc, NEW u \in User, CopyDoc(d, u)
  PROVE  IInv'
<1> USE DEF IInv
<1> DEFINE Copies == logs[u][d] = None /\ ~Taken(u, shared[d].rowHash)
<1>1. /\ pc = "copy" /\ todo' = todo \ {d} /\ indexed' = indexed \cup {u}
      /\ Owners(d) = {u} /\ known[u] = shared[d].callsign
      /\ UNCHANGED <<shared, users, pc, known, cleared, written, disturbed, changes, starts, failed>>
  BY DEF CopyDoc, Owners
<1>2. \A v \in User, i \in Id :
        logs'[v][i] = IF Copies /\ v = u /\ i = d THEN shared[d] ELSE logs[v][i]
  BY DEF CopyDoc, TypeOK
<1>3. shared[d] \in Document /\ shared[d] # None /\ d \in Id
  BY DocumentFacts DEF TypeOK, Id
<1>4. Migrated /\ Migrated'
  BY <1>1, SharedUnchanged DEF Phases
<1>5. TypeOK'
  <2>1. logs' \in [User -> [Id -> Document \cup {None}]]
    BY <1>3 DEF TypeOK, CopyDoc
  <2> QED BY <1>1, <2>1 DEF TypeOK
<1>6. HashesKnown' /\ Phases' /\ KnownExist'
  BY <1>1, SharedUnchanged DEF Phases, KnownExist
<1>7. users[u] = shared[d].callsign
  <2>1. known[u] # None
    BY <1>1, <1>3, MigrationAssumption DEF Document
  <2> QED BY <1>1, <2>1 DEF KnownExist
<1>8. CopiesAreOwned'
  <2> SUFFICES ASSUME NEW v \in User, NEW e \in Doc, logs'[v][e] # None
               PROVE  users[v] = shared[e].callsign /\ known[v] = users[v]
    BY <1>1, <1>4 DEF CopiesAreOwned
  <2>1. e \in Id
    BY DEF Id
  <2> QED BY <1>1, <1>2, <1>7, <2>1 DEF CopiesAreOwned
<1>9. OneHome'
  <2> SUFFICES ASSUME NEW e \in Doc, NEW v \in User, NEW w \in User,
                      logs'[v][e] # None, logs'[w][e] # None
               PROVE  v = w
    BY DEF OneHome
  <2>1. e \in Id
    BY DEF Id
  <2>2. ASSUME NEW x \in User, logs[x][d] # None PROVE x = u
    <3>1. known[x] = shared[d].callsign
      BY <1>1, <2>2 DEF CopiesAreOwned
    <3> QED BY <1>1, <3>1 DEF Owners
  <2>3. CASE e = d
    BY <1>2, <2>1, <2>2, <2>3
  <2>4. CASE e # d
    BY <1>2, <2>1, <2>4 DEF OneHome
  <2> QED BY <2>3, <2>4
<1>10. LogsAreMigrated'
  <2> SUFFICES ASSUME NEW v \in User, NEW i \in Id, logs'[v][i] # None
               PROVE  IF <<v, i>> \in written
                      THEN logs'[v][i].rowHash = Hash(logs'[v][i])
                      ELSE /\ logs'[v][i].stamped /\ logs'[v][i].padded
                           /\ \/ OnceHashed(logs'[v][i])
                              \/ /\ logs'[v][i].rowHash = None /\ i \in Doc
                                 /\ \E e \in Doc : Twins(i, e)'
    BY <1>1 DEF LogsAreMigrated
  <2>1. CASE logs'[v][i] = logs[v][i]
    BY <1>1, <2>1, SharedUnchanged DEF LogsAreMigrated
  <2>2. CASE Copies /\ v = u /\ i = d /\ logs'[v][i] = shared[d]
    <3>4. <<v, i>> \notin written
      BY <2>2 DEF WrittenIsThere
    <3>1. shared[d].rowHash = None => \E e \in Doc : Twins(d, e)
      BY <1>4 DEF Migrated, Hashable
    <3>2. shared[d].stamped /\ shared[d].padded
      BY <1>4 DEF Migrated, AllStamped, AllPadded
    <3>3. shared[d].rowHash # None => OnceHashed(shared[d])
      BY DEF HashesKnown
    <3> QED BY <1>1, <2>2, <3>1, <3>2, <3>3, <3>4, SharedUnchanged
  <2> QED BY <1>2, <2>1, <2>2
<1>11. CopiedSoFar'
  <2> SUFFICES ASSUME NEW e \in Doc \ failed, e \notin todo \/ e = d, NEW v \in User,
                      Owners(e) = {v}
               PROVE  \/ logs'[v][e] # None \/ v \in disturbed
                      \/ Taken(v, shared[e].rowHash)'
    BY <1>1 DEF CopiedSoFar, Owners
  <2>1. e \in Id
    BY DEF Id
  <2>2. Taken(v, shared[e].rowHash) => Taken(v, shared[e].rowHash)'
    BY <1>1, <1>2, <1>3 DEF Taken
  <2>3. CASE e = d
    <3>1. v = u
      BY <1>1, <2>3
    <3> QED BY <1>2, <1>3, <2>2, <2>3, <3>1
  <2>4. CASE e \notin todo
    BY <1>1, <1>2, <1>3, <2>1, <2>2, <2>4 DEF CopiedSoFar
  <2> QED BY <2>3, <2>4
<1>12. WrittenIsThere'
  BY <1>1, <1>2, <1>3 DEF WrittenIsThere
<1> QED BY <1>5, <1>6, <1>8, <1>9, <1>10, <1>11, <1>12

LEMMA CopyFailsKeepsIInv ==
  ASSUME IInv, NEW d \in Doc, NEW u \in User, CopyFails(d, u)
  PROVE  IInv'
<1> USE DEF IInv, CopyFails
<1>1. TypeOK'
  BY DEF TypeOK
<1>2. HashesKnown' /\ Phases' /\ KnownExist'
  BY SharedUnchanged DEF Phases, KnownExist
<1>3. CopiedSoFar'
  BY DEF CopiedSoFar, Owners, Taken
<1>4. CopiesAreOwned' /\ LogsAreMigrated' /\ OneHome' /\ WrittenIsThere'
  BY SharedUnchanged DEF CopiesAreOwned, LogsAreMigrated, OneHome, WrittenIsThere
<1> QED BY <1>1, <1>2, <1>3, <1>4

-----------------------------------------------------------------------------
(* Administrators and operators *)

LEMMA CreateUserKeepsIInv ==
  ASSUME IInv, NEW u \in User, NEW c \in Callsign, CreateUser(u, c)
  PROVE  IInv'
<1> USE DEF IInv
<1>1. /\ users[u] = None /\ users' = [users EXCEPT ![u] = c]
      /\ UNCHANGED <<shared, logs, pc, known, todo, indexed, cleared, written, disturbed, starts, failed>>
      /\ changes' \in 0..MaxChanges
  BY MigrationAssumption DEF CreateUser, Change, TypeOK
<1>2. TypeOK'
  BY <1>1 DEF TypeOK
<1>3. HashesKnown' /\ Phases'
  BY <1>1, SharedUnchanged DEF Phases
<1>4. known[u] = None
  BY <1>1 DEF KnownExist
<1>5. KnownExist'
  BY <1>1, <1>4 DEF KnownExist, TypeOK
<1>6. CopiedSoFar' /\ OneHome' /\ LogsAreMigrated' /\ WrittenIsThere'
  BY <1>1, SharedUnchanged
     DEF CopiedSoFar, OneHome, LogsAreMigrated, WrittenIsThere, Owners, Taken
<1>7. \A d \in Doc : logs[u][d] = None
  <2> SUFFICES ASSUME NEW d \in Doc, logs[u][d] # None PROVE FALSE
    OBVIOUS
  <2>1. shared[d].callsign = None /\ shared[d] \in Document
    BY <1>1 DEF CopiesAreOwned, TypeOK
  <2> QED BY <2>1, MigrationAssumption DEF Document
<1>8. CopiesAreOwned'
  BY <1>1, <1>7, SharedUnchanged DEF CopiesAreOwned, TypeOK
<1> QED BY <1>2, <1>3, <1>5, <1>6, <1>8

LEMMA ClearLogKeepsIInv ==
  ASSUME IInv, NEW u \in User, ClearLog(u)
  PROVE  IInv'
<1> USE DEF IInv
<1>1. /\ UNCHANGED <<shared, users, pc, known, todo, indexed, starts, failed>>
      /\ changes' \in 0..MaxChanges /\ disturbed' = disturbed \cup {u}
  BY MigrationAssumption DEF ClearLog, Change, TypeOK
<1>2. /\ logs' \in [User -> [Id -> Document \cup {None}]]
      /\ cleared' \subseteq User \X Id /\ written' \subseteq User \X Id
  BY DEF ClearLog, TypeOK
<1>3. \A v \in User, i \in Id : /\ logs'[v][i] \in {logs[v][i], None}
                                /\ v # u => logs'[v][i] = logs[v][i]
  BY DEF ClearLog, TypeOK
<1>9. \A v \in User, i \in Id :
        /\ <<v, i>> \in written' => <<v, i>> \in written /\ logs'[v][i] = logs[v][i]
        /\ logs'[v][i] # None => (<<v, i>> \in written' <=> <<v, i>> \in written)
  BY DEF ClearLog, TypeOK
<1>4. TypeOK'
  BY <1>1, <1>2 DEF TypeOK
<1>5. HashesKnown' /\ Phases' /\ KnownExist'
  BY <1>1, SharedUnchanged DEF Phases, KnownExist
<1>6. CopiesAreOwned' /\ OneHome'
  BY <1>1, <1>3, SharedUnchanged DEF CopiesAreOwned, OneHome, Id
<1>7. LogsAreMigrated' /\ WrittenIsThere'
  <2>1. WrittenIsThere'
    BY <1>9 DEF WrittenIsThere
  <2>2. LogsAreMigrated'
    BY <1>1, <1>3, <1>9, SharedUnchanged DEF LogsAreMigrated
  <2> QED BY <2>1, <2>2
<1>8. CopiedSoFar'
  <2> SUFFICES ASSUME pc = "copy", NEW d \in Doc \ (todo \cup failed), NEW v \in User,
                      Owners(d) = {v}, v # u
               PROVE  \/ logs'[v][d] # None \/ v \in disturbed
                      \/ Taken(v, shared[d].rowHash)'
    BY <1>1 DEF CopiedSoFar, Owners
  <2> QED BY <1>1, <1>3 DEF CopiedSoFar, Taken, Id
<1> QED BY <1>4, <1>5, <1>6, <1>7, <1>8

(* Whatever is written to a log carries the rowHash of its content. *)
Writes(u, i, r) ==
  /\ pc = "up" /\ changes' \in 0..MaxChanges
  /\ logs' = [logs EXCEPT ![u][i] = Hashed(r)] /\ written' = written \cup {<<u, i>>}
  /\ UNCHANGED <<shared, users, pc, known, todo, indexed, cleared, disturbed, starts, failed>>

LEMMA WriteKeepsIInv ==
  ASSUME IInv, NEW u \in User, NEW i \in Id, NEW r \in Document, Writes(u, i, r),
         i \in Doc => logs[u][i] # None
  PROVE  IInv'
<1> USE DEF IInv
<1>1. \A v \in User, j \in Id :
        logs'[v][j] = IF v = u /\ j = i THEN Hashed(r) ELSE logs[v][j]
  BY DEF Writes, TypeOK
<1>2. Hashed(r) \in Document /\ Hashed(r) # None
  BY DocumentFacts
<1>3. TypeOK'
  BY <1>2 DEF Writes, TypeOK
<1>4. HashesKnown' /\ Phases' /\ KnownExist' /\ CopiedSoFar'
  BY SharedUnchanged DEF Writes, Phases, KnownExist, CopiedSoFar
<1>5. CopiesAreOwned' /\ OneHome'
  BY <1>1, SharedUnchanged DEF Writes, CopiesAreOwned, OneHome, Id
<1>6. LogsAreMigrated' /\ WrittenIsThere'
  <2>1. Hashed(r).rowHash = Hash(Hashed(r))
    BY HashedFacts
  <2>2. \A v \in User, j \in Id :
          <<v, j>> \in written' <=> <<v, j>> \in written \/ (v = u /\ j = i)
    BY DEF Writes
  <2>3. LogsAreMigrated'
    BY <1>1, <2>1, <2>2, SharedUnchanged DEF Writes, LogsAreMigrated
  <2> QED BY <1>1, <1>2, <2>2, <2>3 DEF WrittenIsThere
<1> QED BY <1>3, <1>4, <1>5, <1>6

LEMMA OperatorWrites ==
  ASSUME IInv, NEW u \in User, NEW i \in Id,
         \/ \E b \in Body, six \in BOOLEAN : Log(u, i, b, six) \/ Edit(u, i, b, six)
         \/ Delete(u, i)
  PROVE  IInv'
<1> USE DEF IInv
<1>1. ASSUME NEW r \in Document, Write(u, i, r) PROVE Writes(u, i, r)
  BY <1>1, MigrationAssumption DEF Write, Writes, Change, TypeOK
<1>2. ASSUME NEW b \in Body, NEW six \in BOOLEAN, Log(u, i, b, six) PROVE IInv'
  <2> DEFINE r == [callsign |-> users[u], body |-> b, padded |-> six,
                   deleted |-> FALSE, stamped |-> TRUE, rowHash |-> None]
  <2>1. r \in Document
    BY <1>2 DEF Log, Document, TypeOK
  <2>2. Write(u, i, r) /\ i \notin Doc
    BY <1>2, MigrationAssumption DEF Log
  <2> HIDE DEF r
  <2> QED BY <1>1, <2>1, <2>2, WriteKeepsIInv
<1>3. ASSUME NEW b \in Body, NEW six \in BOOLEAN, Edit(u, i, b, six) PROVE IInv'
  <2> DEFINE r == [logs[u][i] EXCEPT !.body = b, !.padded = six]
  <2>1. logs[u][i] # None /\ logs[u][i] \in Document /\ Write(u, i, r)
    BY <1>3 DEF Edit, TypeOK
  <2>2. r \in Document
    BY <2>1 DEF Document
  <2> HIDE DEF r
  <2> QED BY <1>1, <2>1, <2>2, WriteKeepsIInv
<1>4. CASE Delete(u, i)
  <2> DEFINE r == [logs[u][i] EXCEPT !.deleted = TRUE]
  <2>1. logs[u][i] # None /\ logs[u][i] \in Document /\ Write(u, i, r)
    BY <1>4 DEF Delete, TypeOK
  <2>2. r \in Document
    BY <2>1 DEF Document
  <2> HIDE DEF r
  <2> QED BY <1>1, <2>1, <2>2, WriteKeepsIInv
<1> QED BY <1>2, <1>3, <1>4

-----------------------------------------------------------------------------

LEMMA NextIInv == IInv /\ [Next]_vars => IInv'
<1> SUFFICES ASSUME IInv, [Next]_vars PROVE IInv'
  OBVIOUS
<1>1. CASE UNCHANGED vars
  <2>1. UNCHANGED <<shared, logs, users, pc, known, todo, indexed, cleared,
                    written, disturbed, changes, starts, failed>>
    BY <1>1 DEF vars
  <2>2. TypeOK' /\ HashesKnown' /\ Phases' /\ CopiesAreOwned' /\ KnownExist'
    BY <2>1, SharedUnchanged
       DEF IInv, TypeOK, Phases, CopiesAreOwned, KnownExist
  <2>3. CopiedSoFar' /\ LogsAreMigrated' /\ OneHome'
    BY <2>1, SharedUnchanged
       DEF IInv, CopiedSoFar, LogsAreMigrated, OneHome, Owners, Taken
  <2>4. WrittenIsThere'
    BY <2>1 DEF IInv, WrittenIsThere
  <2> QED BY <2>2, <2>3, <2>4 DEF IInv
<1>2. CASE Starting
  <2>1. CASE Migration
    BY <2>1, MigrationKeepsIInv
  <2>2. ASSUME NEW d \in Doc, NEW u \in User, IndexFails(d, u) PROVE IInv'
    BY <2>2, EndKeepsIInv DEF IndexFails, Ends
  <2> QED
    BY <1>2, <2>1, <2>2, StartKeepsIInv, LoadUsersKeepsIInv, PassOverKeepsIInv,
       CopyDocKeepsIInv, CopyFailsKeepsIInv, CopiedKeepsIInv DEF Starting, Migration
<1>3. CASE Crash
  BY <1>3, EndKeepsIInv DEF Crash, Ends
<1>4. ASSUME NEW u \in User, Use(u) PROVE IInv'
  BY <1>4, CreateUserKeepsIInv, ClearLogKeepsIInv, OperatorWrites DEF Use
<1> QED BY <1>1, <1>2, <1>3, <1>4 DEF Next

LEMMA IInvHolds == Spec => []IInv
BY InitIInv, NextIInv, PTL DEF Spec

(* The collections, the accounts and the course of a start keep their types. *)
THEOREM TypeCorrect == Spec => []TypeOK
<1>1. IInv => TypeOK
  BY DEF IInv
<1> QED BY <1>1, IInvHolds, PTL

(* Wherever a start is interrupted, and whatever is changed meanwhile, what an
   operator's log holds and has not written there has been through every
   migration, with the rowHash it had before TIME_ON was padded or a fresh one;
   what the operator wrote has the rowHash of its content. *)
THEOREM MigratedBeforeCopied == Spec => []LogsAreMigrated
<1>1. IInv => LogsAreMigrated
  BY DEF IInv
<1> QED BY <1>1, IInvHolds, PTL

(* A legacy document is never in the logs of two operators, although accounts
   that share a callsign may be created at any time. *)
THEOREM OneOwner == Spec => []OneHome
<1>1. IInv => OneHome
  BY DEF IInv
<1> QED BY <1>1, IInvHolds, PTL

(* No start changes an entry of a log: edits and deletions survive it. *)
THEOREM CopyKeepsLogs == Spec => StartKeepsLogs
<1> DEFINE Keeps == pc # "up" => \A u \in User, i \in Id :
             logs[u][i] # None => logs'[u][i] \in {logs[u][i], None}
<1>1. IInv /\ [Next]_vars => [Keeps]_vars
  <2> SUFFICES ASSUME IInv, [Next]_vars, pc # "up", NEW u \in User, NEW i \in Id,
                      logs[u][i] # None
               PROVE  logs'[u][i] \in {logs[u][i], None}
    OBVIOUS
  <2> USE DEF IInv
  <2>1. CASE UNCHANGED logs
    BY <2>1
  <2>2. ASSUME NEW d \in Doc, NEW v \in User, CopyDoc(d, v)
        PROVE  logs'[u][i] = logs[u][i]
    BY <2>2 DEF CopyDoc, TypeOK
  <2>3. ASSUME NEW v \in User, ClearLog(v)
        PROVE  logs'[u][i] \in {logs[u][i], None}
    BY <2>3 DEF ClearLog, TypeOK
  <2>4. CASE Starting
    BY <2>1, <2>2, <2>4, MigrationSteps
       DEF Starting, Others, Start, LoadUsers, PassOver, CopyFails, IndexFails, Copied
  <2>5. CASE \E v \in User : Use(v)
    <3>1. ASSUME NEW v \in User, NEW i2 \in Id, NEW r, Write(v, i2, r) PROVE FALSE
      BY <3>1 DEF Write
    <3>2. ASSUME NEW v \in User, NEW c \in Callsign, CreateUser(v, c) PROVE UNCHANGED logs
      BY <3>2 DEF CreateUser
    <3>3. ASSUME NEW v \in User, NEW i2 \in Id, Delete(v, i2) PROVE FALSE
      BY <3>1, <3>3 DEF Delete
    <3>4. ASSUME NEW v \in User, NEW i2 \in Id, NEW b \in Body, NEW six \in BOOLEAN,
                 Log(v, i2, b, six) \/ Edit(v, i2, b, six)
          PROVE  FALSE
      BY <3>1, <3>4 DEF Log, Edit
    <3> QED BY <2>1, <2>3, <2>5, <3>2, <3>3, <3>4 DEF Use
  <2> QED BY <2>1, <2>4, <2>5 DEF Next, Crash, vars
<1> QED BY <1>1, IInvHolds, PTL DEF Spec, StartKeepsLogs

(* A start that completes has copied every document that has one owner. *)
THEOREM CopyIsComplete == Spec => StartCopiesAll
<1> DEFINE Complete == (pc = "copy" /\ pc' = "up") => \A d \in Doc \ failed, u \in User :
             Owners(d) = {u} => \/ logs[u][d] # None \/ u \in disturbed
                                \/ Taken(u, shared[d].rowHash)
<1>1. IInv /\ [Next]_vars => [Complete]_vars
  <2> SUFFICES ASSUME IInv, [Next]_vars, pc = "copy", pc' = "up"
               PROVE  Complete
    OBVIOUS
  <2>1. Copied
    <3>1. ASSUME Starting PROVE Copied
      BY <3>1, MigrationSteps
         DEF Starting, Start, LoadUsers, PassOver, CopyDoc, CopyFails, IndexFails
    <3>2. ASSUME NEW u \in User, Use(u) PROVE FALSE
      BY <3>2 DEF Use, CreateUser, ClearLog, Log, Edit, Delete, Write
    <3> QED BY <3>1, <3>2 DEF Next, Crash, vars
  <2> QED BY <2>1 DEF Copied, IInv, CopiedSoFar
<1> QED BY <1>1, IInvHolds, PTL DEF Spec, StartCopiesAll
-----------------------------------------------------------------------------
(* The unique index on rowHash: MongoDB refuses what would break it, and the
   code never has to find out.                                             *)

IndexHolds == \A u \in indexed : ~HasCopies(u)

(* One entry more or changed makes no copy when its rowHash is new to the log. *)
LEMMA NewHashMakesNoCopy ==
  ASSUME TypeOK, NEW u \in User, ~HasCopies(u), NEW i \in Id, NEW r \in Document,
         r.rowHash = None \/ ~Taken(u, r.rowHash),
         logs' = [logs EXCEPT ![u][i] = r]
  PROVE  ~HasCopies(u)'
<1>1. \A j \in Id : logs'[u][j] = IF j = i THEN r ELSE logs[u][j]
  BY DEF TypeOK
<1>2. r.rowHash # None => \A j \in Id : logs[u][j] # None => logs[u][j].rowHash # r.rowHash
  BY DEF Taken
<1> QED BY <1>1, <1>2 DEF HasCopies

LEMMA OtherLogsKeepTheirs ==
  ASSUME NEW v \in User, logs'[v] = logs[v]
  PROVE  HasCopies(v)' = HasCopies(v)
BY DEF HasCopies

LEMMA CopyKeepsIndex ==
  ASSUME TypeOK, IndexHolds, NEW d \in Doc, NEW u \in User, CopyDoc(d, u)
  PROVE  IndexHolds'
<1>1. ~HasCopies(u) /\ indexed' = indexed \cup {u}
  BY DEF CopyDoc
<1>2. d \in Id /\ shared[d] \in Document
  BY DEF TypeOK, Id
<1>3. ~HasCopies(u)'
  <2>1. CASE logs[u][d] = None /\ ~Taken(u, shared[d].rowHash)
    <3>1. logs' = [logs EXCEPT ![u][d] = shared[d]]
      BY <2>1 DEF CopyDoc
    <3> QED BY <1>1, <1>2, <2>1, <3>1, NewHashMakesNoCopy
  <2>2. CASE ~(logs[u][d] = None /\ ~Taken(u, shared[d].rowHash))
    BY <1>1, <2>2 DEF CopyDoc, HasCopies
  <2> QED BY <2>1, <2>2
<1>4. \A v \in User : v # u => logs'[v] = logs[v]
  BY DEF CopyDoc, TypeOK
<1> QED BY <1>1, <1>3, <1>4, OtherLogsKeepTheirs DEF IndexHolds, TypeOK

LEMMA WriteKeepsIndex ==
  ASSUME TypeOK, IndexHolds, NEW u \in User, NEW i \in Id, NEW r \in Document, Write(u, i, r)
  PROVE  IndexHolds'
<1>1. /\ indexed' = indexed /\ logs' = [logs EXCEPT ![u][i] = Hashed(r)]
      /\ u \in indexed => ~Taken(u, Hash(r))
  BY DEF Write
<1>2. Hashed(r) \in Document /\ Hashed(r).rowHash = Hash(r)
  BY DocumentFacts DEF Hashed, Document
<1>3. u \in indexed => ~HasCopies(u)'
  BY <1>1, <1>2, NewHashMakesNoCopy DEF IndexHolds
<1>4. \A v \in User : v # u => logs'[v] = logs[v]
  BY <1>1 DEF TypeOK
<1> QED BY <1>1, <1>3, <1>4, OtherLogsKeepTheirs DEF IndexHolds, TypeOK

LEMMA ClearKeepsIndex ==
  ASSUME TypeOK, IndexHolds, NEW u \in User, ClearLog(u)
  PROVE  IndexHolds'
<1>1. indexed' = indexed
  BY DEF ClearLog
<1>2. \A v \in User, i \in Id : logs'[v][i] \in {logs[v][i], None}
  BY DEF ClearLog, TypeOK
<1>3. \A v \in User : HasCopies(v)' => HasCopies(v)
  BY <1>2 DEF HasCopies
<1> QED BY <1>1, <1>3 DEF IndexHolds, TypeOK

LEMMA OperatorKeepsIndex ==
  ASSUME IInv, IndexHolds, NEW u \in User, NEW i \in Id,
         \/ \E b \in Body, six \in BOOLEAN : Log(u, i, b, six) \/ Edit(u, i, b, six)
         \/ Delete(u, i)
  PROVE  IndexHolds'
<1>1. \E r \in Document : Write(u, i, r)
  <2>1. ASSUME NEW b \in Body, NEW six \in BOOLEAN, Log(u, i, b, six)
        PROVE  \E r \in Document : Write(u, i, r)
    <3> DEFINE r == [callsign |-> users[u], body |-> b, padded |-> six,
                     deleted |-> FALSE, stamped |-> TRUE, rowHash |-> None]
    <3>1. r \in Document /\ Write(u, i, r)
      BY <2>1 DEF Log, Document, IInv, TypeOK
    <3> QED BY <3>1
  <2>2. ASSUME NEW b \in Body, NEW six \in BOOLEAN, Edit(u, i, b, six)
        PROVE  \E r \in Document : Write(u, i, r)
    <3>1. logs[u][i] \in Document
      BY <2>2 DEF Edit, IInv, TypeOK
    <3>2. [logs[u][i] EXCEPT !.body = b, !.padded = six] \in Document
      BY <3>1 DEF Document
    <3> QED BY <2>2, <3>2 DEF Edit
  <2>3. ASSUME Delete(u, i) PROVE \E r \in Document : Write(u, i, r)
    <3>1. logs[u][i] \in Document
      BY <2>3 DEF Delete, IInv, TypeOK
    <3>2. [logs[u][i] EXCEPT !.deleted = TRUE] \in Document
      BY <3>1 DEF Document
    <3> QED BY <2>3, <3>2 DEF Delete
  <2> QED BY <2>1, <2>2, <2>3
<1>2. TypeOK
  BY DEF IInv
<1> QED BY <1>1, <1>2, WriteKeepsIndex

LEMMA IndexStep == IInv /\ IndexHolds /\ [Next]_vars => IndexHolds'
<1> SUFFICES ASSUME IInv, IndexHolds, [Next]_vars PROVE IndexHolds'
  OBVIOUS
<1> USE DEF IInv
<1>1. ASSUME UNCHANGED <<logs, indexed>> PROVE IndexHolds'
  BY <1>1 DEF IndexHolds, HasCopies
<1>2. ASSUME NEW d \in Doc, NEW u \in User, CopyFails(d, u) PROVE IndexHolds'
  BY <1>2 DEF CopyFails, IndexHolds, HasCopies
<1>3. CASE Starting
  BY <1>1, <1>2, <1>3, MigrationSteps, CopyKeepsIndex
     DEF Starting, Others, Start, LoadUsers, PassOver, IndexFails, Copied
<1>4. CASE \E u \in User : Use(u)
  BY <1>1, <1>4, ClearKeepsIndex, OperatorKeepsIndex DEF Use, CreateUser
<1>5. CASE Crash \/ UNCHANGED vars
  BY <1>1, <1>5 DEF Crash, vars
<1> QED BY <1>3, <1>4, <1>5 DEF Next

(* An index that was built stays true: whatever the copy, the operators and the
   administrators write, no two entries of an indexed log share a rowHash. *)
THEOREM IndexIsKept == Spec => []IndexHolds
<1>1. Init => IndexHolds
  BY DEF Init, IndexHolds
<1> QED BY <1>1, IndexStep, IInvHolds, PTL DEF Spec

(* So a start that a failing index ends has met a log that took its copies
   before it ever had an index: no later start fails over an indexed log. *)
THEOREM IndexFailsAtFirstOnly ==
  Spec => [][\A d \in Doc, u \in User : IndexFails(d, u) => u \notin indexed]_vars
<1>1. IndexHolds => \A d \in Doc, u \in User : IndexFails(d, u) => u \notin indexed
  BY DEF IndexHolds, IndexFails
<1> QED BY <1>1, IndexIsKept, PTL
=============================================================================
