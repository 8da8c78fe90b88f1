--------------------------- MODULE SharedMigration ---------------------------
(***************************************************************************)
(* What the operator application does to legacy data each time it starts   *)
(* (app/main.py, lifespan): three migrations of the shared `qsos`          *)
(* collection, then the copy of its documents into the collections of the  *)
(* operators they belong to (app/qso/collection_migration.py).  Every      *)
(* document is written on its own, so a crash may fall between any two.    *)
(* Administrators work in a process of their own, also while this one      *)
(* starts; operators work once it is up.                                   *)
(*                                                                         *)
(* A document is its callsign (_operator), one value for the ADIF fields   *)
(* but TIME_ON, and what the migrations change: whether _created_at is     *)
(* there, whether TIME_ON has six digits, rowHash.                         *)
(***************************************************************************)
EXTENDS Naturals, FiniteSets

CONSTANTS
  Doc,         \* _ids of the documents in `qsos`
  NewId,       \* _ids of contacts logged later
  User, Callsign, Body,
  Legacy,      \* the documents earlier versions may have left in `qsos`
  None,        \* no document, no rowHash, no account
  MaxChanges,  \* bound on what operators and administrators do
  MaxStarts    \* bound on the starts of the application

Content == [callsign : Callsign, body : Body, padded : BOOLEAN, deleted : BOOLEAN]
Document == [callsign : Callsign, body : Body, padded : BOOLEAN, deleted : BOOLEAN,
             stamped : BOOLEAN, rowHash : Content \cup {None}]

(* canonical_document_hash: equal for equal content, _created_at left out *)
Hash(r) == [callsign |-> r.callsign, body |-> r.body, padded |-> r.padded,
            deleted |-> r.deleted]

Stamped(r) == [r EXCEPT !.stamped = TRUE]
Padded(r) == [r EXCEPT !.padded = TRUE]
Hashed(r) == [r EXCEPT !.rowHash = Hash(r)]

(* The rowHash of the content, or of what it was before TIME_ON was padded:
   padding leaves a rowHash as it is, and so does the migration after it. *)
OnceHashed(r) == \/ r.rowHash = Hash(r)
                 \/ r.padded /\ r.rowHash = Hash([r EXCEPT !.padded = FALSE])

ASSUME MigrationAssumption ==
  /\ Doc \cap NewId = {} /\ None \notin Document \cup Content \cup Callsign
  /\ Legacy \subseteq Document
  /\ \A r \in Legacy : r.rowHash = None \/ OnceHashed(r)
  /\ MaxChanges \in Nat /\ MaxStarts \in Nat

VARIABLES
  shared,    \* the collection `qsos`
  logs,      \* the collections <username>_qsos
  users,     \* callsign of each account
  pc,        \* the step of the start, "up" or "down"
  known,     \* the accounts the copy loaded
  todo,      \* documents its cursor has still to return
  failed,    \* documents whose copy raised, in its report
  indexed,   \* logs with the unique index on rowHash
  cleared,   \* entries that were cleared for good (history)
  written,   \* entries operators have logged, edited or deleted (history)
  disturbed, \* logs an administrator cleared during this start (history)
  changes, starts

vars == <<shared, logs, users, pc, known, todo, failed, indexed, cleared, written,
          disturbed, changes, starts>>

Id == Doc \cup NewId
Nobody == [u \in User |-> None]

Init ==
  /\ shared \in [Doc -> Legacy]
  /\ \A d, e \in Doc : shared[d].rowHash = shared[e].rowHash => d = e \/ shared[d].rowHash = None
  /\ logs = [u \in User |-> [i \in Id |-> None]]
  /\ users \in [User -> Callsign \cup {None}]
  /\ pc = "down" /\ known = Nobody /\ todo = {} /\ failed = {} /\ indexed = {}
  /\ cleared = {} /\ written = {} /\ disturbed = {} /\ changes = 0 /\ starts = 0

-----------------------------------------------------------------------------
(* The start *)

(* Mutant: one-time migrations are not run again after the first start. *)
StartMigratingOnce ==
  /\ pc = "down" /\ starts < MaxStarts
  /\ pc' = IF starts = 0 THEN "stamp" ELSE "load"
  /\ starts' = starts + 1 /\ disturbed' = {}
  /\ UNCHANGED <<shared, logs, users, known, todo, indexed, cleared, written, changes, failed>>

Start ==
  /\ pc = "down" /\ starts < MaxStarts
  /\ pc' = "stamp" /\ starts' = starts + 1 /\ disturbed' = {}
  /\ UNCHANGED <<shared, logs, users, known, todo, indexed, cleared, written, changes, failed>>

(* Mutant: the next process goes on with the cursor of this one. *)
CrashKeepingCursor ==
  /\ pc # "down" /\ pc' = "down" /\ known' = Nobody /\ failed' = {}
  /\ UNCHANGED <<shared, logs, users, todo, indexed, cleared, written, disturbed, changes, starts>>

Crash ==
  /\ pc # "down" /\ pc' = "down" /\ known' = Nobody /\ todo' = {} /\ failed' = {}
  /\ UNCHANGED <<shared, logs, users, indexed, cleared, written, disturbed, changes, starts>>

(* One migration writes the documents it is for, one by one, then the next runs. *)
Migrates(step, docs, result, next) ==
  /\ pc = step
  /\ \/ \E d \in docs : shared' = [shared EXCEPT ![d] = result[d]] /\ UNCHANGED pc
     \/ docs = {} /\ pc' = next /\ UNCHANGED shared
  /\ UNCHANGED <<logs, users, known, todo, indexed, cleared, written, disturbed, changes, starts, failed>>

backfill_created_at ==
  Migrates("stamp", {d \in Doc : ~shared[d].stamped},
           [d \in Doc |-> Stamped(shared[d])], "pad")

normalize_time_on ==
  Migrates("pad", {d \in Doc : ~shared[d].padded},
           [d \in Doc |-> Padded(shared[d])], "hash")

(* Documents without rowHash, less those that share theirs with another. *)
Twins(d, e) ==
  /\ d # e
  /\ \/ shared[e].rowHash = Hash(shared[d])
     \/ shared[e].rowHash = None /\ Hash(shared[e]) = Hash(shared[d])
Hashable == {d \in Doc : shared[d].rowHash = None /\ \A e \in Doc : ~Twins(d, e)}

backfill_qso_row_hash ==
  Migrates("hash", Hashable, [d \in Doc |-> Hashed(shared[d])], "load")

LoadUsers ==
  /\ pc = "load" /\ pc' = "copy"
  /\ known' = users /\ todo' = Doc
  /\ UNCHANGED <<shared, logs, users, indexed, cleared, written, disturbed, changes, starts, failed>>

(* The accounts a document may belong to; it is copied when there is just one. *)
Owners(d) == {u \in User : known[u] = shared[d].callsign}

Taken(u, hash) == hash # None /\ \E i \in Id : logs[u][i] # None /\ logs[u][i].rowHash = hash

(* Accounts created since the last start have no index, and may hold copies. *)
HasCopies(u) == \E i, j \in Id : i # j /\ logs[u][i] # None /\ logs[u][j] # None
  /\ logs[u][i].rowHash # None /\ logs[u][i].rowHash = logs[u][j].rowHash

PassOver(d) ==
  /\ pc = "copy" /\ d \in todo /\ todo' = todo \ {d}
  /\ Cardinality(Owners(d)) # 1
  /\ UNCHANGED <<shared, logs, users, pc, known, indexed, cleared, written, disturbed, changes, starts, failed>>

(* Mutant: the last account with the callsign owns the document. *)
CopyDocToLast(d, u) ==
  /\ pc = "copy" /\ d \in todo /\ todo' = todo \ {d}
  /\ u \in Owners(d) /\ ~HasCopies(u)
  /\ indexed' = indexed \cup {u}
  /\ logs' = IF logs[u][d] = None /\ ~Taken(u, shared[d].rowHash)
             THEN [logs EXCEPT ![u][d] = shared[d]] ELSE logs
  /\ UNCHANGED <<shared, users, pc, known, cleared, written, disturbed, changes, starts, failed>>

(* Mutant: $set for $setOnInsert. *)
CopyDocOver(d, u) ==
  /\ pc = "copy" /\ d \in todo /\ todo' = todo \ {d}
  /\ Owners(d) = {u} /\ ~HasCopies(u)
  /\ indexed' = indexed \cup {u}
  /\ logs' = IF ~Taken(u, shared[d].rowHash)
             THEN [logs EXCEPT ![u][d] = shared[d]] ELSE logs
  /\ UNCHANGED <<shared, users, pc, known, cleared, written, disturbed, changes, starts, failed>>

(* Mutant: one ordered bulk write, which ends at the first conflict. *)
CopyDocInOrder(d, u) ==
  /\ pc = "copy" /\ d \in todo
  /\ Owners(d) = {u} /\ ~HasCopies(u)
  /\ indexed' = indexed \cup {u}
  /\ IF logs[u][d] = None /\ ~Taken(u, shared[d].rowHash)
     THEN logs' = [logs EXCEPT ![u][d] = shared[d]] /\ todo' = todo \ {d}
     ELSE logs' = logs /\ todo' = {}
  /\ UNCHANGED <<shared, users, pc, known, cleared, written, disturbed, changes, starts, failed>>

(* The owner's index first, then update_one(..., $setOnInsert, upsert): an _id
   that is there is left alone, and a rowHash that is there makes it a conflict. *)
CopyDoc(d, u) ==
  /\ pc = "copy" /\ d \in todo /\ todo' = todo \ {d}
  /\ Owners(d) = {u} /\ ~HasCopies(u)
  /\ indexed' = indexed \cup {u}
  /\ logs' = IF logs[u][d] = None /\ ~Taken(u, shared[d].rowHash)
             THEN [logs EXCEPT ![u][d] = shared[d]] ELSE logs
  /\ UNCHANGED <<shared, users, pc, known, cleared, written, disturbed, changes, starts, failed>>

(* The write itself raises: the document is reported, and the copy goes on. *)
CopyFails(d, u) ==
  /\ pc = "copy" /\ d \in todo /\ todo' = todo \ {d} /\ failed' = failed \cup {d}
  /\ Owners(d) = {u} /\ ~HasCopies(u)
  /\ indexed' = indexed \cup {u}
  /\ UNCHANGED <<shared, logs, users, pc, known, cleared, written, disturbed, changes, starts>>

(* The index cannot be built over copies: the exception ends the start. *)
IndexFails(d, u) ==
  /\ pc = "copy" /\ d \in todo /\ Owners(d) = {u} /\ HasCopies(u)
  /\ pc' = "down" /\ known' = Nobody /\ todo' = {} /\ failed' = {}
  /\ UNCHANGED <<shared, logs, users, indexed, cleared, written, disturbed, changes, starts>>

Copied ==
  /\ pc = "copy" /\ todo = {} /\ pc' = "up" /\ known' = Nobody /\ failed' = {}
  /\ UNCHANGED <<shared, logs, users, todo, indexed, cleared, written, disturbed, changes, starts>>

-----------------------------------------------------------------------------
(* Administrators, at any time *)

Change == changes < MaxChanges /\ changes' = changes + 1

CreateUser(u, c) ==
  /\ Change /\ users[u] = None
  /\ users' = [users EXCEPT ![u] = c]
  /\ UNCHANGED <<shared, logs, pc, known, todo, indexed, cleared, written, disturbed, starts, failed>>

(* clear_operator_log, also asked for by the operator once the application is up *)
ClearLog(u) ==
  LET gone == {i \in Id : logs[u][i] # None /\ ~logs[u][i].deleted} IN
  /\ Change /\ users[u] # None
  /\ logs' = [logs EXCEPT ![u] = [i \in Id |-> IF i \in gone THEN None ELSE @[i]]]
  /\ cleared' = cleared \cup ({u} \X gone) /\ written' = written \ ({u} \X gone)
  /\ disturbed' = disturbed \cup {u}
  /\ UNCHANGED <<shared, users, pc, known, todo, indexed, starts, failed>>

(* Operators, once the application is up: log, edit, delete.  A TIME_ON of four
   digits is stored as it is sent, and no migration pads it in a log. *)

Write(u, i, r) ==
  /\ pc = "up" /\ Change
  /\ u \in indexed => ~Taken(u, Hash(r))
  /\ logs' = [logs EXCEPT ![u][i] = Hashed(r)]
  /\ written' = written \cup {<<u, i>>}
  /\ UNCHANGED <<shared, users, pc, known, todo, indexed, cleared, disturbed, starts, failed>>

Log(u, i, b, six) ==
  /\ users[u] # None /\ logs[u][i] = None /\ i \in NewId /\ <<u, i>> \notin cleared
  /\ Write(u, i, [callsign |-> users[u], body |-> b, padded |-> six,
                  deleted |-> FALSE, stamped |-> TRUE, rowHash |-> None])

Edit(u, i, b, six) ==
  /\ logs[u][i] # None /\ ~logs[u][i].deleted
  /\ b # logs[u][i].body \/ six # logs[u][i].padded
  /\ Write(u, i, [logs[u][i] EXCEPT !.body = b, !.padded = six])

Delete(u, i) ==
  /\ logs[u][i] # None /\ ~logs[u][i].deleted
  /\ Write(u, i, [logs[u][i] EXCEPT !.deleted = TRUE])

-----------------------------------------------------------------------------

Starting ==
  \/ Start \/ backfill_created_at \/ normalize_time_on \/ backfill_qso_row_hash
  \/ LoadUsers
  \/ \E d \in Doc : PassOver(d)
  \/ \E d \in Doc, u \in User : CopyDoc(d, u) \/ CopyFails(d, u) \/ IndexFails(d, u)
  \/ Copied

Use(u) ==
  \/ \E c \in Callsign : CreateUser(u, c)
  \/ ClearLog(u)
  \/ \E i \in Id, b \in Body, six \in BOOLEAN : Log(u, i, b, six) \/ Edit(u, i, b, six)
  \/ \E i \in Id : Delete(u, i)

Next == Starting \/ Crash \/ \E u \in User : Use(u)

Spec == Init /\ [][Next]_vars

-----------------------------------------------------------------------------
(* Properties *)

TypeOK ==
  /\ shared \in [Doc -> Document]
  /\ logs \in [User -> [Id -> Document \cup {None}]]
  /\ users \in [User -> Callsign \cup {None}] /\ known \in [User -> Callsign \cup {None}]
  /\ pc \in {"down", "stamp", "pad", "hash", "load", "copy", "up"}
  /\ indexed \subseteq User /\ todo \subseteq Doc /\ failed \subseteq Doc
  /\ todo # {} \/ failed # {} => pc = "copy"
  /\ cleared \subseteq User \X Id /\ written \subseteq User \X Id /\ disturbed \subseteq User
  /\ changes \in 0..MaxChanges /\ starts \in 0..MaxStarts

(* Whatever the crashes, a document that reaches an operator's log has been
   through all three migrations: nothing migrates it there any more.  Its
   rowHash is that of its content or of what that was before TIME_ON was
   padded; without one, the document had a twin in `qsos`.  What an operator
   logs, edits or deletes carries the rowHash of its content from then on. *)
LogsAreMigrated == \A u \in User, i \in Id : logs[u][i] # None =>
  IF <<u, i>> \in written
  THEN logs[u][i].rowHash = Hash(logs[u][i])
  ELSE /\ logs[u][i].stamped /\ logs[u][i].padded
       /\ \/ OnceHashed(logs[u][i])
          \/ logs[u][i].rowHash = None /\ i \in Doc /\ \E e \in Doc : Twins(i, e)

(* A legacy document ends up in one operator's log at most, also when accounts
   with the same callsign are created between two starts. *)
OneHome == \A d \in Doc, u, v \in User :
  logs[u][d] # None /\ logs[v][d] # None => u = v

(* A start never changes an entry an operator already has: edits and deletions
   made in the log survive every later copy. *)
StartKeepsLogs == [][pc # "up" => \A u \in User, i \in Id :
  logs[u][i] # None => logs'[u][i] \in {logs[u][i], None}]_vars

(* When a start completes, every document of `qsos` with exactly one owner is
   in that owner's log, unless its own write failed, a contact with the same
   rowHash was there under another _id, or the log was cleared meanwhile. *)
StartCopiesAll == [][(pc = "copy" /\ pc' = "up") => \A d \in Doc \ failed, u \in User :
  Owners(d) = {u} => \/ logs[u][d] # None \/ u \in disturbed
                     \/ Taken(u, shared[d].rowHash)]_vars

(* app/qso/service.py:610, clear_operator_log: "Permanently delete all active
   (non-soft-deleted) QSOs for an operator."  What was cleared stays away. *)
ClearedStaysCleared == \A e \in cleared : logs[e[1]][e[2]] = None
=============================================================================
