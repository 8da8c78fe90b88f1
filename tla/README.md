# Verification of ollog

TLA+ models of [ollog](../src/README.md), a multi-operator ham-radio logbook, with TLC runs that check them on
small instances and TLAPS proofs of what matters most. Paths below are relative to `src/` unless they end in
`.tla` or `.cfg`. `PROJECT.json` maps every definition to the lines it models and lists runs, hazards, findings
and theorems.

## 1. The system

ollog is two processes on one MongoDB database (`docker-compose.yml`): the **operator application**
(`app/main.py`: API, browser pages, UDP listener, ACLog bridges, live feed, scheduled backups) and the **admin
service** (`app/admin_main.py`: accounts, application logs, restore). Each is one asyncio event loop: code between
two awaits runs alone, and everything interleaves at awaits. There are no MongoDB transactions. Atomic are single
document writes; `delete_many`, `update_many` and loops of writes are not.

| component | state | operations | interacts with |
|---|---|---|---|
| QSO store (`app/qso`) | `<username>_qsos` collections with a unique `rowHash` index | submit, import, duplicate review, patch, soft delete, clear, list | every ingestion path calls `service.py`; live feed |
| UDP listener (`app/udp`) | token and operator caches with dirty flags | datagram → user → `ingest_qso_record` | token requests notify the token cache; the admin service notifies a cache of its own |
| API tokens (`app/tokens`) | `api_tokens` | create, revoke, authenticate | UDP token cache |
| ACLog manager (`app/aclog/manager.py`) | `_bridges`, one task per enabled bridge row | scan, reconcile, stop | reads profiles; cancels and awaits client tasks |
| ACLog client (`app/aclog/client.py`, `parser.py`, `identity.py`) | connection, textbox cache, one pending contact | read a message, request the full record, import | N3FJP ACLog over TCP; QSO store |
| ACLog manual sync (`app/aclog/sync.py`) | a report | fetch all records, import what is missing | ACLog over TCP; QSO store, beside the live bridge |
| Startup migrations (`main.py`, `qso/collection_migration.py`, `qso/row_hash_migration.py`) | legacy collection `qsos`, index creation | stamp, pad, hash, copy to owners | user accounts, QSO store |
| Accounts, bootstrap (`app/admin`, `app/auth`) | `users` | create, enable/disable, reset password, bootstrap | UDP operator cache (of its own process), migrations |
| Profile and custom fields (`app/profile`, `qso/custom_fields.py`) | fields of the user document, bridge rows | update | ACLog manager scans them |
| Live feed (`app/feed`) | one queue per browser | broadcast, subscribe | fed by inserts |
| Application logs (`app/internal_logs`) | log entries, cached settings | log, change settings, query | called everywhere; never raises |
| Backup and restore (`app/backup`, `admin/ui_router.py`) | backup files | dump, drop and insert | the whole database, in threads of both processes |
| ADIF parser and serializer (`app/adif`) | none | text ↔ records | import, export, UDP |
| Statistics, callsign prefixes, configuration | none | reads | |

### What is hard, and what correct means

* **QSO store.** Handlers check, then insert; PATCH and DELETE read a document, compute `rowHash` and
  `qso_date_utc` from that snapshot, and write without checking that it still holds. Correct: no exact copies;
  near duplicates only by the documented race or by `force`; stored hash and instant agree with the document, as far as
  the API lets them;
  what was reported as accepted is there; deleted contacts stay as they were.
* **UDP routing.** Reloads of a cache overlap with one another and with notifications. Correct: revoked tokens
  stop working, new ones work, and a rule that fails (token, OPERATOR, UDP_OPERATOR) never gives way to a weaker one.
* **ACLog manager.** Cancellation of a task that awaits another; exceptions in `finally`. Correct: one client per
  row, none orphaned, edits and shutdown take effect.
* **ACLog client.** Announcements, answers and typed text share a connection but not an order of meaning; one
  slot. Correct: each announced contact has one outcome, contacts are imported in order and once, and only the
  operator's own.
* **Migrations.** Crash between any two writes; run again at each start over data that changed meanwhile.
  Correct: nothing half-migrated is copied, edits survive, one home per document, nothing forgotten.
* **Accounts.** Guards count, then write; two processes bootstrap at once; a JWT outlives what it says. Correct: an
  administrator remains, a disabled one is refused, nothing but an ordered change touches an account.
* **Manual sync.** Beside the live bridge, other Syncs and the operator's edits it decides what is missing. Correct:
  it imports only that, and its report is true.
* **Backup and restore.** Dump, drop and fill, collection by collection, beside an application that writes. Correct:
  nothing is lost, a dump refers to nothing it lacks, a restore leaves what its file says.
* **Log settings**: not modelled; their hazard is in `PROJECT.json`.

## 2. The modules

| module | models | checked by | proved in |
|---|---|---|---|
| `OperatorLog` | abstract log of contacts: Log, Correct, Bin, Purge, Contest | refined by `QsoStore` | `QsoStoreProofs` |
| `QsoStore` | one operator's collection and the handlers writing to it | `MCQsoStore` | `QsoStoreProofs` |
| `UdpRouting` | datagram tasks, both caches, token requests, account changes | `MCUdpRouting` | `UdpRoutingProofs` |
| `AclogManager` | scan, reconcile, client tasks, shutdown | `MCAclogManager` | `AclogManagerProofs` |
| `AclogBridge` | one bridge client and ACLog | `MCAclogBridge` | `AclogBridgeProofs` |
| `AclogSync` | Syncs of one operator with one ACLog, beside the live bridge | `MCAclogSync` | `AclogSyncProofs` |
| `AdminAccounts` | the requests that write accounts, their authentication, the bootstraps | `MCAdminAccounts` | `AdminAccountsProofs` |
| `BackupRestore` | dumps and restores beside a writing application | `MCBackupRestore` | `BackupRestoreProofs` |
| `SharedMigration` | the migrations and the copy at startup | `MCSharedMigration` | `SharedMigrationProofs` |

How they compose: an `AclogBridge` import, a `UdpRouting` "ingest" and each record of a manual sync are a `QsoStore`
`Submit` of a batch of one in mode "checked"; `AclogSync` composes the Sync, the live bridge and the store, keeping of
the bridge which contacts it imports and of the store which QSOs are active; `AclogManager`'s client tasks are
`AclogBridge`s, of which it keeps only whether they are connected; `AdminAccounts` makes the accounts whose changes
`UdpRouting` and `SharedMigration` see; `BackupRestore` replaces the collections all of them work on; `SharedMigration`
prepares the collections (and the index) `QsoStore` works on.

### QsoStore

State: `coll` maps an ObjectId to a document (fields, `_deleted`, `rowHash`) or `Absent`. Each handler `p` has a
program counter `pc[p]`, whose value names the MongoDB call it is about to make, and its local variables (`job`,
`report`, `edit`, `fresh`, `doomed`). One action is one such call and the code up to the next.

| code | actions |
|---|---|
| `create_qso`, `ingest_qso_record`, `import_qsos_from_bytes`, duplicate review | `Submit`, `RejectRecord`, `find_duplicate`, `insert_qso_dict`, `FindExisting`, `broadcast_qso` |
| `patch_qso` (API), `qso_update` (browser) | `ReadForPatch`, `EditNotFound`, `update_one`, `Refetch`, `Reread` |
| `delete_qso` | `ReadForDelete`, `EditNotFound`, `update_one` |
| `clear_operator_log` | `BeginClear`, `ClearOne`*, `EndClear` (`delete_many` is a loop) |
| any MongoDB call raising | `Fault` |

Data: CALL, BAND and MODE are one value, dates and times are numbers, `rowHash` is the content it covers (SHA-256
taken to be injective). `Garbled` is a date or time `parse_adif_datetime` cannot parse, `Empty` one that is sent
empty: `patch_qso` parses the old value in its place and stores it as sent; the browser's handler drops it.
`ClientUtc` are the texts a client may send to `patch_qso` as `qso_date_utc`, which is not a protected field;
`Canonical` says which instant hashes like one. (A null `qso_date_utc` is left out: it is an instant the window never
matches, as every text is.) `Unshowable` is a QSO whose text `_format_utc` and `isoformat()` raise on; the answer to a
PATCH that meets it is an error (`Refusal`). `Indexed` says whether the collection has `row_hash_unique_idx`. Nothing
in the code keeps two PATCHes or DELETEs of one QSO apart, and two that overlap leave it with a `rowHash` of fields it
does not have, or change it in the bin: the hazard at `qso/service.py:257`. The history variable `contested` collects
the QSOs that two edits had in flight together; the properties speak of the others, and `OperatorLog` has an action
`Contest` and lets a contested contact be a copy of another one or be changed in the bin. Nothing else is excepted,
and which edits overlap is left open.

### UdpRouting

A datagram task resolves the token (`resolve_token`, and `ReadTokens`, `token_is_active`, `FindUser`, `InstallCache`
when the cache is dirty: `load()` awaits once for the list and once per token's user, and `asked` is the token whose
user it awaits, found unexpired before), then `resolve_operator` (whose reload is one read; `Stranger` is an OPERATOR
nobody has), then is handed to ingestion or dropped (`Finish`). As in the code, an OPERATOR replaces what a token
resolved. `create_token`/`revoke_token` are the writes and `notify_refresh` is the call that follows their await.
`set_user_enabled` runs in the other process and marks that process's cache. `Restart` loads the caches before the
socket is bound. History variables remember what was settled when a datagram arrived, so that properties speak of
datagrams that arrive *after* a change. `stale[t]` are the reloads under way that began before the last write of `t`;
`told` are the tokens of which a notification since met no such reload, whether others were under way or not; `swept`
are the expired tokens that a notification, of any token, found in no reload under way.

### AclogManager

`mgr` is where `_run` and `reconcile` stand, `waiting` the task `_stop_bridge` awaits, `work` the client tasks,
`asked` the tasks with an undelivered cancellation. Asyncio's rules are what the model is about: cancelling a task
that awaits another cancels that one (`StopManager`), `_stop_bridge` swallows the `CancelledError` that comes back
(`Stopped`), and `wait_closed()` raising in the `finally` block replaces the cancellation (`AfterCancel`).

### AclogBridge

ACLog is an external actor that answers in order on the connection it announces contacts on, as `client.py` and
`tests/test_aclog_client.py` rely on. Contacts are numbers; of their fields only the identity and one "note" are
kept, the note standing for the text boxes whose last reported values the client caches. A note is named by the
contact it was typed for, so that one which reaches another contact is seen to. `Identity` lists
what full records may say. `pending` is the single slot. `AnswerWithoutRecord` is an answer to LIST with no record in it,
an empty list or an error, which the client does not take for an answer (`ReadNoRecords`); `refused` are the contacts
that were pending when one came.

### SharedMigration

A document keeps its callsign, one value for its other ADIF fields, and what the migrations change. Legacy documents
have no `rowHash`, that of their content, or that of their content before `TIME_ON` was padded (`OnceHashed`): padding
leaves a `rowHash` alone, and so does the migration after it. What operators log has four or six digits of `TIME_ON`,
as sent (`build_qso_dict` does not pad); `written` are the entries operators have logged, edited or deleted.
`Start`, the three migrations (document by document), `LoadUsers`, then one of `CopyDoc`, `PassOver`, `CopyFails` and
`IndexFails` for each document, `Copied`. `Crash` may come anywhere. Administrators (`CreateUser`, `ClearLog`) act at
any time, since they have their own process; operators (`Log`, `Edit`, `Delete`) once the application is up.

### AclogSync

A contact is its number in ACLog's log, and when it was made stands for call, band, mode and time. The log is the set
of the operator's active QSOs, so the unique index is equality. Of a Sync the model keeps each await: `Connect`,
`ReadSettings`, `ReadList` or `ReadEndOfFile` or `GiveUp`, then for each record `TakeRecord` (identity, and rejection
of an invalid one), `Find` (`find_duplicate`) and `Insert`. `Announce` starts the live bridge on a contact; it goes
through the same `Find` and `Insert`. The lines of the report are the sets of contacts they count. `Remove` is a
deletion, a clearing or a correction of what `find_duplicate` compares; `Edit` is any other change.

### AdminAccounts

`users` maps a username to an account or `Absent` (the unique index on `username`). A request's `pc` names the MongoDB
call it is about to make. `require_admin` reads the sender again; then `FindNew` and `InsertUser` are `create_user`,
`FindUser`, `CountAdmins` and `SetEnabled` are `set_user_enabled` and the browser's `toggle_user`, and `FindUser` and
`SetPassword` are `reset_password`. `FindAdmin` and `InsertAdmin` are `_bootstrap_admin` of each process, whose settings
are taken to be set. `Receive` lets anyone with an account send anything, whatever has become of the account since the
token was issued. Passwords are opaque: the run has one, the proofs any number.

### BackupRestore

Every dump and restore is a job of one thread: `ListNames`, `ReadColl` for each collection in the order of names,
`Save`; a restore goes on to `OpenFile` (the whole file is read and parsed), `DropColl` and `InsertMany` for each
collection the file names, `Finish`. `Fail` is a failure or the death of the process at any of them. A dump's file is
named by the second it begins in: `Begin` takes the second of the latest dump, emptying its file, or the next one. A
dump that raises closes its file, which holds what was read by then and can be restored; one that dies leaves a file
that cannot be read. Of a file two dumps have open (`mixed`), what is left is that of the last to close it, or
unreadable. `disk` is what each name holds and `saved` every readable file there was, since administrators keep
copies; `overwritten` are the documents of dumps whose file was another's as well. The application's `Write` and
`ClearOne` interleave everywhere. Documents are opaque but for what they need: a token or a QSO needs its user.
`DatabaseAssumption` says where they live: `api_tokens` is read before `users`, and a log belongs to one user.

## 3. What is checked

Every property of a passing run also has a mutant (a plausible bug in one mapped definition, kept beside the
original) that TLC shows it to catch.

| run | question | instance |
|---|---|---|
| `qso_store` | store invariants and refinement of `OperatorLog` | 2 handlers, 3 ids, 3 records, times exactly at, inside and outside the window, one import with an invalid record, up to 2 disturbances (edits, clear, fault), six kinds of edit |
| `udp_routing` | revocation, creation, expiry and the routing rules under overlapping reloads | 2 users and a stranger, 1 token, 2 datagrams, 1 change of a user or restart, 1 failed read |
| `aclog_manager` | one client per bridge, reconciliation, edits and shutdown take effect | 2 rows, 2 addresses, 3 tasks, 2 edits, 1 fault |
| `aclog_bridge` | one outcome per contact, order, identity, notes, progress | 2 contacts, 3 identities, 1 setup change, 1 amended contact, 1 fault (a lost connection or an answer without a record), LIST of 1 record |
| `aclog_sync` | what a Sync imports and reports beside the live bridge | 2 contacts two minutes apart, 2 Syncs and the bridge, 1 setup change, 1 fault, any edits and deletions |
| `admin_accounts` | lockout guard, stale tokens, bootstrap | 3 usernames, 2 of them ever `ADMIN_USERNAME`, 2 requests, 2 processes, 1 stop |
| `backup_restore` | nothing lost, closed dumps, exact restores | 3 collections, 2 users, a token and a QSO, 2 jobs at once of 3 in all, in 1 to 3 seconds, 1 fault |
| `shared_migration` | crash safety and completeness of the copy | 2 documents in 4 legacy forms, 2 users, 2 callsigns, 3 changes, 3 starts |

Why these bounds show the interesting cases:

* `qso_store`: every property is about one or two documents and at most two handlers; three records fill an import
  (valid, invalid, valid) or let two submissions race with a third contact beside them. The edits correct the date or the
  time, send a date that does not parse or is empty, alone or with a time, or set `qso_date_utc`, to a text that hashes
  like the instant of another contact.
* `udp_routing`: two tasks are enough for an old reload to be installed after a newer one; one token, as tokens are
  independent entries of a cache installed whole. `MaxChanges` is shared by account changes and restarts.
* `aclog_manager`: three tasks for two rows let a client be replaced while the other row's is awaited; two edits let
  a row change again during its replacement.
* `aclog_bridge`: two contacts fill the slot and overtake it; `Recent = 1` is harsher than the code's value, as the
  newest record only is returned.
* `aclog_sync`: two contacts at the edge of the duplicate window are near one another and not equal, so each can stand
  in for the other; two Syncs and the bridge race for one insert; the setup Call can change between a contact and the
  Sync, which is when the identity of a contact is in doubt.
* `admin_accounts`: two administrators and two requests are the race of the lockout guard; two processes and one stop
  let a bootstrap run against another, against a request and against a changed setting.
* `backup_restore`: collections before and after `users` in the order of names; two restores overlap, and the third job
  is a backup before them or a repetition; three dumps may share one second or two, in any order with drops. One fault
  leaves a partial file, an unreadable one, or a restore half done.
* `shared_migration`: two documents can be twins, one hashed before padding and one not, or conflict with a log entry;
  three starts make a crash, a recovery and a later start over changed logs.

Symmetry is used only in runs without temporal liveness properties (`qso_store` handlers, `udp_*` tasks, the Syncs, the
requests and the jobs of the three runs named after them, `shared_migration` and `clear_undone` documents and users, the
latter two with legacy documents that treat them alike).
`CHECK_DEADLOCK FALSE` is set where inputs are bounded: the bounded system really stops when they are used up.

**Fairness.** `AclogManager!FairSpec` has weak fairness of the manager's own steps, of the delivery of a requested
cancellation, and of the two later steps of `stop()`: the event loop runs every ready task. Nothing forces a
connection, an edit or a shutdown. `EditsReachBridges` and `ShutdownCompletes` are conditional on no cancellation
ever meeting a failed transport (`~Wedged`), because the code does not survive that (below); `ShutdownCompletes`
also starts from the manager's task having ended, because a cancellation that `_stop_bridge` swallows leaves
`stop()` waiting. `AclogBridge!FairSpec` has weak fairness of the client and of ACLog answering what it is
asked. The other modules state safety only: a request, a Sync, a backup or a start may fail at any MongoDB call, and
nothing in the code repeats it, so that it ends is no promise beyond its own loop's.

### Disagreements between the code and what it says

Four are runs expected to be violated, each with one property taken from a sentence of the repository. The lines quoted
are in `PROJECT.json` under "findings".

| run | property | what TLC shows |
|---|---|---|
| `new_user_copies` | `NoExactDuplicates` | accounts created since the last start have no unique index; a forced submission stores a copy |
| `udp_revoke_race` | `RevocationReaches` | a revocation during a reload is lost (`udp/token_cache.py:61-63`) |
| `aclog_bridge_edit` | `EditsTakeEffect` | a cancelled client with a failed connection lives on, and reconciliation waits for ever |
| `clear_undone` | `ClearedStaysCleared` | a cleared log's legacy QSOs return at the next start |

`NearDuplicateOnlyByRace` states how far the duplicate check goes: two submissions that both check before either
inserts may leave near duplicates, and the property allows exactly that. `LockoutOnlyByRace` does the same for the guard
of the last administrator: two administrators who disable each other at once both count two and leave none.

The models have these as well; each limits what a passing property says, and none has a run of its own. They are
findings too, with the sentence they disagree with:

| where | what the code does | the property that allows for it |
|---|---|---|
| `qso/router.py:325` | `patch_qso` does not protect `qso_date_utc`: a client's text is stored, the duplicate window misses the QSO, and pages and answers that show it raise | `FieldsFresh` excepts it until the next edit that recalculates |
| `qso/router.py:339` | an empty QSO_DATE or TIME_ON is stored, and the instant is computed from the old one, without an error | `FieldsFresh` makes no claim for it |
| `udp/server.py:132` | OPERATOR overrides a valid token; the operator guide puts the token first, and the comments at lines 102 and 106 agree with it | `NoWeakerRule` does not decide between the two |
| `aclog/client.py:197` | an answer without a record leaves the contact pending; the guide says that it is skipped | `PendingIsSettled` allows it until the next decisive message |
| `main.py:60` | padding TIME_ON leaves `rowHash` stale, and nothing recomputes it; an unhashed twin gets another one and is copied beside it; TIME_ON in logs is never padded | `LogsAreMigrated` allows the `rowHash` from before padding |
| `backup/dump.py:24` | two restores of one second write one file: the second empties the first one's automatic backup, which may be the only copy left | `NothingIsLost` excepts `overwritten` |
| `auth/dependencies.py:40` | a disabled user's token is refused at once, as `tests/test_auth.py:366` expects; `docs/admin-guide/account-management.md:63` says that it works until it expires | `RefusedOnceDisabled` states what the code does |

Seen while modelling, with no sentence against them, or one of a docstring:

* Deleting a contact whose identical twin was deleted before meets the twin's `rowHash`, and DELETE answers 500
  (`qso/router.py:421`, in `QsoStore!update_one`); `qso/router.py:408` names 204 and 404 only.
  `DeleteRefusedOnlyByTwin` says that, short of a failure of MongoDB, this is the only way.
* Two edits of one QSO that overlap: the second writes the hash of a merge with fields the first has replaced, and a
  PATCH that read before a DELETE writes into the bin (`qso/service.py:257`). Such QSOs are `contested`.
* Disabling an account marks the operator cache of the admin process, not the one of the process with the listener
  (`admin/router.py:113`, in `UdpRouting!set_user_enabled`); `docs/operator-guide/udp-adif.md:92` says such changes take
  effect within one datagram.
* A token that expires while the cache is clean is accepted until the next notification, of whatever token
  (`udp/token_cache.py:56`), or longer if it expires while a reload awaits its user. `ExpirySeenLater` in
  `ChangesSeenLater` bounds it by the first notification that meets no such reload.
* Text typed for the next contact may be merged into the one waiting for its full record (`aclog/client.py:221`, in
  `AclogBridge!ReadFullRecords`). `NeverAnEarlierNote` says it is never text of an earlier contact, and never displaces
  a note of the contact's own.
* A connection that ACLog closes before it answers LIST gives a Sync that succeeds with nothing received
  (`aclog/sync.py:279`, in `AclogSync!ReadEndOfFile`).
* A Sync after a deletion imports the contact again; deleting it a second time is the first case above.
* `_restore_from_file` says it drops all collections (`backup/restore.py:12`) and drops those its file names;
  `RestoreIsExact` is stated for these. The unique indexes of a dropped log come back with the next start only.
* A dump that raises closes its gzip file, and the upload page looks at the first line only: a partial backup is restored
  as if it were whole (`backup/dump.py:29`, in `BackupRestore!Fail`). `DumpIsClosed` speaks of complete ones.
* `restore_confirm` says its temporary file is deleted regardless of outcome (`admin/ui_router.py:671`); a failed
  automatic backup returns before the `try` that does it.

## 4. What is proved

TLAPS checks these for every value of the constants that satisfies the modules' assumptions, so for any number of
handlers, documents, bridges, users and any input bounds.

**`QsoStoreProofs`** (from `ConstantsAssumption`, `InputsAssumption`). `TypeCorrect`: `TypeOK` is not inductive alone,
because a handler past the check dereferences its current record, its edit and its fresh id; `HandlerOK` says they are
there. `StoredFieldsFresh` (`FieldsFresh`: hash and instant of every uncontested document): the invariant `StoreInv`
adds that no two handlers are about to write the same uncontested document (`OneEditor`), and that such a document is
still the one its new hash and instant were computed from as far as they depend on it (`SnapshotHolds`). The instants
a client sends are among the values, so the exceptions of `FieldsFresh` are part of what is shown: only an edit brings
one in, and every later one that recalculates takes it out. Edits of it that do not overlap are therefore safe against
everything that interleaves with them. The lemma `StepShape` reduces every action to what it does to the collection
(keep, insert, write, purge, or start an edit), so preservation is proved for five shapes and not for each action.
`NoCopies` (assuming `Indexed`): unique hashes and fresh hashes give unique contents. `StoreImplementsLog` (same
assumption): initial states map to initial states, and each shape to a step of `OperatorLog` or a stutter.
`DeletesRefusedOnlyByTwin`: the `rowHash` that a DELETE meets is fresh and that of a deleted document, hence of equal
fields, unless its holder is contested. `AcceptedKept`, `VerdictsTrue` and `NearDuplicatesOnlyByRace` speak of
documents that no PATCH has changed, and `ReportInv` says that such a document keeps its fields (`DocsPersist`; the
DELETE about to be written to it has the hash of these fields, in `DocInv`), so that each verdict stays as true as
when it was given (`ReportHolds`), as does what a handler knows of the document it has inserted (`FreshHolds`) and of
those its check looked at (`CheckHolds`, and `SeenHolds` once it has inserted).

**`AclogManagerProofs`** (from `ManagerAssumption`). The inductive invariant `IInv` consists of `TypeOK`, `KeysAgree`
(a registered task serves the key it is registered under), `AwaitedIsOut` (the awaited task was taken out and its
place is empty), `Reached` (every running task is registered or awaited), `OnlyAwaitedAsked` (before the shutdown is
past the manager, only the awaited client is being cancelled, so a registered client does not die) and `InPlace` (what
reconcile has done so far). It gives `NoClientIsOrphaned`, `OneClient` and `ReconcileIsExact`. `NoAwaitBlocks` is the
part of the two liveness properties that is safety: as long as no cancellation meets a failed transport (`Spec /\
[]~Wedged`), every client that `_stop_bridge` or `stop()` awaits has a cancellation on its way or has ended.

**`SharedMigrationProofs`** (from `MigrationAssumption`). `IInv` consists of `TypeOK`, `HashesKnown` (every `rowHash`
in `qsos` is that of the content, or of the content before padding), `WrittenIsThere` (what an operator wrote is in
the log until it is cleared), `Phases` (how far the migrations have come at each step), `CopiesAreOwned` (anything
copied belongs to the account with its callsign, and nothing is copied before all is migrated), `KnownExist`,
`CopiedSoFar`, and the two goals `LogsAreMigrated` and `OneHome`. The action properties `StartKeepsLogs` and
`StartCopiesAll` follow from it and `[Next]_vars`. `IndexIsKept`: no two entries of a log that has its unique index
share a `rowHash`, whichever step writes, since the model has a guard wherever MongoDB would refuse. Hence
`IndexFailsAtFirstOnly`: a start that ends because an index cannot be built (`qso/collection_migration.py:124`) met a
log that never had one.

**`UdpRoutingProofs`** (from `RoutingAssumption`). `Sound` adds to `TypeOK` that both caches and every draft of a reload
say of a token what its owner is or nothing (`Truthful`), and that a task which is not reloading holds no draft. For
`RevocationsAreSeen`, `RevokedInv`: a revoked token is in the draft, or before the user lookup, of no reload but those in
`stale`, and once it is in `told` these have ended and the cache has it only while it is dirty. For `CreationsAreSeen`,
`CreatedInv` says the mirror image of a good token. `SweptInv`: a token in `swept` has expired for good, no reload holds
it in its draft or awaits its user, so that none brings it back, and the cache has it only while it is dirty
(`ExpiryIsSeen`). The three together are `ChangesAreSeen`. `CreditInv` says what each task has resolved so far
(`NoWeakerRuleIsTaken`).

**`AdminAccountsProofs`** (from `AccountsAssumption`). Besides types: no step removes an account or changes a role;
a sender who is an enabled administrator is entitled (`EntitledNow`); a request about to disable an
administrator has counted two (`CountedAnother`), so that one other than its target is enabled unless a counted one was
disabled meanwhile.

**`BackupRestoreProofs`** (from `DatabaseAssumption`). `KeptInv`: what is in the database when a restore begins is in
the part of its automatic backup already read, or still to be read, and past `Save` in a file that is on the disk, or
`overwritten`. `FilesInv` is why the file stays there: only a dump that begins in its second, or had it open as well,
takes it away, and both put what it held into `overwritten` (`FilesByBegin`, `FilesByBreaking`, `FilesByClose`).
`ClosedInv`: while nothing was dropped, users are never deleted, and what a dump has read of a collection needs only
users that existed when it read `users` later, or, for a log, whose collection exists only because its owner does.
`ExactInv` follows one restore through its collections.

**`AclogSyncProofs`** (from `SyncAssumption`). `MissingInv`: contacts kept since the Sync began are in the log, so a Sync
about to insert is near none of them. `AccountInv` keeps the lines of the report apart and complete, `PresentInv` their
contacts in the log or removed, and `JudgedInv` relates the setup Call a Sync was told to the one a contact was saved
under by the number of changes before each.

**`AclogBridgeProofs`** (from `BridgeAssumption`). Two lists are in motion, the messages still to be read and the
requests still to be answered, so each property needs an invariant over both. `OrderInv`: announcements still unread
are newer than whatever is pending or settled, in the order ACLog made them, and outcomes are apart. `RecentInv`: an
answer to LIST holds the latest contact that was awaited when it was given, or that contact was edited since; and
while the connection is open the latest announced is the newest in ACLog's log. That is why a contact which was not
edited always finds its match, and why the newest is never overtaken. `SetupInv`: until the setup Call is changed,
every contact read or unread was saved under the Call the client knows or will have been told before the answer it
decides on. `NoteInv` (`NotesAreNotStale`) is over every place a text may be in, the client's cache and each message
unread: text ahead of an announcement is that contact's own, or a report that the box is empty lies between, since
ACLog sends one with each contact that had text; text behind it is never an earlier contact's. `PendingIsAnswered` is
the part of `PendingIsSettled` that is safety: while a contact waits on a live connection, the request for its record
or an answer with records is in flight, or an answer without came since.

**Only model-checked.** Liveness (`EditsReachBridges`, `ShutdownCompletes`, `PendingIsSettled`), since fairness and
ENABLED are beyond the prover; of each, the safety part above (`NoAwaitBlocks`, `PendingIsAnswered`) is proved.
No model has a recursive definition, so no induction over data is left undone.

## 5. Not modelled

* Reads, paging, statistics, rendering and callsign prefixes: no state of their own, or MongoDB's. Of authentication,
  cookies and the signatures of tokens; that a token outlives what it says is in `AdminAccounts`.
* ADIF and CMD text: parsing is abstracted to records and messages; see the plan.
* `watch_qsos` (`feed/manager.py:57`): a change-stream watcher the application no longer starts (`main.py:99-100`).
* The cached log settings (`internal_logs/service.py:134`): what is cached decides which entries are logged, and no
  QSO, account or token depends on it. Its hazard is listed without a property.
* The queues of the live feed: one unbounded queue for each browser, filled and emptied in order. That every accepted
  QSO is broadcast is in `QsoStore`; a bound on the queue would be the model's, not the code's.
* Profiles and custom fields: single-document updates and pure normalisation; what a saved bridge row changes is
  `AclogManager!EditRow`.
* Of backups: the upload to S3, the cron schedule, and what bytes are left of a file two dumps wrote at once: it counts
  as unreadable or as that of the last to close it.
* Of a Sync: the 64 KiB that `readline` takes of one line, beyond which the request fails; and the wording of the report.
* Failures of MongoDB other than a call that raises: no lost acknowledged writes, no failover.

## 6. What would come next

1. The tag scanner and serializer of `app/adif` and `aclog_records_match` as operators against a reference definition
   (round trip of a record; a match implies equal call, date and time). TLC's only: they are recursions over text.
2. `UdpRouting`: a property for tokens whose user is disabled while the cache is clean, which goes with a decision on
   what the cache should promise of them (hazards at `admin/router.py:113` and `udp/token_cache.py:56`); and one for a
   datagram with a token and an OPERATOR, once it is decided which of them is meant to win.
3. `LogSettings`: the cached settings of the two processes.
4. Indexes as state of `BackupRestore` and their re-creation by `SharedMigration`, so that `NoExactDuplicates` can be
   stated across a restore and the start that follows it.
