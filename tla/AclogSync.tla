------------------------------ MODULE AclogSync ------------------------------
(***************************************************************************)
(* Manual synchronization with ACLog (app/aclog/sync.py, with identity.py  *)
(* and the ingestion of app/qso/service.py): the Sync button of a saved    *)
(* bridge fetches all of ACLog's records and imports what is missing from  *)
(* the operator's log.  Meanwhile the live bridge imports contacts, another *)
(* Sync may run, and the operator edits, deletes or clears the log.        *)
(*                                                                         *)
(* A contact is its number in ACLog's log; when it was made stands for     *)
(* call, band, mode and time, contacts with others being made far apart.   *)
(* The log is the set of its active QSOs: the unique index on rowHash,     *)
(* which covers every field and `_deleted`, keeps a second equal one out,  *)
(* and a deleted one is not asked about.                                   *)
(*                                                                         *)
(* ACLog is outside the repository.  It answers the two requests of a Sync *)
(* in order, with its state when it answers, or does not answer.           *)
(***************************************************************************)
EXTENDS Integers, FiniteSets

CONSTANTS
  Callsign,
  Operator,     \* the callsign of the operator's account
  Station,      \* the station callsign of the profile
  NoCall,
  SetupCall,    \* what the setup Call may be
  MyCall, Op,   \* by contact: its MYCALL and OPERATOR fields
  Minute,       \* by contact: when it was made
  Sync,         \* requests that may be under way at once
  Live,         \* the live bridge
  MaxContacts,  \* bound on the contacts ACLog logs
  MaxMoves,     \* bound on the changes of ACLog's setup Call
  MaxSyncs,     \* bound on the Syncs asked for
  MaxFaults     \* bound on MongoDB failures

Contact == 1..MaxContacts
NoContact == 0
MaybeCall == Callsign \cup {NoCall}
Importer == Sync \cup {Live}

ASSUME SyncAssumption ==
  /\ {Operator, Station} \subseteq Callsign /\ NoCall \notin Callsign
  /\ NoCall \in SetupCall /\ SetupCall \subseteq MaybeCall
  /\ MyCall \in [Contact -> MaybeCall] /\ Op \in [Contact -> MaybeCall]
  /\ Minute \in [Contact -> Int]
  /\ Live \notin Sync
  /\ MaxContacts \in Nat /\ MaxMoves \in Nat /\ MaxSyncs \in Nat /\ MaxFaults \in Nat

\* What else a QSO says: ACLog's record, or anything else: that record merged
\* with the boxes the live bridge has heard of, or the operator's own words.
Text == {"record", "other"}
Doc == [contact: Contact, text: Text]
Buckets == {"imported", "present", "missing", "unmatched", "errors"}

VARIABLES
  logged,     \* ACLog: the number of contacts
  setup,      \* ACLog: the setup Call
  moves,      \* ACLog: how often that was changed
  active,     \* the operator's log
  pc,         \* where each importer is
  todo,       \* the records a Sync has still to look at
  current,    \* the contact an importer is ingesting
  known,      \* the setup Call a Sync was told
  bucket,     \* the contacts each line of a Sync's report counts
  received,   \* and all it received
  heard,      \* the last contact the live bridge was told of
  spent,      \* how much of the bounds is used
  \* History, read by properties only:
  saved,      \* by contact: the setup Call it was saved under, and its changes before
  askedAt,    \* by Sync: those before it was told the setup Call, -1 when it was not
  kept,       \* by Sync: contacts in the log ever since it began
  removed     \* by Sync: contacts the operator removed since it began

aclog == <<logged, setup, moves, saved>>
qsos == <<active, kept, removed>>
answers == <<known, received, askedAt>>
vars == <<logged, setup, moves, active, pc, todo, current, known, bucket,
          received, heard, spent, saved, askedAt, kept, removed>>

Contacts(docs) == {d.contact : d \in docs}
NoReport == [b \in Buckets |-> {}]

Init ==
  /\ logged = 0 /\ setup = NoCall /\ moves = 0
  /\ active = {}
  /\ pc = [p \in Importer |-> "idle"]
  /\ todo = [s \in Sync |-> {}]
  /\ current = [p \in Importer |-> NoContact]
  /\ known = [s \in Sync |-> NoCall]
  /\ bucket = [s \in Sync |-> NoReport]
  /\ received = [s \in Sync |-> {}]
  /\ heard = 0
  /\ spent = [syncs |-> 0, faults |-> 0]
  /\ saved = [c \in Contact |-> [call |-> NoCall, moves |-> 0]]
  /\ askedAt = [s \in Sync |-> -1]
  /\ kept = [s \in Sync |-> {}]
  /\ removed = [s \in Sync |-> {}]

Goto(p, label) == pc' = [pc EXCEPT ![p] = label]

-----------------------------------------------------------------------------
(* ACLog (external), and the operator's own requests. *)

SaveContact ==
  /\ logged < MaxContacts
  /\ logged' = logged + 1
  /\ saved' = [saved EXCEPT ![logged'] = [call |-> setup, moves |-> moves]]
  /\ UNCHANGED <<setup, moves, qsos, pc, todo, current, answers, bucket, heard, spent>>

ChangeSetup(call) ==
  /\ call # setup /\ moves < MaxMoves
  /\ setup' = call /\ moves' = moves + 1
  /\ UNCHANGED <<logged, saved, qsos, pc, todo, current, answers, bucket, heard, spent>>

\* The QSO is deleted, or cleared with the log, or its call, band, mode or time
\* is edited.
Remove(d) ==
  /\ d \in active
  /\ active' = active \ {d}
  /\ kept' = [s \in Sync |-> kept[s] \cap Contacts(active')]
  /\ removed' = [s \in Sync |-> removed[s] \cup {d.contact}]
  /\ UNCHANGED <<aclog, pc, todo, current, answers, bucket, heard, spent>>

\* Any other edit; the index refuses one that makes two QSOs equal.
Edit(d) ==
  LET e == [d EXCEPT !.text = "other"] IN
  /\ d \in active /\ e \notin active
  /\ active' = (active \ {d}) \cup {e}
  /\ UNCHANGED <<aclog, kept, removed, pc, todo, current, answers, bucket, heard, spent>>

-----------------------------------------------------------------------------
(* sync_aclog_bridge up to the records *)

\* Mutant: the setup Call of the last Sync is still believed.
BeginAgain(s) ==
  /\ pc[s] \in {"idle", "done", "failed"}
  /\ spent.syncs < MaxSyncs /\ spent' = [spent EXCEPT !.syncs = @ + 1]
  /\ Goto(s, "dial")
  /\ askedAt' = [askedAt EXCEPT ![s] = -1]
  /\ bucket' = [bucket EXCEPT ![s] = NoReport]
  /\ received' = [received EXCEPT ![s] = {}]
  /\ kept' = [kept EXCEPT ![s] = Contacts(active)]
  /\ removed' = [removed EXCEPT ![s] = {}]
  /\ UNCHANGED <<aclog, active, todo, current, heard, known>>

\* profile_aclog_sync, for a saved bridge: a fresh report.
Begin(s) ==
  /\ pc[s] \in {"idle", "done", "failed"}
  /\ spent.syncs < MaxSyncs /\ spent' = [spent EXCEPT !.syncs = @ + 1]
  /\ Goto(s, "dial")
  /\ known' = [known EXCEPT ![s] = NoCall]
  /\ askedAt' = [askedAt EXCEPT ![s] = -1]
  /\ bucket' = [bucket EXCEPT ![s] = NoReport]
  /\ received' = [received EXCEPT ![s] = {}]
  /\ kept' = [kept EXCEPT ![s] = Contacts(active)]
  /\ removed' = [removed EXCEPT ![s] = {}]
  /\ UNCHANGED <<aclog, active, todo, current, heard>>

\* open_connection; both requests are sent at once.
Connect(s) ==
  /\ pc[s] = "dial"
  /\ Goto(s, "settings")
  /\ UNCHANGED <<aclog, qsos, todo, current, answers, bucket, heard, spent>>

\* OSError, or ACLOG_SYNC_TIMEOUT_SECONDS are over: a report with a reason.
GiveUp(s) ==
  /\ pc[s] \in {"dial", "settings", "list"}
  /\ Goto(s, "failed")
  /\ UNCHANGED <<aclog, qsos, todo, current, answers, bucket, heard, spent>>

\* The answer to GETUSERSETTINGS, if ACLog has one; LIST is next.
ReadSettings(s) ==
  /\ pc[s] = "settings"
  /\ Goto(s, "list")
  /\ \/ /\ known' = [known EXCEPT ![s] = setup]
        /\ askedAt' = [askedAt EXCEPT ![s] = moves]
     \/ UNCHANGED <<known, askedAt>>
  /\ UNCHANGED <<aclog, qsos, todo, current, received, bucket, heard, spent>>

ReceiveRecords(s, cs) ==
  /\ received' = [received EXCEPT ![s] = cs]
  /\ todo' = [todo EXCEPT ![s] = cs]
  /\ Goto(s, "record")
  /\ UNCHANGED <<aclog, qsos, current, known, askedAt, bucket, heard, spent>>

\* The answer to LIST.
ReadList(s) == pc[s] = "list" /\ ReceiveRecords(s, 1..logged)

\* ACLog closes the connection first: no record, and no failure either.
ReadEndOfFile(s) == pc[s] \in {"settings", "list"} /\ ReceiveRecords(s, {})

-----------------------------------------------------------------------------
(* The records, one by one *)

\* match_aclog_operator_identity: the first station identity there is decides,
\* and only without one does the OPERATOR field.
Identity(c, setupCall) ==
  LET station == IF MyCall[c] # NoCall THEN MyCall[c] ELSE setupCall IN
  IF station # NoCall
  THEN IF station \in {Operator, Station} THEN "matched" ELSE "unmatched"
  ELSE IF Op[c] = NoCall THEN "missing"
  ELSE IF Op[c] = Operator THEN "matched" ELSE "unmatched"

Count(s, b, c) == bucket' = [bucket EXCEPT ![s][b] = @ \cup {c}]

\* One record of the answer, in the order ACLog put them.  Whether a record of
\* the operator's lacks a required field is left open: that one is rejected
\* before MongoDB is asked.
TakeRecord(s) ==
  /\ pc[s] = "record"
  /\ \E c \in todo[s] :
       /\ todo' = [todo EXCEPT ![s] = @ \ {c}]
       /\ LET i == Identity(c, known[s]) IN
          \/ /\ i # "matched"
             /\ Count(s, i, c)
             /\ UNCHANGED <<pc, current>>
          \/ /\ i = "matched"
             /\ Count(s, "errors", c)
             /\ UNCHANGED <<pc, current>>
          \/ /\ i = "matched"
             /\ current' = [current EXCEPT ![s] = c]
             /\ Goto(s, "find")
             /\ UNCHANGED bucket
  /\ UNCHANGED <<aclog, qsos, answers, heard, spent>>

Report(s) ==
  /\ pc[s] = "record" /\ todo[s] = {}
  /\ Goto(s, "done")
  /\ UNCHANGED <<aclog, qsos, todo, current, answers, bucket, heard, spent>>

\* The live bridge has a contact to import (see AclogBridge), each once.
Announce ==
  /\ pc[Live] = "idle"
  /\ \E c \in 1..logged :
       /\ heard < c
       /\ heard' = c
       /\ current' = [current EXCEPT ![Live] = c]
  /\ Goto(Live, "find")
  /\ UNCHANGED <<aclog, qsos, todo, answers, bucket, spent>>

\* The contact has its outcome; a Sync counts it and goes on to the next.
Settle(p, b) ==
  /\ current' = [current EXCEPT ![p] = NoContact]
  /\ IF p = Live THEN Goto(p, "idle") /\ UNCHANGED bucket
     ELSE Goto(p, "record") /\ Count(p, b, current[p])

\* CALL, BAND and MODE the same, and at most two minutes between them.
Near(c, n) == Minute[c] - Minute[n] \in -2..2
Twins(c) == {d \in active : Near(c, d.contact)}

\* Mutant: only a QSO of the same minute is a duplicate.
FindExactly(p) ==
  /\ pc[p] = "find"
  /\ LET c == current[p] IN
     IF \E d \in active : Minute[d.contact] = Minute[c] THEN Settle(p, "present")
     ELSE Goto(p, "insert") /\ UNCHANGED <<current, bucket>>
  /\ UNCHANGED <<aclog, qsos, todo, answers, heard, spent>>

\* find_duplicate.
Find(p) ==
  /\ pc[p] = "find"
  /\ IF Twins(current[p]) # {} THEN Settle(p, "present")
     ELSE Goto(p, "insert") /\ UNCHANGED <<current, bucket>>
  /\ UNCHANGED <<aclog, qsos, todo, answers, heard, spent>>

\* The QSO an importer inserts: a Sync has ACLog's record only.
NewDoc(p, text) == [contact |-> current[p], text |-> text]
Texts(p) == IF p = Live THEN {"record", "other"} ELSE {"record"}

\* insert_qso_dict: an equal QSO that has come in between makes the unique index
\* refuse, and the record a duplicate after all.
Insert(p) ==
  /\ pc[p] = "insert"
  /\ \E text \in Texts(p) :
       IF NewDoc(p, text) \in active THEN Settle(p, "present") /\ UNCHANGED active
       ELSE Settle(p, "imported") /\ active' = active \cup {NewDoc(p, text)}
  /\ UNCHANGED <<aclog, kept, removed, todo, answers, heard, spent>>

\* Mutant: a failure is taken for a duplicate.
FailToInsert(p) ==
  /\ pc[p] \in {"find", "insert"}
  /\ spent.faults < MaxFaults /\ spent' = [spent EXCEPT !.faults = @ + 1]
  /\ active' = active
  /\ Settle(p, "present")
  /\ UNCHANGED <<aclog, kept, removed, todo, answers, heard>>

\* Mutant: the contact stays the current one.
FailAndStay(p) ==
  /\ pc[p] \in {"find", "insert"}
  /\ spent.faults < MaxFaults /\ spent' = [spent EXCEPT !.faults = @ + 1]
  /\ Goto(p, IF p = Live THEN "idle" ELSE "record")
  /\ UNCHANGED <<aclog, qsos, todo, answers, heard, current, bucket>>

\* A MongoDB call raises, an insert perhaps after it was carried out.
Fail(p) ==
  /\ pc[p] \in {"find", "insert"}
  /\ spent.faults < MaxFaults /\ spent' = [spent EXCEPT !.faults = @ + 1]
  /\ \/ UNCHANGED active
     \/ pc[p] = "insert" /\ \E text \in Texts(p) : active' = active \cup {NewDoc(p, text)}
  /\ Settle(p, "errors")
  /\ UNCHANGED <<aclog, kept, removed, todo, answers, heard>>

-----------------------------------------------------------------------------

Ingest(p) == Find(p) \/ Insert(p) \/ Fail(p)

Synchronize(s) ==
  \/ Connect(s) \/ GiveUp(s) \/ ReadSettings(s) \/ ReadList(s) \/ ReadEndOfFile(s)
  \/ TakeRecord(s) \/ Report(s) \/ Ingest(s)

UseOllog == (\E s \in Sync : Begin(s)) \/ \E d \in Doc : Remove(d) \/ Edit(d)

UseAclog == SaveContact \/ \E call \in SetupCall : ChangeSetup(call)

Next ==
  \/ UseOllog \/ UseAclog
  \/ \E s \in Sync : Synchronize(s)
  \/ Announce \/ Ingest(Live)

Spec == Init /\ [][Next]_vars

-----------------------------------------------------------------------------
(* Properties *)

\* Type correctness; an importer has a contact exactly while it ingests it.
TypeOK ==
  /\ logged \in 0..MaxContacts /\ setup \in SetupCall /\ moves \in 0..MaxMoves
  /\ active \subseteq Doc
  /\ pc \in [Importer -> {"idle", "dial", "settings", "list", "record", "find",
                          "insert", "done", "failed"}]
  /\ pc[Live] \in {"idle", "find", "insert"}
  /\ todo \in [Sync -> SUBSET Contact]
  /\ current \in [Importer -> Contact \cup {NoContact}]
  /\ \A p \in Importer : current[p] # NoContact <=> pc[p] \in {"find", "insert"}
  /\ known \in [Sync -> SetupCall]
  /\ bucket \in [Sync -> [Buckets -> SUBSET Contact]]
  /\ received \in [Sync -> SUBSET Contact]
  /\ heard \in 0..logged
  /\ spent \in [syncs: 0..MaxSyncs, faults: 0..MaxFaults]
  /\ saved \in [Contact -> [call: SetupCall, moves: 0..MaxMoves]]
  /\ askedAt \in [Sync -> -1..MaxMoves]
  /\ kept \in [Sync -> SUBSET Contact]
  /\ removed \in [Sync -> SUBSET Contact]

\* "Imports only QSOs that are missing": a Sync never inserts a second QSO for a
\* contact that was in the log when it began and still is, however it came there
\* and whatever the live bridge, another Sync or a failure do meanwhile.
OnlyMissingImported ==
  \A s \in Sync : \A c \in bucket[s]["imported"], n \in kept[s] : ~Near(c, n)

\* Where the report may count a contact that was made under that setup Call.
Deserves(c, call, b) ==
  LET i == Identity(c, call) IN
  IF i = "matched" THEN b \in {"imported", "present", "errors"} ELSE b = i

\* The lines of the report mean what they say.  Every record received is counted
\* once.  What is imported or already present is in the log, unless the operator
\* has removed it since the Sync began.  Whose a contact is, is decided as ACLog
\* was set up when it was saved, unless the setup Call has changed between that
\* and the answer of the Sync; and by the record alone when there was no answer.
ReportIsTrue ==
  \A s \in Sync :
    /\ received[s] = todo[s] \cup (UNION {bucket[s][b] : b \in Buckets})
                       \cup ({current[s]} \ {NoContact})
    /\ \A b, k \in Buckets : b # k => bucket[s][b] \cap bucket[s][k] = {}
    /\ \A c \in bucket[s]["imported"] \cup bucket[s]["present"] :
         \E n \in Contacts(active) \cup removed[s] : Near(c, n)
    /\ \A b \in Buckets : \A c \in bucket[s][b] :
         /\ askedAt[s] = -1 => Deserves(c, NoCall, b)
         /\ askedAt[s] = saved[c].moves => Deserves(c, saved[c].call, b)
=============================================================================
