------------------------------ MODULE QsoStore ------------------------------
(***************************************************************************)
(* One operator's QSO collection (`<username>_qsos`) and the requests that  *)
(* write to it: the REST and browser handlers of app/qso/router.py and      *)
(* app/qso/ui_router.py, ADIF import, the browser's duplicate review, and   *)
(* the UDP and ACLog ingestion paths, all of which go through              *)
(* app/qso/service.py.                                                     *)
(*                                                                         *)
(* The application is one asyncio process, so a handler runs alone between *)
(* two awaits.  Every MongoDB call is one step here and the handlers of    *)
(* different requests interleave between those steps.  delete_many is not  *)
(* atomic in MongoDB and is a loop.                                        *)
(***************************************************************************)
EXTENDS Naturals, Sequences, FiniteSets

CONSTANTS
  Proc,         \* the request handlers that may be in flight together
  QsoId,        \* the ObjectIds
  Call,         \* what find_duplicate matches exactly: CALL with BAND and MODE
  Date, Time,   \* QSO_DATE and TIME_ON, as numbers
  DayLength,    \* the distance between two dates, in the units of Time
  Batches,      \* the sequences of records a client may submit
  Updates,      \* the field updates a client may send
  Absent,       \* no document, no value
  Keep,         \* "this update does not set the field"
  Garbled,      \* a QSO_DATE or TIME_ON that parse_adif_datetime cannot parse
  Empty,        \* a QSO_DATE or TIME_ON with nothing in it
  ClientUtc,    \* the texts a client may store as qso_date_utc
  Canonical,    \* what each of them is hashed like
  Indexed,      \* whether the collection has row_hash_unique_idx
  MaxRecords, MaxEdits, MaxClears, MaxFaults   \* bounds on the inputs

ASSUME ConstantsAssumption ==
  /\ Date \subseteq Nat
  /\ Time \subseteq Nat
  /\ DayLength \in Nat
  /\ {Garbled, Empty} \cap Nat = {}
  /\ Garbled # Empty
  /\ ClientUtc \cap Nat = {}
  /\ Canonical \in [ClientUtc -> Nat \cup ClientUtc]
  /\ Keep \notin Call \cup Nat \cup BOOLEAN \cup {Garbled, Empty} \cup ClientUtc
  /\ Absent \notin QsoId
  /\ Indexed \in BOOLEAN

DateText == Date \cup {Garbled, Empty}
TimeText == Time \cup {Garbled, Empty}

\* qso_date_utc: a datetime, or the text a client sent in its place.
Utc == Nat \cup ClientUtc

\* The +/- 2 minutes of find_duplicate, in the units of Time.
Window == 2

Instant(d, t) == d * DayLength + t

(***************************************************************************)
(* A document's business content, and its rowHash.  SHA-256 is taken to be *)
(* injective on the canonical form, so the hash is the content it covers:  *)
(* every field but _id, _created_at and rowHash itself; _deleted is        *)
(* covered.  A datetime is hashed as the text that spells it, so that one  *)
(* text a client may send is hashed like the datetime.                     *)
(***************************************************************************)
Fields == [call: Call, date: DateText, time: TimeText, utc: Utc]
RowHash == [f: Fields, deleted: BOOLEAN]
Doc == [f: Fields, deleted: BOOLEAN, hash: RowHash]

Content(f) == IF f.utc \in ClientUtc THEN [f EXCEPT !.utc = Canonical[f.utc]] ELSE f

canonical_document_hash(f, del) == [f |-> Content(f), deleted |-> del]

(***************************************************************************)
(* A submitted record, as the handler sees it after parsing: build_qso_dict*)
(* derives qso_date_utc and raises on a date or time it cannot parse.      *)
(***************************************************************************)
Record == [call: Call, date: DateText, time: TimeText]

Valid(r) == r.date \in Date /\ r.time \in Time

build_qso_dict(r) ==
  [call |-> r.call, date |-> r.date, time |-> r.time,
   utc |-> Instant(r.date, r.time)]

\* qso_from_input_dict refreshes rowHash on an active document.
qso_from_input_dict(f) ==
  [f |-> f, deleted |-> FALSE, hash |-> canonical_document_hash(f, FALSE)]

(***************************************************************************)
(* An update is what a client sends to an edit.  patch_qso strips the      *)
(* protected fields of the body; qso_date_utc is not one of them.          *)
(***************************************************************************)
Update == [call: Call \cup {Keep}, date: DateText \cup {Keep}, time: TimeText \cup {Keep},
           utc: ClientUtc \cup {Keep}]

NoUpdate == [call |-> Keep, date |-> Keep, time |-> Keep, utc |-> Keep]

ASSUME InputsAssumption ==
  /\ Batches \subseteq Seq(Record)
  /\ Updates \subseteq Update \ {NoUpdate}
  /\ Absent \notin Doc
  /\ Absent \notin Fields

SetDoc == [call: Call \cup {Keep}, date: DateText \cup {Keep}, time: TimeText \cup {Keep},
           utc: Utc \cup {Keep}, deleted: BOOLEAN \cup {Keep}]

Pick(new, old) == IF new = Keep THEN old ELSE new

Merge(f, s) ==
  [call |-> Pick(s.call, f.call), date |-> Pick(s.date, f.date),
   time |-> Pick(s.time, f.time), utc |-> Pick(s.utc, f.utc)]

\* Mutant: the soft delete does not refresh the hash.
row_hash_without_deleted(doc, s) ==
  canonical_document_hash(Merge(doc.f, s), doc.deleted)

\* The rowHash the snapshot would have after the $set.
row_hash_for_updated_qso(doc, s) ==
  canonical_document_hash(Merge(doc.f, s), Pick(s.deleted, doc.deleted))

\* The browser's handler drops the empty fields of the form, and has no
\* qso_date_utc field.
FromForm(u) ==
  [u EXCEPT !.date = IF @ = Empty THEN Keep ELSE @,
            !.time = IF @ = Empty THEN Keep ELSE @,
            !.utc = Keep]

\* The date or time an edit ends with: an empty one leaves the snapshot's.
Sent(new, old) == IF new \in {Keep, Empty} THEN old ELSE new

\* qso_date_utc is recalculated when QSO_DATE or TIME_ON is in the update, even
\* empty, and the update and the snapshot give a date and a time between them.
Recalculates(f, u) ==
  /\ u.date # Keep \/ u.time # Keep
  /\ Sent(u.date, f.date) # Empty
  /\ Sent(u.time, f.time) # Empty

\* parse_adif_datetime raises in patch_qso; the browser's handler catches it
\* and keeps the qso_date_utc it has.
Unparseable(f, u) ==
  Recalculates(f, u) /\ Garbled \in {Sent(u.date, f.date), Sent(u.time, f.time)}

NewUtc(f, u) ==
  IF Recalculates(f, u) /\ ~Unparseable(f, u)
  THEN Instant(Sent(u.date, f.date), Sent(u.time, f.time))
  ELSE u.utc

PatchSet(f, u) ==
  [call |-> u.call, date |-> u.date, time |-> u.time,
   utc |-> NewUtc(f, u), deleted |-> Keep]

DeleteSet ==
  [call |-> Keep, date |-> Keep, time |-> Keep, utc |-> Keep, deleted |-> TRUE]

-----------------------------------------------------------------------------
VARIABLES
  coll,     \* the collection
  used,     \* every id ever inserted
  aired,    \* ids whose insertion was broadcast to the live feed
  pc,       \* where each handler waits
  job,      \* the submission of each handler: its records and its mode
  report,   \* how the records handled so far were settled
  edit,     \* the edit of each handler: target, $set document, new rowHash
  doomed,   \* what the scan of a handler's delete_many must still visit
  fresh,    \* the id a handler has just inserted
  answer,   \* how each handler's last edit or clear was answered
  spent,    \* how much of each input bound is used
  \* History, read by properties only:
  checked,  \* the active ids a submission's duplicate check looked at
  seen,     \* the same, kept for the document it then inserted
  edited,   \* ids a PATCH has changed
  cleared,  \* ids removed by clear_operator_log
  contested \* ids that two PATCH or DELETE requests had in flight together

store == <<coll, used, aired>>
history == <<checked, seen, edited, cleared, contested>>
vars == <<coll, used, aired, pc, job, report, edit, doomed, fresh, answer,
          spent, checked, seen, edited, cleared, contested>>

Stored == {i \in QsoId : coll[i] # Absent}
Active == {i \in Stored : ~coll[i].deleted}

Modes == {"checked", "force", "review"}
Verdicts == [verdict: {"accepted", "duplicate"}, id: QsoId \cup {Absent}]
              \cup [verdict: {"error"}, id: {Absent}]
NoJob == [batch |-> <<>>, mode |-> "checked"]
NoEdit == [kind |-> "none", id |-> Absent, set |-> Absent, hash |-> Absent]

Init ==
  /\ coll = [i \in QsoId |-> Absent]
  /\ used = {}
  /\ aired = {}
  /\ pc = [p \in Proc |-> "idle"]
  /\ job = [p \in Proc |-> NoJob]
  /\ report = [p \in Proc |-> <<>>]
  /\ edit = [p \in Proc |-> NoEdit]
  /\ doomed = [p \in Proc |-> {}]
  /\ fresh = [p \in Proc |-> Absent]
  /\ answer = [p \in Proc |-> "none"]
  /\ spent = [records |-> 0, edits |-> 0, clears |-> 0, faults |-> 0]
  /\ checked = [p \in Proc |-> {}]
  /\ seen = [i \in QsoId |-> {}]
  /\ edited = {}
  /\ cleared = {}
  /\ contested = {}

Goto(p, label) == pc' = [pc EXCEPT ![p] = label]
Answer(p, a) == answer' = [answer EXCEPT ![p] = a]

-----------------------------------------------------------------------------
(***************************************************************************)
(* Submissions.  A REST or form submission, a UDP datagram or an ACLog     *)
(* contact is a batch of one record; an import or a duplicate review is a  *)
(* longer one, its records handled in order.                               *)
(***************************************************************************)
Current(p) == job[p].batch[Len(report[p]) + 1]

\* The record is settled: the next one, or the end of the request.
Settle(p, v) ==
  /\ report' = [report EXCEPT ![p] = Append(@, v)]
  /\ Goto(p, IF Len(report[p]) + 1 = Len(job[p].batch) THEN "idle" ELSE "record")

Submit(p) ==
  /\ pc[p] = "idle"
  /\ \E b \in Batches, m \in Modes :
       /\ b # <<>>
       /\ m = "force" => Len(b) = 1
       /\ spent.records + Len(b) <= MaxRecords
       /\ job' = [job EXCEPT ![p] = [batch |-> b, mode |-> m]]
       /\ report' = [report EXCEPT ![p] = <<>>]
       /\ spent' = [spent EXCEPT !.records = @ + Len(b)]
  /\ Goto(p, "record")
  /\ Answer(p, "none")
  /\ edit' = [edit EXCEPT ![p] = NoEdit]
  /\ UNCHANGED <<store, doomed, fresh, history>>

\* Mutant: the verdict of the single-record path leaks into the report.
RejectRecordByOtherName(p) ==
  /\ pc[p] = "record"
  /\ ~Valid(Current(p))
  /\ Settle(p, [verdict |-> "rejected", id |-> Absent])
  /\ UNCHANGED <<store, job, edit, doomed, fresh, answer, spent, history>>

\* build_qso_dict raised, or a required field is missing.
RejectRecord(p) ==
  /\ pc[p] = "record"
  /\ ~Valid(Current(p))
  /\ Settle(p, [verdict |-> "error", id |-> Absent])
  /\ UNCHANGED <<store, job, edit, doomed, fresh, answer, spent, history>>

\* Mutant: the edge of the window is left out.
NearExclusive(f, g) ==
  /\ f.call = g.call
  /\ {f.utc, g.utc} \subseteq Nat
  /\ f.utc < g.utc + Window
  /\ g.utc < f.utc + Window

\* A range of datetimes matches no text.
Near(f, g) ==
  /\ f.call = g.call
  /\ {f.utc, g.utc} \subseteq Nat
  /\ f.utc <= g.utc + Window
  /\ g.utc <= f.utc + Window

\* Mutant: any earlier contact with the station is a duplicate.
MatchesWorkedBefore(f) == {i \in Active : coll[i].f.call = f.call}

Matches(f) == {i \in Active : Near(coll[i].f, f)}

\* The +/- 2 minute check, skipped by force=true and by the duplicate review.
find_duplicate(p) ==
  /\ pc[p] = "record"
  /\ job[p].mode = "checked"
  /\ Valid(Current(p))
  /\ LET dups == Matches(build_qso_dict(Current(p))) IN
       \/ /\ dups = {}
          /\ Goto(p, "insert")
          /\ checked' = [checked EXCEPT ![p] = Active]
          /\ UNCHANGED report
       \/ \E i \in dups :
            /\ Settle(p, [verdict |-> "duplicate", id |-> i])
            /\ UNCHANGED checked
  /\ UNCHANGED <<store, job, edit, doomed, fresh, answer, spent, seen, edited, cleared,
                 contested>>

ReadyToInsert(p) ==
  \/ pc[p] = "insert"
  \/ pc[p] = "record" /\ job[p].mode # "checked" /\ Valid(Current(p))

\* Mutant: copies are refused on insert only, as by a check in the handler.
HashTakenOnInsert(h, i) ==
  Indexed /\ i = Absent /\ \E j \in Stored : coll[j].hash = h

\* Another document holds this rowHash, and the unique index refuses a second.
HashTaken(h, i) == Indexed /\ \E j \in Stored \ {i} : coll[j].hash = h

\* insert_one.  An id is never reused.
insert_qso_dict(p) ==
  /\ ReadyToInsert(p)
  /\ LET doc == qso_from_input_dict(build_qso_dict(Current(p))) IN
       \/ /\ HashTaken(doc.hash, Absent)
          /\ Goto(p, "existing")
          /\ UNCHANGED <<coll, used, fresh, seen>>
       \/ /\ ~HashTaken(doc.hash, Absent)
          /\ QsoId \ used # {}
          /\ LET i == CHOOSE i \in QsoId : i \notin used IN
               /\ coll' = [coll EXCEPT ![i] = doc]
               /\ used' = used \cup {i}
               /\ fresh' = [fresh EXCEPT ![p] = i]
               /\ seen' = [seen EXCEPT ![i] = checked[p]]
          /\ Goto(p, "broadcast")
  /\ checked' = [checked EXCEPT ![p] = {}]
  /\ UNCHANGED <<aired, job, report, edit, doomed, answer, spent, edited, cleared, contested>>

\* The answers that show a QSO format its qso_date_utc, and raise on a text.
Unshowable(i) == i \in Stored /\ coll[i].f.utc \in ClientUtc

\* After a DuplicateKeyError: find_one on the rowHash, which may be gone by now.
\* A client's or the form's single submission is answered with that QSO's time.
FindExisting(p) ==
  /\ pc[p] = "existing"
  /\ LET h == qso_from_input_dict(build_qso_dict(Current(p))).hash
         same == {i \in Stored : coll[i].hash = h}
     IN  \E i \in IF same = {} THEN {Absent} ELSE same :
           \/ /\ Settle(p, [verdict |-> "duplicate", id |-> i])
              /\ UNCHANGED answer
           \/ /\ Unshowable(i)
              /\ Len(job[p].batch) = 1
              /\ job[p].mode # "review"
              /\ Goto(p, "idle")
              /\ Answer(p, "error")
              /\ UNCHANGED report
  /\ UNCHANGED <<store, job, edit, doomed, fresh, spent, history>>

\* Mutant: a batch import does not tell the live feed.
AcceptQuietly(p) ==
  /\ pc[p] = "broadcast"
  /\ aired' = IF Len(job[p].batch) = 1 THEN aired \cup {fresh[p]} ELSE aired
  /\ Settle(p, [verdict |-> "accepted", id |-> fresh[p]])
  /\ fresh' = [fresh EXCEPT ![p] = Absent]
  /\ UNCHANGED <<coll, used, job, edit, doomed, answer, spent, history>>

\* insert_one has returned: the live feed is told, and the record is accepted.
broadcast_qso(p) ==
  /\ pc[p] = "broadcast"
  /\ aired' = aired \cup {fresh[p]}
  /\ Settle(p, [verdict |-> "accepted", id |-> fresh[p]])
  /\ fresh' = [fresh EXCEPT ![p] = Absent]
  /\ UNCHANGED <<coll, used, job, edit, doomed, answer, spent, history>>

-----------------------------------------------------------------------------
(***************************************************************************)
(* PATCH and DELETE, from the API and from the browser: read the document, *)
(* compute the new rowHash from that snapshot, write.                      *)
(***************************************************************************)
Editing(p) == pc[p] = "write"

EditedElsewhere(p, i) == \E q \in Proc \ {p} : Editing(q) /\ edit[q].id = i

\* Nothing keeps a second edit of i out while the first awaits its write.
Contend(p, i) ==
  contested' = IF EditedElsewhere(p, i) THEN contested \cup {i} ELSE contested

BeginEdit(p, i) ==
  /\ pc[p] = "idle"
  /\ i \in used
  /\ spent.edits < MaxEdits
  /\ spent' = [spent EXCEPT !.edits = @ + 1]
  /\ job' = [job EXCEPT ![p] = NoJob]
  /\ report' = [report EXCEPT ![p] = <<>>]
  /\ UNCHANGED <<store, doomed, fresh, checked, seen, edited, cleared>>

\* get_qso_by_id for a QSO that is gone or soft-deleted: 404.
EditNotFound(p, i) ==
  /\ BeginEdit(p, i)
  /\ i \notin Active
  /\ Answer(p, "notFound")
  /\ edit' = [edit EXCEPT ![p] = NoEdit]
  /\ UNCHANGED <<pc, contested>>

ReadForPatch(p, i) ==
  /\ BeginEdit(p, i)
  /\ i \in Active
  /\ \E body \in Updates, via \in {"rest", "browser"} :
       LET u == IF via = "rest" THEN body ELSE FromForm(body)
           s == PatchSet(coll[i].f, u)
       IN  IF \/ via = "rest" /\ Unparseable(coll[i].f, u)
              \/ u = NoUpdate                        \* a form of empty fields: 400
           THEN /\ Answer(p, "error")
                /\ edit' = [edit EXCEPT ![p] = NoEdit]
                /\ UNCHANGED <<pc, contested>>
           ELSE /\ edit' = [edit EXCEPT ![p] =
                     [kind |-> via, id |-> i, set |-> s,
                      hash |-> row_hash_for_updated_qso(coll[i], s)]]
                /\ Contend(p, i)
                /\ Goto(p, "write")
                /\ Answer(p, "none")

ReadForDelete(p, i) ==
  /\ BeginEdit(p, i)
  /\ i \in Active
  /\ edit' = [edit EXCEPT ![p] =
       [kind |-> "delete", id |-> i, set |-> DeleteSet,
        hash |-> row_hash_for_updated_qso(coll[i], DeleteSet)]]
  /\ Contend(p, i)
  /\ Goto(p, "write")
  /\ Answer(p, "none")

\* update_one({"_id": id}, {"$set": ...}) on the document as it is now.
Written(p) ==
  LET e == edit[p]
      d == coll[e.id]
  IN  [f |-> Merge(d.f, e.set), deleted |-> Pick(e.set.deleted, d.deleted),
       hash |-> e.hash]

\* Mutant: a DELETE that matched nothing is taken for a failure.
AfterWriteMatched(p) ==
  IF edit[p].kind = "delete"
  THEN Goto(p, "idle") /\ Answer(p, IF coll[edit[p].id] = Absent THEN "error" ELSE "ok")
  ELSE Goto(p, "refetch") /\ UNCHANGED answer

AfterWrite(p) ==
  IF edit[p].kind = "delete"
  THEN Goto(p, "idle") /\ Answer(p, "ok")
  ELSE Goto(p, "refetch") /\ UNCHANGED answer

\* DuplicateKeyError, handled by PATCH only: the API's answer gives the time of
\* the QSO that holds the rowHash.
Refusal(p) ==
  IF \/ edit[p].kind = "delete"
     \/ edit[p].kind = "rest" /\ \E j \in Stored \ {edit[p].id} :
                                   coll[j].hash = edit[p].hash /\ Unshowable(j)
  THEN "error" ELSE "conflict"

update_one(p) ==
  /\ pc[p] = "write"
  /\ LET i == edit[p].id IN
       \/ /\ coll[i] = Absent          \* matches nothing, raises nothing
          /\ AfterWrite(p)
          /\ UNCHANGED <<coll, edited>>
       \/ /\ coll[i] # Absent
          /\ HashTaken(edit[p].hash, i)
          /\ Goto(p, "idle")
          /\ Answer(p, Refusal(p))
          /\ UNCHANGED <<coll, edited>>
       \/ /\ coll[i] # Absent
          /\ ~HashTaken(edit[p].hash, i)
          /\ coll' = [coll EXCEPT ![i] = Written(p)]
          /\ edited' = IF edit[p].kind = "delete" THEN edited ELSE edited \cup {i}
          /\ AfterWrite(p)
  /\ UNCHANGED <<used, aired, job, report, edit, doomed, fresh, spent, checked, seen, cleared,
                 contested>>

\* update_qso_fields reads the document back and raises when it is gone.
Refetch(p) ==
  /\ pc[p] = "refetch"
  /\ \/ coll[edit[p].id] # Absent /\ Goto(p, "reread") /\ UNCHANGED answer
     \/ coll[edit[p].id] = Absent /\ Goto(p, "idle") /\ Answer(p, "error")
  /\ UNCHANGED <<store, job, report, edit, doomed, fresh, spent, history>>

\* The handler reads it once more; the browser's maps a missing one to 404, and
\* its row cannot show a text for a time.
Reread(p) ==
  /\ pc[p] = "reread"
  /\ Goto(p, "idle")
  /\ LET i == edit[p].id
         rest == edit[p].kind = "rest"
     IN  Answer(p, IF coll[i] = Absent THEN IF rest THEN "error" ELSE "notFound"
                   ELSE IF ~rest /\ Unshowable(i) THEN "error" ELSE "ok")
  /\ UNCHANGED <<store, job, report, edit, doomed, fresh, spent, history>>

-----------------------------------------------------------------------------
(***************************************************************************)
(* clear_operator_log: delete_many on the active documents.  It visits     *)
(* every document that was active at its start and may or may not meet one *)
(* inserted meanwhile; the filter is evaluated again at each deletion.     *)
(***************************************************************************)
BeginClear(p) ==
  /\ pc[p] = "idle"
  /\ spent.clears < MaxClears
  /\ spent' = [spent EXCEPT !.clears = @ + 1]
  /\ doomed' = [doomed EXCEPT ![p] = Active]
  /\ job' = [job EXCEPT ![p] = NoJob]
  /\ report' = [report EXCEPT ![p] = <<>>]
  /\ edit' = [edit EXCEPT ![p] = NoEdit]
  /\ Goto(p, "clear")
  /\ Answer(p, "none")
  /\ UNCHANGED <<store, fresh, history>>

\* Mutant: the filter forgets _deleted.
ClearAny(p) ==
  /\ pc[p] = "clear"
  /\ \E i \in Stored :
       /\ coll' = [coll EXCEPT ![i] = Absent]
       /\ cleared' = cleared \cup {i}
       /\ doomed' = [doomed EXCEPT ![p] = @ \ {i}]
  /\ UNCHANGED <<used, aired, pc, job, report, edit, fresh, answer, spent, checked, seen, edited,
                 contested>>

ClearOne(p) ==
  /\ pc[p] = "clear"
  /\ \E i \in Active :
       /\ coll' = [coll EXCEPT ![i] = Absent]
       /\ cleared' = cleared \cup {i}
       /\ doomed' = [doomed EXCEPT ![p] = @ \ {i}]
  /\ UNCHANGED <<used, aired, pc, job, report, edit, fresh, answer, spent, checked, seen, edited,
                 contested>>

EndClear(p) ==
  /\ pc[p] = "clear"
  /\ doomed[p] \cap Active = {}
  /\ doomed' = [doomed EXCEPT ![p] = {}]
  /\ Goto(p, "idle")
  /\ Answer(p, "ok")
  /\ UNCHANGED <<store, job, report, edit, fresh, spent, history>>

-----------------------------------------------------------------------------
(***************************************************************************)
(* A MongoDB call of p raises: the connection is lost before or, at        *)
(* "broadcast", after the insert took effect.  The duplicate review        *)
(* reports the record and goes on; every other handler answers 500.        *)
(***************************************************************************)
Fault(p) ==
  /\ pc[p] # "idle"
  /\ pc[p] = "record" => Valid(Current(p))
  /\ spent.faults < MaxFaults
  /\ spent' = [spent EXCEPT !.faults = @ + 1]
  /\ doomed' = [doomed EXCEPT ![p] = {}]
  /\ fresh' = [fresh EXCEPT ![p] = Absent]
  /\ checked' = [checked EXCEPT ![p] = {}]
  /\ IF job[p].mode = "review" /\ pc[p] \in {"record", "existing", "broadcast"}
     THEN Settle(p, [verdict |-> "error", id |-> Absent]) /\ UNCHANGED answer
     ELSE Goto(p, "idle") /\ Answer(p, "error") /\ UNCHANGED report
  /\ UNCHANGED <<store, job, edit, seen, edited, cleared, contested>>

Edit(p) == \E i \in used : EditNotFound(p, i) \/ ReadForPatch(p, i) \/ ReadForDelete(p, i)

\* What a handler does once its request has arrived.
Handle(p) ==
  \/ RejectRecord(p)
  \/ find_duplicate(p)
  \/ insert_qso_dict(p)
  \/ FindExisting(p)
  \/ broadcast_qso(p)
  \/ update_one(p)
  \/ Refetch(p)
  \/ Reread(p)
  \/ ClearOne(p)
  \/ EndClear(p)

Next ==
  \E p \in Proc : Submit(p) \/ Edit(p) \/ BeginClear(p) \/ Fault(p) \/ Handle(p)

Spec == Init /\ [][Next]_vars

-----------------------------------------------------------------------------
(***************************************************************************)
(*                               Properties                                *)
(***************************************************************************)

Labels == {"idle", "record", "insert", "existing", "broadcast", "write",
           "refetch", "reread", "clear"}

Jobs == [batch: Seq(Record), mode: Modes]
Edits == {NoEdit} \cup [kind: {"rest", "browser", "delete"}, id: QsoId,
                        set: SetDoc, hash: RowHash]
Answers == {"none", "ok", "notFound", "conflict", "error"}
Spending == [records: Nat, edits: Nat, clears: Nat, faults: Nat]

\* Type correctness of the store, the handlers and the history.
TypeOK ==
  /\ coll \in [QsoId -> Doc \cup {Absent}]
  /\ used \subseteq QsoId
  /\ aired \subseteq QsoId
  /\ pc \in [Proc -> Labels]
  /\ job \in [Proc -> Jobs]
  /\ report \in [Proc -> Seq(Verdicts)]
  /\ edit \in [Proc -> Edits]
  /\ doomed \in [Proc -> SUBSET QsoId]
  /\ fresh \in [Proc -> QsoId \cup {Absent}]
  /\ answer \in [Proc -> Answers]
  /\ spent \in Spending
  /\ checked \in [Proc -> SUBSET QsoId]
  /\ seen \in [QsoId -> SUBSET QsoId]
  /\ edited \subseteq QsoId
  /\ cleared \subseteq QsoId
  /\ contested \subseteq QsoId

\* What each waiting point knows of its handler's own state: a record is left
\* to settle, and it is a valid one past the check; an inserted id is at hand;
\* an edit is under way.  With TypeOK it is inductive.
HandlerAt(p) ==
  /\ pc[p] \in {"record", "insert", "existing", "broadcast"}
       => Len(report[p]) < Len(job[p].batch)
  /\ pc[p] \in {"insert", "existing", "broadcast"} => Valid(Current(p))
  /\ pc[p] = "broadcast" => fresh[p] \in used
  /\ pc[p] \in {"write", "refetch", "reread"} => edit[p] # NoEdit

HandlerOK == \A p \in Proc : HandlerAt(p)

\* PATCH and DELETE compute a document's rowHash, and PATCH its qso_date_utc,
\* from a snapshot read before an await (row_hash_for_updated_qso).  So long as
\* no two of them were in flight on it together, the rowHash a document carries
\* is its hash, and the qso_date_utc that sorting, the duplicate window and the
\* statistics read is the instant its QSO_DATE and TIME_ON spell: never that of
\* an earlier date or time.  Two things the API stores make the exceptions: a
\* text sent as qso_date_utc, until the next edit that recalculates it, and a
\* date or time that does not parse or is empty, which spells no instant.
Uncontested == Stored \ contested

HashFresh ==
  \A i \in Uncontested : coll[i].hash = canonical_document_hash(coll[i].f, coll[i].deleted)

InstantFresh ==
  \A i \in Uncontested :
    LET f == coll[i].f IN
    f.date \in Date /\ f.time \in Time /\ f.utc \notin ClientUtc
      => f.utc = Instant(f.date, f.time)

FieldsFresh == HashFresh /\ InstantFresh

\* No two active QSOs are exact copies of one another, whichever paths wrote
\* them (forced submissions, imports and corrections included): what rowHash
\* and its unique index are there for.  Overlapping edits of one QSO defeat it.
NoExactDuplicates ==
  \A i, j \in Active \ contested : i # j => coll[i].f # coll[j].f

\* Without a MongoDB failure, a DELETE is answered 500 only when a QSO with the
\* very same content is already in the bin, whose rowHash the deleted one would
\* take; overlapping edits excepted.
DeleteRefusedOnlyByTwin ==
  [][\A p \in Proc :
       LET i == edit[p].id IN
       /\ Editing(p) /\ edit[p].kind = "delete" /\ i \notin contested
       /\ answer[p] = "none" /\ answer'[p] = "error" /\ spent'.faults = spent.faults
       => \E j \in Stored \ {i} :
            \/ j \in contested
            \/ coll[j].deleted /\ Content(coll[j].f) = Content(coll[i].f)]_vars

\* Two active QSOs of one CALL/BAND/MODE within two minutes of each other come
\* only from force, from a correction, or from two submissions that both
\* checked before either inserted: a submission that checked after the other's
\* insert never adds a near duplicate of it (find_duplicate).
NearDuplicateOnlyByRace ==
  \A j \in Active \ edited : \A i \in (seen[j] \cap Active) \ edited :
    coll[i].f.call = coll[j].f.call
      => \/ coll[i].f.utc > coll[j].f.utc + 2
         \/ coll[j].f.utc > coll[i].f.utc + 2

Reported(p) == DOMAIN report[p]

\* A QSO reported as accepted was shown on the live feed and is in the log as
\* it was sent, until it is corrected or the log is cleared: faults, other
\* handlers and the rest of the batch do not lose it.
AcceptedIsKept ==
  \A p \in Proc : \A k \in Reported(p) :
    LET v == report[p][k] IN
    v.verdict = "accepted" =>
      /\ v.id \in aired
      /\ v.id \in cleared \cup Stored
      /\ v.id \in Stored \ edited => coll[v.id].f = build_qso_dict(job[p].batch[k])

\* The QSO a "duplicate" answer points at is the same contact within the
\* window, unless it was corrected since; and the report names a record as an
\* error only when it is invalid or a MongoDB call failed.
VerdictsJustified ==
  \A p \in Proc : \A k \in Reported(p) :
    LET v == report[p][k]
        r == job[p].batch[k]
    IN  /\ v.verdict = "duplicate" /\ v.id \in Stored \ edited
             => Near(coll[v.id].f, build_qso_dict(r))
        /\ v.verdict = "error" => ~Valid(r) \/ spent.faults > 0
        /\ v.verdict = "accepted" => Valid(r)

\* The collection, read as a log of contacts, keeps the promises of
\* OperatorLog: each step of a handler is one of its steps or changes nothing.
Contract ==
  INSTANCE OperatorLog WITH
    entry <- [i \in QsoId |-> IF coll[i] = Absent THEN Absent ELSE coll[i].f],
    bin <- Stored \ Active

KeepsContract == Contract!Spec

=============================================================================
