--------------------------- MODULE QsoStoreProofs ---------------------------
EXTENDS QsoStore, TLAPS, SequenceTheorems

LEMMA InstantType ==
  ASSUME NEW d \in Date, NEW t \in Time
  PROVE  Instant(d, t) \in Nat
<1>1. d \in Nat /\ t \in Nat /\ DayLength \in Nat
  BY ConstantsAssumption
<1>2. d * DayLength \in Nat
  BY <1>1
<1> QED
  BY <1>1, <1>2 DEF Instant

LEMMA ContentType ==
  ASSUME NEW f \in Fields
  PROVE  Content(f) \in Fields
<1>1. CASE f.utc \in ClientUtc
  <2>1. Canonical[f.utc] \in Utc
    BY <1>1, ConstantsAssumption DEF Utc
  <2> QED
    BY <1>1, <2>1 DEF Content, Fields
<1>2. CASE f.utc \notin ClientUtc
  BY <1>2 DEF Content
<1> QED
  BY <1>1, <1>2

\* A datetime is hashed as it is.
LEMMA ContentOfDatetime ==
  ASSUME NEW f \in Fields, f.utc \in Nat
  PROVE  Content(f) = f
BY ConstantsAssumption DEF Content

LEMMA ContentFacts ==
  ASSUME NEW f \in Fields
  PROVE  /\ Content(f).call = f.call
         /\ Content(f).date = f.date
         /\ Content(f).time = f.time
BY DEF Content, Fields

LEMMA BuildType ==
  ASSUME NEW r \in Record, Valid(r)
  PROVE  /\ build_qso_dict(r) \in Fields
         /\ qso_from_input_dict(build_qso_dict(r)) \in Doc
<1>1. Instant(r.date, r.time) \in Nat
  BY InstantType DEF Valid
<1>2. build_qso_dict(r) \in Fields
  BY <1>1 DEF Record, Fields, build_qso_dict, Utc
<1>3. Content(build_qso_dict(r)) \in Fields
  BY <1>2, ContentType
<1> QED
  BY <1>2, <1>3 DEF Doc, RowHash, qso_from_input_dict, canonical_document_hash

\* What a submission writes holds a datetime, and is hashed as it is.
LEMMA BuiltContent ==
  ASSUME NEW r \in Record, Valid(r)
  PROVE  build_qso_dict(r).utc \in Nat /\ Content(build_qso_dict(r)) = build_qso_dict(r)
<1>1. build_qso_dict(r).utc \in Nat
  BY InstantType DEF Valid, build_qso_dict
<1> QED
  BY <1>1, BuildType, ContentOfDatetime

LEMMA MergeType ==
  ASSUME NEW f \in Fields, NEW s \in SetDoc
  PROVE  Merge(f, s) \in Fields
<1>1. /\ Pick(s.call, f.call) \in Call
      /\ Pick(s.date, f.date) \in DateText
      /\ Pick(s.time, f.time) \in TimeText
      /\ Pick(s.utc, f.utc) \in Utc
  BY DEF Fields, SetDoc, Pick
<1> QED
  BY <1>1 DEF Fields, Merge

LEMMA SetDocType ==
  ASSUME NEW f \in Fields, NEW u \in Update
  PROVE  /\ PatchSet(f, u) \in SetDoc
         /\ DeleteSet \in SetDoc
<1> DEFINE d == Sent(u.date, f.date)
           t == Sent(u.time, f.time)
<1>1. d \in DateText /\ t \in TimeText
  BY DEF Fields, Update, Sent
<1>2. CASE Recalculates(f, u) /\ ~Unparseable(f, u)
  <2>1. d \in Date /\ t \in Time
    BY <1>1, <1>2 DEF Recalculates, Unparseable, DateText, TimeText
  <2> QED
    BY <1>2, <2>1, InstantType DEF NewUtc, PatchSet, DeleteSet, SetDoc, Update, Utc
<1>3. CASE ~(Recalculates(f, u) /\ ~Unparseable(f, u))
  BY <1>3 DEF NewUtc, PatchSet, DeleteSet, SetDoc, Update, Utc
<1> QED
  BY <1>2, <1>3

LEMMA FormType ==
  ASSUME NEW body \in Updates
  PROVE  body \in Update /\ FromForm(body) \in Update
<1>1. body \in Update
  BY InputsAssumption
<1> QED
  BY <1>1 DEF Update, FromForm, DateText, TimeText

LEMMA WrittenType ==
  ASSUME NEW d \in Doc, NEW s \in SetDoc
  PROVE  /\ Pick(s.deleted, d.deleted) \in BOOLEAN
         /\ row_hash_for_updated_qso(d, s) \in RowHash
<1>1. Pick(s.deleted, d.deleted) \in BOOLEAN
  BY DEF Doc, SetDoc, Pick
<1>2. Content(Merge(d.f, s)) \in Fields
  BY MergeType, ContentType DEF Doc
<1> QED
  BY <1>1, <1>2 DEF RowHash, row_hash_for_updated_qso, canonical_document_hash
-----------------------------------------------------------------------------
TypeInv == TypeOK /\ HandlerOK

LEMMA CurrentType ==
  ASSUME TypeOK, NEW p \in Proc, Len(report[p]) < Len(job[p].batch)
  PROVE  Current(p) \in Record
<1>1. job[p].batch \in Seq(Record) /\ report[p] \in Seq(Verdicts)
  BY DEF TypeOK, Jobs
<1>2. Len(report[p]) + 1 \in 1..Len(job[p].batch)
  BY <1>1
<1> QED
  BY <1>1, <1>2 DEF Current

\* What settling a record does to the report and to the waiting point.
LEMMA SettleType ==
  ASSUME TypeOK, NEW p \in Proc, NEW v \in Verdicts,
         Len(report[p]) < Len(job[p].batch), Settle(p, v)
  PROVE  /\ report' \in [Proc -> Seq(Verdicts)]
         /\ pc' \in [Proc -> Labels]
         /\ pc'[p] \in {"idle", "record"}
         /\ pc'[p] = "record" => Len(report'[p]) < Len(job[p].batch)
         /\ \A q \in Proc \ {p} : pc'[q] = pc[q] /\ report'[q] = report[q]
<1>1. /\ job[p].batch \in Seq(Record)
      /\ report[p] \in Seq(Verdicts)
      /\ report \in [Proc -> Seq(Verdicts)]
  BY DEF TypeOK, Jobs
<1>2. report' = [report EXCEPT ![p] = Append(report[p], v)]
  BY DEF Settle
<1>3. /\ Append(report[p], v) \in Seq(Verdicts)
      /\ Len(Append(report[p], v)) = Len(report[p]) + 1
      /\ Len(report[p]) \in Nat /\ Len(job[p].batch) \in Nat
  BY <1>1
<1>4. /\ pc' \in [Proc -> Labels]
      /\ pc'[p] = IF Len(report[p]) + 1 = Len(job[p].batch) THEN "idle" ELSE "record"
      /\ \A q \in Proc \ {p} : pc'[q] = pc[q]
  <2>1. pc \in [Proc -> Labels]
    BY DEF TypeOK
  <2>2. pc' = [pc EXCEPT ![p] =
                IF Len(report[p]) + 1 = Len(job[p].batch) THEN "idle" ELSE "record"]
    BY DEF Settle, Goto
  <2> QED
    BY <2>1, <2>2 DEF Labels
<1>5. /\ report' \in [Proc -> Seq(Verdicts)]
      /\ report'[p] = Append(report[p], v)
      /\ \A q \in Proc \ {p} : report'[q] = report[q]
  BY <1>1, <1>2, <1>3, Zenon
<1>6. pc'[p] = "record" => Len(report'[p]) < Len(job[p].batch)
  BY <1>3, <1>4, <1>5
<1> QED
  BY <1>4, <1>5, <1>6

\* Facts every action's proof starts from.
LEMMA IdTypes ==
  ASSUME TypeOK
  PROVE  /\ Stored \subseteq QsoId
         /\ Active \subseteq Stored
         /\ \A i \in Stored : coll[i] \in Doc
BY DEF TypeOK, Stored, Active

\* A handler whose own state is untouched is as it was.
LEMMA HandlerKept ==
  ASSUME HandlerOK, NEW q \in Proc,
         pc'[q] = pc[q], job'[q] = job[q], report'[q] = report[q],
         edit'[q] = edit[q], fresh'[q] = fresh[q], used \subseteq used'
  PROVE  HandlerAt(q)'
BY DEF HandlerOK, HandlerAt, Current

LEMMA Types ==
  ASSUME TypeOK
  PROVE  /\ coll \in [QsoId -> Doc \cup {Absent}]
         /\ used \subseteq QsoId
         /\ pc \in [Proc -> Labels]
         /\ job \in [Proc -> Jobs]
         /\ report \in [Proc -> Seq(Verdicts)]
         /\ edit \in [Proc -> Edits]
         /\ fresh \in [Proc -> QsoId \cup {Absent}]
         /\ answer \in [Proc -> Answers]
BY DEF TypeOK

LEMMA SpendingType ==
  ASSUME TypeOK, NEW n \in Nat
  PROVE  /\ [spent EXCEPT !.records = @ + n] \in Spending
         /\ [spent EXCEPT !.edits = @ + n] \in Spending
         /\ [spent EXCEPT !.clears = @ + n] \in Spending
         /\ [spent EXCEPT !.faults = @ + n] \in Spending
<1>1. spent \in Spending
  BY DEF TypeOK
<1> QED
  BY <1>1 DEF Spending

-----------------------------------------------------------------------------
(***************************************************************************)
(* Type correctness, one lemma per action.                                 *)
(***************************************************************************)
LEMMA TypeInit == Init => TypeInv
<1> SUFFICES ASSUME Init PROVE TypeOK /\ HandlerOK
  BY DEF TypeInv
<1>1. <<>> \in Seq(Record) /\ <<>> \in Seq(Verdicts)
  BY EmptySeq
<1>2. TypeOK
  BY <1>1 DEF Init, TypeOK, NoJob, Jobs, Edits, Answers, Spending, Labels, Modes
<1>3. HandlerOK
  BY DEF Init, HandlerOK, HandlerAt
<1> QED
  BY <1>2, <1>3

LEMMA TypeSubmit ==
  ASSUME TypeInv, NEW p \in Proc, Submit(p)
  PROVE  TypeInv'
<1> USE DEF TypeInv
<1> PICK b \in Batches, m \in Modes :
      /\ b # <<>>
      /\ job' = [job EXCEPT ![p] = [batch |-> b, mode |-> m]]
      /\ report' = [report EXCEPT ![p] = <<>>]
      /\ spent' = [spent EXCEPT !.records = @ + Len(b)]
  BY DEF Submit
<1>0. b \in Seq(Record) /\ b # <<>>
  BY InputsAssumption
<1>1. /\ b \in Seq(Record) /\ Len(b) \in Nat /\ Len(b) > 0
      /\ <<>> \in Seq(Verdicts) /\ Len(<<>>) = 0
  BY <1>0, EmptySeq
<1>2. job' \in [Proc -> Jobs] /\ job'[p].batch = b
  BY <1>1, Types DEF Jobs
<1>3. report' \in [Proc -> Seq(Verdicts)] /\ report'[p] = <<>>
  BY <1>1, Types, Zenon
<1>4. spent' \in Spending
  BY <1>1, SpendingType
<1>5. /\ pc' = [pc EXCEPT ![p] = "record"]
      /\ answer' = [answer EXCEPT ![p] = "none"]
      /\ edit' = [edit EXCEPT ![p] = NoEdit]
      /\ UNCHANGED <<coll, used, aired, doomed, fresh, checked, seen, edited, cleared, contested>>
  BY DEF Submit, Goto, Answer, store, history
<1>6. pc' \in [Proc -> Labels] /\ answer' \in [Proc -> Answers] /\ edit' \in [Proc -> Edits]
  BY <1>5, Types DEF Labels, Answers, Edits
<1>7. TypeOK'
  BY <1>2, <1>3, <1>4, <1>5, <1>6 DEF TypeOK
<1>8. ASSUME NEW q \in Proc PROVE HandlerAt(q)'
  <2>1. CASE q = p
    BY <1>1, <1>2, <1>3, <1>5, <2>1, Types DEF HandlerAt
  <2>2. CASE q # p
    <3>1. /\ pc'[q] = pc[q] /\ job'[q] = job[q] /\ report'[q] = report[q]
          /\ edit'[q] = edit[q] /\ fresh'[q] = fresh[q] /\ used' = used
      BY <1>5, <2>2, Types
    <3> QED
      BY <3>1, HandlerKept
  <2> QED
    BY <2>1, <2>2
<1> QED
  BY <1>7, <1>8 DEF HandlerOK

\* A step that settles a record keeps the handlers well-formed.
LEMMA SettleHandler ==
  ASSUME TypeInv, NEW p \in Proc, NEW v \in Verdicts,
         pc[p] \in {"record", "insert", "existing", "broadcast"},
         Settle(p, v), UNCHANGED <<job, edit>>, used \subseteq used',
         \A q \in Proc \ {p} : fresh'[q] = fresh[q]
  PROVE  /\ report' \in [Proc -> Seq(Verdicts)]
         /\ pc' \in [Proc -> Labels]
         /\ HandlerOK'
<1> USE DEF TypeInv
<1>1. Len(report[p]) < Len(job[p].batch)
  BY DEF HandlerOK, HandlerAt
<1>2. /\ report' \in [Proc -> Seq(Verdicts)]
      /\ pc' \in [Proc -> Labels]
      /\ pc'[p] \in {"idle", "record"}
      /\ pc'[p] = "record" => Len(report'[p]) < Len(job[p].batch)
      /\ \A q \in Proc \ {p} : pc'[q] = pc[q] /\ report'[q] = report[q]
  BY <1>1, SettleType
<1>3. ASSUME NEW q \in Proc PROVE HandlerAt(q)'
  <2>1. CASE q = p
    BY <1>2, <2>1 DEF HandlerAt
  <2>2. CASE q # p
    BY <1>2, <2>2, HandlerKept
  <2> QED
    BY <2>1, <2>2
<1> QED
  BY <1>2, <1>3 DEF HandlerOK

\* So does a step of p that ends its request, or moves it between two points
\* of an edit, and touches nothing a waiting point relies on.
LEMMA MoveHandler ==
  ASSUME TypeInv, NEW p \in Proc,
         NEW label \in {"idle", "clear", "write", "refetch", "reread"},
         Goto(p, label), used' = used,
         label \in {"write", "refetch", "reread"} => edit'[p] # NoEdit,
         \A q \in Proc \ {p} : /\ job'[q] = job[q] /\ report'[q] = report[q]
                               /\ edit'[q] = edit[q] /\ fresh'[q] = fresh[q]
  PROVE  pc' \in [Proc -> Labels] /\ HandlerOK'
<1> USE DEF TypeInv
<1>1. pc' = [pc EXCEPT ![p] = label] /\ pc' \in [Proc -> Labels]
  BY Types DEF Goto, Labels
<1>2. ASSUME NEW q \in Proc PROVE HandlerAt(q)'
  <2>1. CASE q = p
    BY <1>1, <2>1, Types DEF HandlerAt
  <2>2. CASE q # p
    <3>1. pc'[q] = pc[q]
      BY <1>1, <2>2, Types
    <3> QED
      BY <2>2, <3>1, HandlerKept
  <2> QED
    BY <2>1, <2>2
<1> QED
  BY <1>1, <1>2 DEF HandlerOK

LEMMA TypeReject ==
  ASSUME TypeInv, NEW p \in Proc, RejectRecord(p)
  PROVE  TypeInv'
<1> DEFINE v == [verdict |-> "error", id |-> Absent]
<1>1. v \in Verdicts
  BY DEF Verdicts
<1>2. /\ pc[p] = "record" /\ Settle(p, v)
      /\ UNCHANGED <<coll, used, aired, job, edit, doomed, fresh, answer, spent,
                     checked, seen, edited, cleared, contested>>
  BY DEF RejectRecord, store, history
<1> HIDE DEF v
<1>3. report' \in [Proc -> Seq(Verdicts)] /\ pc' \in [Proc -> Labels] /\ HandlerOK'
  BY <1>1, <1>2, SettleHandler
<1>4. TypeOK'
  BY <1>2, <1>3 DEF TypeInv, TypeOK
<1> QED
  BY <1>3, <1>4 DEF TypeInv

LEMMA TypeFindDuplicate ==
  ASSUME TypeInv, NEW p \in Proc, find_duplicate(p)
  PROVE  TypeInv'
<1> USE DEF TypeInv
<1> DEFINE dups == Matches(build_qso_dict(Current(p)))
<1>1. /\ pc[p] = "record" /\ Valid(Current(p))
      /\ UNCHANGED <<coll, used, aired, job, edit, doomed, fresh, answer, spent,
                     seen, edited, cleared, contested>>
  BY DEF find_duplicate, store
<1>2. Active \subseteq QsoId /\ dups \subseteq QsoId
  BY IdTypes DEF Matches
<1>3. CASE Goto(p, "insert") /\ checked' = [checked EXCEPT ![p] = Active] /\ UNCHANGED report
  <2>1. pc' = [pc EXCEPT ![p] = "insert"] /\ pc' \in [Proc -> Labels]
    BY <1>3, Types DEF Goto, Labels
  <2>2. checked' \in [Proc -> SUBSET QsoId]
    BY <1>2, <1>3 DEF TypeOK
  <2>3. TypeOK'
    BY <1>1, <1>3, <2>1, <2>2 DEF TypeOK
  <2>4. ASSUME NEW q \in Proc PROVE HandlerAt(q)'
    <3>1. CASE q = p
      BY <1>1, <1>3, <2>1, <3>1, Types DEF HandlerOK, HandlerAt, Current
    <3>2. CASE q # p
      <4>1. pc'[q] = pc[q]
        BY <2>1, <3>2, Types
      <4> QED
        BY <1>1, <1>3, <4>1, HandlerKept
    <3> QED
      BY <3>1, <3>2
  <2> QED
    BY <2>3, <2>4 DEF HandlerOK
<1>4. CASE \E i \in dups : /\ Settle(p, [verdict |-> "duplicate", id |-> i])
                           /\ UNCHANGED checked
  <2> PICK i \in dups : Settle(p, [verdict |-> "duplicate", id |-> i]) /\ UNCHANGED checked
    BY <1>4
  <2>1. [verdict |-> "duplicate", id |-> i] \in Verdicts
    BY <1>2 DEF Verdicts
  <2>2. report' \in [Proc -> Seq(Verdicts)] /\ pc' \in [Proc -> Labels] /\ HandlerOK'
    BY <1>1, <2>1, SettleHandler
  <2>3. TypeOK'
    BY <1>1, <2>2 DEF TypeOK
  <2> QED
    BY <2>2, <2>3
<1> QED
  BY <1>3, <1>4 DEF find_duplicate

LEMMA TypeInsert ==
  ASSUME TypeInv, NEW p \in Proc, insert_qso_dict(p)
  PROVE  TypeInv'
<1> USE DEF TypeInv
<1> DEFINE doc == qso_from_input_dict(build_qso_dict(Current(p)))
           i == CHOOSE i \in QsoId : i \notin used
<1>1. /\ ReadyToInsert(p)
      /\ checked' = [checked EXCEPT ![p] = {}]
      /\ UNCHANGED <<aired, job, report, edit, doomed, answer, spent, edited, cleared, contested>>
  BY DEF insert_qso_dict
<1>2. /\ Len(report[p]) < Len(job[p].batch) /\ Valid(Current(p))
      /\ Current(p) \in Record
  BY <1>1, CurrentType DEF ReadyToInsert, HandlerOK, HandlerAt
<1>3. doc \in Doc
  BY <1>2, BuildType
<1>4. checked' \in [Proc -> SUBSET QsoId]
  BY <1>1 DEF TypeOK
<1>5. CASE Goto(p, "existing") /\ UNCHANGED <<coll, used, fresh, seen>>
  <2>1. pc' = [pc EXCEPT ![p] = "existing"] /\ pc' \in [Proc -> Labels]
    BY <1>5, Types DEF Goto, Labels
  <2>2. TypeOK'
    BY <1>1, <1>4, <1>5, <2>1 DEF TypeOK
  <2>3. ASSUME NEW q \in Proc PROVE HandlerAt(q)'
    <3>1. CASE q = p
      BY <1>1, <1>2, <1>5, <2>1, <3>1, Types DEF HandlerAt, Current
    <3>2. CASE q # p
      <4>1. pc'[q] = pc[q]
        BY <2>1, <3>2, Types
      <4> QED
        BY <1>1, <1>5, <4>1, HandlerKept
    <3> QED
      BY <3>1, <3>2
  <2> QED
    BY <2>2, <2>3 DEF HandlerOK
<1>6. CASE /\ QsoId \ used # {}
           /\ coll' = [coll EXCEPT ![i] = doc]
           /\ used' = used \cup {i}
           /\ fresh' = [fresh EXCEPT ![p] = i]
           /\ seen' = [seen EXCEPT ![i] = checked[p]]
           /\ Goto(p, "broadcast")
  <2>1. i \in QsoId
    BY <1>6
  <2> HIDE DEF i, doc
  <2>2. pc' = [pc EXCEPT ![p] = "broadcast"] /\ pc' \in [Proc -> Labels]
    BY <1>6, Types DEF Goto, Labels
  <2>3. /\ coll' \in [QsoId -> Doc \cup {Absent}]
        /\ used' \subseteq QsoId
        /\ fresh' \in [Proc -> QsoId \cup {Absent}]
        /\ fresh'[p] \in used'
    BY <1>3, <1>6, <2>1, Types
  <2>4. seen' \in [QsoId -> SUBSET QsoId]
    BY <1>6, <2>1 DEF TypeOK
  <2>5. TypeOK'
    BY <1>1, <1>4, <2>2, <2>3, <2>4 DEF TypeOK
  <2>6. ASSUME NEW q \in Proc PROVE HandlerAt(q)'
    <3>1. CASE q = p
      BY <1>1, <1>2, <2>2, <2>3, <3>1, Types DEF HandlerAt, Current
    <3>2. CASE q # p
      <4>1. pc'[q] = pc[q] /\ fresh'[q] = fresh[q] /\ used \subseteq used'
        BY <1>6, <2>2, <3>2, Types
      <4> QED
        BY <1>1, <4>1, HandlerKept
    <3> QED
      BY <3>1, <3>2
  <2> QED
    BY <2>5, <2>6 DEF HandlerOK
<1> QED
  BY <1>5, <1>6 DEF insert_qso_dict

LEMMA AnswerType ==
  ASSUME TypeOK, NEW p \in Proc, NEW a \in Answers, Answer(p, a)
  PROVE  answer' \in [Proc -> Answers]
BY Types DEF Answer

\* A handler that ends or goes on with an edit, or ends a clear.
LEMMA TypeMove ==
  ASSUME TypeInv, NEW p \in Proc,
         NEW label \in {"idle", "clear", "refetch", "reread"}, Goto(p, label),
         answer' = answer \/ \E a \in Answers : Answer(p, a),
         label \in {"refetch", "reread"} => edit[p] # NoEdit,
         coll' \in [QsoId -> Doc \cup {Absent}], edited' \subseteq QsoId,
         doomed' \in [Proc -> SUBSET QsoId],
         UNCHANGED <<used, aired, job, report, edit, fresh, spent, checked, seen, cleared, contested>>
  PROVE  TypeInv'
<1> USE DEF TypeInv
<1>1. answer' \in [Proc -> Answers]
  BY AnswerType, Types
<1>2. pc' \in [Proc -> Labels] /\ HandlerOK'
  BY MoveHandler
<1>3. TypeOK'
  BY <1>1, <1>2 DEF TypeOK
<1> QED
  BY <1>2, <1>3

LEMMA TypeFindExisting ==
  ASSUME TypeInv, NEW p \in Proc, FindExisting(p)
  PROVE  TypeInv'
<1> USE DEF TypeInv
<1>1. /\ pc[p] = "existing"
      /\ UNCHANGED <<coll, used, aired, job, edit, doomed, fresh, spent,
                     checked, seen, edited, cleared, contested>>
  BY DEF FindExisting, store, history
<1>2. ASSUME NEW i \in QsoId \cup {Absent}, UNCHANGED answer,
             Settle(p, [verdict |-> "duplicate", id |-> i])
      PROVE  TypeInv'
  <2>1. [verdict |-> "duplicate", id |-> i] \in Verdicts
    BY DEF Verdicts
  <2>2. report' \in [Proc -> Seq(Verdicts)] /\ pc' \in [Proc -> Labels] /\ HandlerOK'
    BY <1>1, <1>2, <2>1, SettleHandler
  <2>3. TypeOK'
    BY <1>1, <1>2, <2>2 DEF TypeOK
  <2> QED
    BY <2>2, <2>3
<1>3. ASSUME Goto(p, "idle"), Answer(p, "error"), UNCHANGED report
      PROVE  TypeInv'
  <2>1. /\ coll' \in [QsoId -> Doc \cup {Absent}] /\ edited' \subseteq QsoId
        /\ doomed' \in [Proc -> SUBSET QsoId] /\ "error" \in Answers
    BY <1>1 DEF TypeOK, Answers
  <2> QED
    BY <1>1, <1>3, <2>1, TypeMove
<1> QED
  BY <1>2, <1>3, IdTypes DEF FindExisting

LEMMA TypeBroadcast ==
  ASSUME TypeInv, NEW p \in Proc, broadcast_qso(p)
  PROVE  TypeInv'
<1> USE DEF TypeInv
<1> DEFINE v == [verdict |-> "accepted", id |-> fresh[p]]
<1>1. /\ pc[p] = "broadcast" /\ Settle(p, v)
      /\ aired' = aired \cup {fresh[p]}
      /\ fresh' = [fresh EXCEPT ![p] = Absent]
      /\ UNCHANGED <<coll, used, job, edit, doomed, answer, spent,
                     checked, seen, edited, cleared, contested>>
  BY DEF broadcast_qso, history
<1>2. fresh[p] \in QsoId
  BY <1>1, Types DEF HandlerOK, HandlerAt
<1>3. v \in Verdicts
  BY <1>2 DEF Verdicts
<1> HIDE DEF v
<1>4. /\ fresh' \in [Proc -> QsoId \cup {Absent}]
      /\ \A q \in Proc \ {p} : fresh'[q] = fresh[q]
  BY <1>1, Types
<1>5. report' \in [Proc -> Seq(Verdicts)] /\ pc' \in [Proc -> Labels] /\ HandlerOK'
  BY <1>1, <1>3, <1>4, SettleHandler
<1>6. aired' \subseteq QsoId
  BY <1>1, <1>2 DEF TypeOK
<1>7. TypeOK'
  BY <1>1, <1>4, <1>5, <1>6 DEF TypeOK
<1> QED
  BY <1>5, <1>7

\* Where the edits and the clear begin: the handler's old submission is forgotten.
LEMMA Forgotten ==
  ASSUME TypeInv, NEW p \in Proc,
         job' = [job EXCEPT ![p] = NoJob], report' = [report EXCEPT ![p] = <<>>]
  PROVE  /\ job' \in [Proc -> Jobs] /\ report' \in [Proc -> Seq(Verdicts)]
         /\ \A q \in Proc \ {p} : job'[q] = job[q] /\ report'[q] = report[q]
<1>1. <<>> \in Seq(Record) /\ <<>> \in Seq(Verdicts)
  BY EmptySeq
<1>2. NoJob \in Jobs
  BY <1>1 DEF NoJob, Jobs, Modes
<1>3. job' \in [Proc -> Jobs] /\ \A q \in Proc \ {p} : job'[q] = job[q]
  BY <1>2, Types DEF TypeInv
<1>4. /\ report' \in [Proc -> Seq(Verdicts)]
      /\ \A q \in Proc \ {p} : report'[q] = report[q]
  BY <1>1, Types, Zenon DEF TypeInv
<1> QED
  BY <1>3, <1>4

LEMMA BeginEditType ==
  ASSUME TypeInv, NEW p \in Proc, NEW i, BeginEdit(p, i)
  PROVE  /\ pc[p] = "idle" /\ i \in used /\ i \in QsoId
         /\ job' \in [Proc -> Jobs] /\ report' \in [Proc -> Seq(Verdicts)]
         /\ \A q \in Proc \ {p} : job'[q] = job[q] /\ report'[q] = report[q]
         /\ spent' \in Spending
         /\ UNCHANGED <<coll, used, aired, doomed, fresh, checked, seen, edited, cleared>>
<1>1. /\ pc[p] = "idle" /\ i \in used
      /\ job' = [job EXCEPT ![p] = NoJob] /\ report' = [report EXCEPT ![p] = <<>>]
      /\ spent' = [spent EXCEPT !.edits = @ + 1]
      /\ UNCHANGED <<coll, used, aired, doomed, fresh, checked, seen, edited, cleared>>
  BY DEF BeginEdit, store, history
<1>2. spent' \in Spending
  BY <1>1, SpendingType DEF TypeInv
<1> QED
  BY <1>1, <1>2, Forgotten, Types DEF TypeInv

\* A request that begins an edit: refused at once, or on its way to the write.
LEMMA TypeBeginEdit ==
  ASSUME TypeInv, NEW p \in Proc, NEW i, BeginEdit(p, i),
         NEW e \in Edits, NEW a \in Answers, NEW label \in {"idle", "write"},
         edit' = [edit EXCEPT ![p] = e], Answer(p, a), Goto(p, label),
         label = "write" => e # NoEdit, contested' = contested \/ Contend(p, i)
  PROVE  TypeInv'
<1> USE DEF TypeInv
<1>1. /\ edit' \in [Proc -> Edits] /\ edit'[p] = e
      /\ \A q \in Proc \ {p} : edit'[q] = edit[q]
  BY Types
<1>2. answer' \in [Proc -> Answers]
  BY AnswerType
<1>3. pc' \in [Proc -> Labels] /\ HandlerOK'
  BY <1>1, BeginEditType, MoveHandler
<1>4. contested' \subseteq QsoId
  BY BeginEditType DEF Contend, TypeOK
<1>5. TypeOK'
  BY <1>1, <1>2, <1>3, <1>4, BeginEditType DEF TypeOK
<1> QED
  BY <1>3, <1>5

\* How reading a QSO for a PATCH ends: the update u, as the handler `via` takes
\* it, is refused or waits to be written.
PatchBegun(p, i, u, via) ==
  LET s == PatchSet(coll[i].f, u) IN
  \/ /\ Answer(p, "error") /\ edit' = [edit EXCEPT ![p] = NoEdit]
     /\ UNCHANGED <<pc, contested>>
  \/ /\ edit' = [edit EXCEPT ![p] =
          [kind |-> via, id |-> i, set |-> s, hash |-> row_hash_for_updated_qso(coll[i], s)]]
     /\ Goto(p, "write") /\ Answer(p, "none")
     /\ Contend(p, i)

LEMMA PatchRead ==
  ASSUME NEW p, NEW i, ReadForPatch(p, i)
  PROVE  \E u \in Update, via \in {"rest", "browser"} : PatchBegun(p, i, u, via)
<1>1. PICK body \in Updates, via \in {"rest", "browser"} :
        PatchBegun(p, i, IF via = "rest" THEN body ELSE FromForm(body), via)
  BY DEF ReadForPatch, PatchBegun
<1>2. (IF via = "rest" THEN body ELSE FromForm(body)) \in Update
  BY FormType
<1> QED
  BY <1>1, <1>2

LEMMA TypeEdit ==
  ASSUME TypeInv, NEW p \in Proc, Edit(p)
  PROVE  TypeInv'
<1> USE DEF TypeInv
<1> PICK i \in used : EditNotFound(p, i) \/ ReadForPatch(p, i) \/ ReadForDelete(p, i)
  BY DEF Edit
<1>1. BeginEdit(p, i)
  BY DEF EditNotFound, ReadForPatch, ReadForDelete
<1>2. pc[p] = "idle" /\ i \in QsoId /\ NoEdit \in Edits
  BY <1>1, BeginEditType DEF Edits
<1>3. pc' = pc => Goto(p, "idle")
  BY <1>2, Types DEF Goto
<1>4. {"none", "notFound", "error"} \subseteq Answers
  BY DEF Answers
<1>5. CASE EditNotFound(p, i)
  BY <1>1, <1>2, <1>3, <1>4, <1>5, TypeBeginEdit DEF EditNotFound
<1>6. CASE ReadForPatch(p, i)
  <2>1. PICK u \in Update, via \in {"rest", "browser"} : PatchBegun(p, i, u, via)
    BY <1>6, PatchRead
  <2>2. CASE /\ Answer(p, "error") /\ edit' = [edit EXCEPT ![p] = NoEdit]
             /\ UNCHANGED <<pc, contested>>
    BY <1>1, <1>2, <1>3, <1>4, <2>2, TypeBeginEdit
  <2> DEFINE s == PatchSet(coll[i].f, u)
             e == [kind |-> via, id |-> i, set |-> s,
                   hash |-> row_hash_for_updated_qso(coll[i], s)]
  <2>3. CASE /\ edit' = [edit EXCEPT ![p] = e] /\ Goto(p, "write") /\ Answer(p, "none")
             /\ Contend(p, i)
    <3>1. coll[i] \in Doc /\ coll[i].f \in Fields /\ u \in Update
      BY <1>6, IdTypes DEF ReadForPatch, Doc
    <3>2. s \in SetDoc
      BY <3>1, SetDocType
    <3>3. row_hash_for_updated_qso(coll[i], s) \in RowHash
      BY <3>1, <3>2, WrittenType
    <3>4. e \in Edits /\ e # NoEdit
      BY <1>2, <3>2, <3>3 DEF Edits, NoEdit
    <3> QED
      BY <1>1, <1>4, <2>3, <3>4, TypeBeginEdit
  <2> QED
    BY <2>1, <2>2, <2>3 DEF PatchBegun
<1>7. CASE ReadForDelete(p, i)
  <2> DEFINE e == [kind |-> "delete", id |-> i, set |-> DeleteSet,
                   hash |-> row_hash_for_updated_qso(coll[i], DeleteSet)]
  <2>1. /\ edit' = [edit EXCEPT ![p] = e] /\ Goto(p, "write") /\ Answer(p, "none")
        /\ Contend(p, i)
    BY <1>7 DEF ReadForDelete
  <2>2. coll[i] \in Doc
    BY <1>7, IdTypes DEF ReadForDelete
  <2>3. DeleteSet \in SetDoc
    BY DEF DeleteSet, SetDoc
  <2>4. row_hash_for_updated_qso(coll[i], DeleteSet) \in RowHash
    BY <2>2, <2>3, WrittenType
  <2>5. e \in Edits /\ e # NoEdit
    BY <1>2, <2>3, <2>4 DEF Edits, NoEdit
  <2> QED
    BY <1>1, <1>4, <2>1, <2>5, TypeBeginEdit
<1> QED
  BY <1>5, <1>6, <1>7

LEMMA EditAtHand ==
  ASSUME TypeInv, NEW p \in Proc, pc[p] \in {"write", "refetch", "reread"}
  PROVE  /\ edit[p] # NoEdit /\ edit[p] \in Edits
         /\ edit[p].kind \in {"rest", "browser", "delete"}
         /\ edit[p].id \in QsoId
         /\ edit[p].set \in SetDoc
         /\ edit[p].hash \in RowHash
BY Types DEF TypeInv, HandlerOK, HandlerAt, Edits

LEMMA WrittenDoc ==
  ASSUME TypeInv, NEW p \in Proc, pc[p] = "write", coll[edit[p].id] # Absent
  PROVE  Written(p) \in Doc
<1> DEFINE e == edit[p]
           d == coll[e.id]
<1>1. e.set \in SetDoc /\ e.hash \in RowHash /\ e.id \in QsoId
  BY EditAtHand
<1>2. d \in Doc
  BY <1>1, Types DEF TypeInv
<1>3. Merge(d.f, e.set) \in Fields
  BY <1>1, <1>2, MergeType DEF Doc
<1>4. Pick(e.set.deleted, d.deleted) \in BOOLEAN
  BY <1>1, <1>2, WrittenType
<1> QED
  BY <1>1, <1>3, <1>4 DEF Written, Doc

LEMMA TypeUpdate ==
  ASSUME TypeInv, NEW p \in Proc, update_one(p)
  PROVE  TypeInv'
<1> USE DEF TypeInv
<1> DEFINE i == edit[p].id
<1>1. /\ pc[p] = "write"
      /\ UNCHANGED <<used, aired, job, report, edit, doomed, fresh, spent,
                     checked, seen, cleared, contested>>
  BY DEF update_one
<1>2. i \in QsoId /\ edit[p] # NoEdit
  BY <1>1, EditAtHand
<1>3. {"ok", "error", "conflict"} \subseteq Answers /\ Refusal(p) \in Answers
  BY DEF Answers, Refusal
<1>4. doomed' \in [Proc -> SUBSET QsoId] /\ edited \subseteq QsoId
      /\ coll \in [QsoId -> Doc \cup {Absent}]
  BY <1>1 DEF TypeOK
<1>5. CASE coll' = coll /\ edited' = edited /\ AfterWrite(p)
  BY <1>1, <1>2, <1>3, <1>4, <1>5, TypeMove DEF AfterWrite
<1>6. CASE /\ coll' = coll /\ edited' = edited /\ Goto(p, "idle")
           /\ Answer(p, Refusal(p))
  BY <1>1, <1>3, <1>4, <1>6, TypeMove
<1>7. CASE /\ coll[i] # Absent
           /\ coll' = [coll EXCEPT ![i] = Written(p)]
           /\ edited' = IF edit[p].kind = "delete" THEN edited ELSE edited \cup {i}
           /\ AfterWrite(p)
  <2>1. Written(p) \in Doc
    BY <1>1, <1>7, WrittenDoc
  <2> HIDE DEF i
  <2>2. coll' \in [QsoId -> Doc \cup {Absent}]
    BY <1>2, <1>4, <1>7, <2>1
  <2>3. edited' \subseteq QsoId
    BY <1>2, <1>4, <1>7
  <2> QED
    BY <1>1, <1>2, <1>3, <1>4, <1>7, <2>2, <2>3, TypeMove DEF AfterWrite
<1> QED
  BY <1>5, <1>6, <1>7 DEF update_one

LEMMA TypeReadBack ==
  ASSUME TypeInv, NEW p \in Proc, Refetch(p) \/ Reread(p)
  PROVE  TypeInv'
<1> USE DEF TypeInv
<1>1. /\ pc[p] \in {"refetch", "reread"}
      /\ UNCHANGED <<coll, used, aired, job, report, edit, doomed, fresh, spent,
                     checked, seen, edited, cleared, contested>>
  BY DEF Refetch, Reread, store, history
<1>2. \/ Goto(p, "reread") /\ UNCHANGED answer
      \/ Goto(p, "idle") /\ \E a \in Answers : Answer(p, a)
  BY DEF Refetch, Reread, Answers
<1>3. edit[p] # NoEdit
  BY <1>1, EditAtHand
<1>4. /\ coll' \in [QsoId -> Doc \cup {Absent}] /\ edited' \subseteq QsoId
      /\ doomed' \in [Proc -> SUBSET QsoId]
  BY <1>1 DEF TypeOK
<1> QED
  BY <1>1, <1>2, <1>3, <1>4, TypeMove

LEMMA TypeBeginClear ==
  ASSUME TypeInv, NEW p \in Proc, BeginClear(p)
  PROVE  TypeInv'
<1> USE DEF TypeInv
<1>1. /\ doomed' = [doomed EXCEPT ![p] = Active]
      /\ spent' = [spent EXCEPT !.clears = @ + 1]
      /\ job' = [job EXCEPT ![p] = NoJob] /\ report' = [report EXCEPT ![p] = <<>>]
      /\ edit' = [edit EXCEPT ![p] = NoEdit]
      /\ Goto(p, "clear") /\ Answer(p, "none")
      /\ UNCHANGED <<coll, used, aired, fresh, checked, seen, edited, cleared, contested>>
  BY DEF BeginClear, store, history
<1>2. spent' \in Spending
  BY <1>1, SpendingType
<1>3. answer' \in [Proc -> Answers]
  BY <1>1, AnswerType DEF Answers
<1>4. /\ edit' \in [Proc -> Edits]
      /\ \A q \in Proc \ {p} : edit'[q] = edit[q]
  BY <1>1, Types DEF Edits
<1>5. pc' \in [Proc -> Labels] /\ HandlerOK'
  BY <1>1, <1>4, Forgotten, MoveHandler
<1>6. doomed' \in [Proc -> SUBSET QsoId]
  BY <1>1, IdTypes DEF TypeOK
<1>7. TypeOK'
  BY <1>1, <1>2, <1>3, <1>4, <1>5, <1>6, Forgotten DEF TypeOK
<1> QED
  BY <1>5, <1>7

LEMMA TypeClearOne ==
  ASSUME TypeInv, NEW p \in Proc, ClearOne(p)
  PROVE  TypeInv'
<1> USE DEF TypeInv
<1> PICK i \in Active :
      /\ coll' = [coll EXCEPT ![i] = Absent]
      /\ cleared' = cleared \cup {i}
      /\ doomed' = [doomed EXCEPT ![p] = @ \ {i}]
  BY DEF ClearOne
<1>1. UNCHANGED <<used, aired, pc, job, report, edit, fresh, answer, spent,
                  checked, seen, edited, contested>>
  BY DEF ClearOne
<1>2. i \in QsoId
  BY IdTypes
<1>3. coll' \in [QsoId -> Doc \cup {Absent}]
  BY <1>2, Types
<1>4. doomed' \in [Proc -> SUBSET QsoId] /\ cleared' \subseteq QsoId
  BY <1>2 DEF TypeOK
<1>5. TypeOK'
  BY <1>1, <1>3, <1>4 DEF TypeOK
<1>6. HandlerOK'
  BY <1>1, HandlerKept DEF HandlerOK
<1> QED
  BY <1>5, <1>6

LEMMA TypeEndClear ==
  ASSUME TypeInv, NEW p \in Proc, EndClear(p)
  PROVE  TypeInv'
<1> USE DEF TypeInv
<1>1. /\ doomed' = [doomed EXCEPT ![p] = {}]
      /\ Goto(p, "idle") /\ Answer(p, "ok")
      /\ UNCHANGED <<coll, used, aired, job, report, edit, fresh, spent,
                     checked, seen, edited, cleared, contested>>
  BY DEF EndClear, store, history
<1>2. /\ coll' \in [QsoId -> Doc \cup {Absent}] /\ edited' \subseteq QsoId
      /\ doomed' \in [Proc -> SUBSET QsoId]
  BY <1>1 DEF TypeOK
<1> QED
  BY <1>1, <1>2, TypeMove DEF Answers

LEMMA TypeFault ==
  ASSUME TypeInv, NEW p \in Proc, Fault(p)
  PROVE  TypeInv'
<1> USE DEF TypeInv
<1> DEFINE v == [verdict |-> "error", id |-> Absent]
<1>1. /\ spent' = [spent EXCEPT !.faults = @ + 1]
      /\ doomed' = [doomed EXCEPT ![p] = {}]
      /\ fresh' = [fresh EXCEPT ![p] = Absent]
      /\ checked' = [checked EXCEPT ![p] = {}]
      /\ UNCHANGED <<coll, used, aired, job, edit, seen, edited, cleared, contested>>
  BY DEF Fault, store
<1>2. /\ fresh' \in [Proc -> QsoId \cup {Absent}]
      /\ \A q \in Proc \ {p} : fresh'[q] = fresh[q]
  BY <1>1, Types
<1>3. spent' \in Spending
  BY <1>1, SpendingType
<1>4. doomed' \in [Proc -> SUBSET QsoId] /\ checked' \in [Proc -> SUBSET QsoId]
  BY <1>1 DEF TypeOK
<1>5. v \in Verdicts
  BY DEF Verdicts
<1> HIDE DEF v
<1>6. /\ report' \in [Proc -> Seq(Verdicts)] /\ pc' \in [Proc -> Labels] /\ HandlerOK'
      /\ answer' \in [Proc -> Answers]
  <2>1. CASE /\ pc[p] \in {"record", "existing", "broadcast"}
             /\ Settle(p, v) /\ UNCHANGED answer
    BY <1>1, <1>2, <1>5, <2>1, SettleHandler, Types
  <2>2. CASE Goto(p, "idle") /\ Answer(p, "error") /\ UNCHANGED report
    <3>1. answer' \in [Proc -> Answers]
      BY <2>2, AnswerType DEF Answers
    <3> QED
      BY <1>1, <1>2, <2>2, <3>1, MoveHandler, Types
  <2> QED
    BY <2>1, <2>2 DEF Fault, v
<1>7. TypeOK'
  BY <1>1, <1>2, <1>3, <1>4, <1>6 DEF TypeOK
<1> QED
  BY <1>6, <1>7

LEMMA TypeStep ==
  ASSUME TypeInv, [Next]_vars
  PROVE  TypeInv'
<1>1. CASE Next
  <2> PICK p \in Proc : Submit(p) \/ Edit(p) \/ BeginClear(p) \/ Fault(p) \/ Handle(p)
    BY <1>1 DEF Next
  <2>1. CASE Submit(p) \/ Edit(p) \/ BeginClear(p) \/ Fault(p)
    BY <2>1, TypeSubmit, TypeEdit, TypeBeginClear, TypeFault
  <2>2. CASE Handle(p)
    BY <2>2, TypeReject, TypeFindDuplicate, TypeInsert, TypeFindExisting,
       TypeBroadcast, TypeUpdate, TypeReadBack, TypeClearOne, TypeEndClear DEF Handle
  <2> QED
    BY <2>1, <2>2
<1>2. CASE UNCHANGED vars
  BY <1>2 DEF vars, TypeInv, TypeOK, HandlerOK, HandlerAt, Current
<1> QED
  BY <1>1, <1>2

\* Every state the handlers of one operator's log can reach is well typed, and
\* every handler has at hand what its waiting point in the code relies on.
THEOREM TypeCorrect == Spec => [](TypeOK /\ HandlerOK)
<1>1. Init => TypeInv
  BY TypeInit
<1>2. TypeInv /\ [Next]_vars => TypeInv'
  BY TypeStep
<1> QED
  BY <1>1, <1>2, PTL DEF Spec, TypeInv

-----------------------------------------------------------------------------
(***************************************************************************)
(* The store.  HashFresh is not inductive: a PATCH or DELETE writes a hash *)
(* it computed from a snapshot.  StoreInv says what makes that sound: the  *)
(* snapshot of every edit about to be written still is the document, or the*)
(* document is gone, or a second edit of it was in flight with the first.  *)
(* Nothing but an edit changes a document in place.                        *)
(***************************************************************************)
Spelled(f) ==
  f.date \in Date /\ f.time \in Time /\ f.utc \notin ClientUtc
    => f.utc = Instant(f.date, f.time)

\* What the edit of p would leave in place of document d.
Outcome(p, d) == Merge(d.f, edit[p].set)

OneEditor ==
  \A p, q \in Proc : Editing(p) /\ Editing(q) /\ edit[p].id = edit[q].id
                      => p = q \/ edit[p].id \in contested

EditShape(p) ==
  Editing(p) => edit[p].set = DeleteSet \/ edit[p].set.deleted = Keep

SnapshotHolds(p) ==
  LET d == coll[edit[p].id] IN
  Editing(p) /\ edit[p].id \notin contested /\ d # Absent =>
    /\ ~d.deleted
    /\ edit[p].hash = row_hash_for_updated_qso(d, edit[p].set)
    /\ Spelled(Outcome(p, d))

HashUnique == \A i, j \in Stored : i # j => coll[i].hash # coll[j].hash

EditsSound ==
  /\ \A p \in Proc : Editing(p) => edit[p].id \in used
  /\ \A p \in Proc : EditShape(p)
  /\ OneEditor

StoreInv ==
  /\ Stored \subseteq used
  /\ EditsSound
  /\ \A p \in Proc : SnapshotHolds(p)
  /\ HashFresh
  /\ InstantFresh
  /\ Indexed => HashUnique

\* What a step can do to the documents and to the edits about to be written.
EditKept(q) == pc'[q] = "write" => Editing(q) /\ edit'[q] = edit[q]

Kept == UNCHANGED <<coll, used, contested>>

Inserts ==
  \E i \in QsoId \ used, r \in Record :
    LET doc == qso_from_input_dict(build_qso_dict(r)) IN
    /\ Valid(r)
    /\ ~HashTaken(doc.hash, Absent)
    /\ coll' = [coll EXCEPT ![i] = doc]
    /\ used' = used \cup {i}
    /\ contested' = contested

Writes(p) ==
  /\ Editing(p)
  /\ pc'[p] # "write"
  /\ coll[edit[p].id] # Absent
  /\ ~HashTaken(edit[p].hash, edit[p].id)
  /\ coll' = [coll EXCEPT ![edit[p].id] = Written(p)]
  /\ UNCHANGED <<used, contested>>

Purges ==
  \E i \in Active : coll' = [coll EXCEPT ![i] = Absent] /\ UNCHANGED <<used, contested>>

StartsEdit(p) ==
  /\ coll' = coll /\ used' = used
  /\ pc'[p] = "write"
  /\ edit'[p].id \in Active \cap used
  /\ Contend(p, edit'[p].id)
  /\ edit'[p].hash = row_hash_for_updated_qso(coll[edit'[p].id], edit'[p].set)
  /\ \/ edit'[p].set = DeleteSet
     \/ \E u \in Update : edit'[p].set = PatchSet(coll[edit'[p].id].f, u)
  /\ \A q \in Proc \ {p} : EditKept(q)

StoreStep ==
  \/ /\ \A q \in Proc : EditKept(q)
     /\ Kept \/ Inserts \/ Purges \/ \E p \in Proc : Writes(p)
  \/ \E p \in Proc : StartsEdit(p)

\* A handler that moves anywhere but to "write" keeps the edits.
LEMMA MoveKeeps ==
  ASSUME TypeInv, NEW p \in Proc, NEW label, label # "write", Goto(p, label),
         \A q \in Proc \ {p} : edit'[q] = edit[q]
  PROVE  pc'[p] = label /\ \A q \in Proc : EditKept(q)
<1>1. pc'[p] = label /\ \A q \in Proc \ {p} : pc'[q] = pc[q]
  BY Types DEF TypeInv, Goto
<1> QED
  BY <1>1 DEF EditKept, Editing

LEMMA SettleKeeps ==
  ASSUME TypeInv, NEW p \in Proc, NEW v, Settle(p, v), edit' = edit
  PROVE  \A q \in Proc : EditKept(q)
BY MoveKeeps DEF Settle

LEMMA ShapeSubmission ==
  ASSUME TypeInv, NEW p \in Proc,
         Submit(p) \/ RejectRecord(p) \/ find_duplicate(p) \/ FindExisting(p) \/ broadcast_qso(p)
  PROVE  Kept /\ \A q \in Proc : EditKept(q)
<1>1. CASE Submit(p)
  <2>1. /\ Goto(p, "record") /\ edit' = [edit EXCEPT ![p] = NoEdit]
        /\ UNCHANGED <<coll, used, contested>>
    BY <1>1 DEF Submit, store, history
  <2> QED
    BY <2>1, MoveKeeps, Types DEF Kept, TypeInv
<1>2. CASE RejectRecord(p)
  BY <1>2, SettleKeeps DEF RejectRecord, store, history, Kept
<1>3. CASE find_duplicate(p)
  <2>1. edit' = edit /\ Kept
    BY <1>3 DEF find_duplicate, store, Kept
  <2>2. Goto(p, "insert") \/ \E v : Settle(p, v)
    BY <1>3 DEF find_duplicate
  <2> QED
    BY <2>1, <2>2, MoveKeeps, SettleKeeps
<1>4. CASE FindExisting(p)
  <2>1. edit' = edit /\ Kept
    BY <1>4 DEF FindExisting, store, history, Kept
  <2>2. Goto(p, "idle") \/ \E v : Settle(p, v)
    BY <1>4 DEF FindExisting
  <2> QED
    BY <2>1, <2>2, MoveKeeps, SettleKeeps
<1>5. CASE broadcast_qso(p)
  BY <1>5, SettleKeeps DEF broadcast_qso, history, Kept
<1> QED
  BY <1>1, <1>2, <1>3, <1>4, <1>5

LEMMA ShapeInsert ==
  ASSUME TypeInv, NEW p \in Proc, insert_qso_dict(p)
  PROVE  (Kept \/ Inserts) /\ \A q \in Proc : EditKept(q)
<1> DEFINE r == Current(p)
           i == CHOOSE i \in QsoId : i \notin used
<1>1. edit' = edit /\ ReadyToInsert(p) /\ contested' = contested
  BY DEF insert_qso_dict
<1>2. r \in Record /\ Valid(r)
  BY <1>1, CurrentType DEF ReadyToInsert, TypeInv, HandlerOK, HandlerAt
<1>3. Goto(p, "existing") \/ Goto(p, "broadcast")
  BY DEF insert_qso_dict
<1>4. \A q \in Proc : EditKept(q)
  BY <1>1, <1>3, MoveKeeps
<1>5. CASE UNCHANGED <<coll, used>>
  BY <1>1, <1>4, <1>5 DEF Kept
<1>6. CASE /\ ~HashTaken(qso_from_input_dict(build_qso_dict(r)).hash, Absent)
           /\ QsoId \ used # {}
           /\ coll' = [coll EXCEPT ![i] = qso_from_input_dict(build_qso_dict(r))]
           /\ used' = used \cup {i}
  <2>1. i \in QsoId \ used
    BY <1>6
  <2> HIDE DEF i, r
  <2> QED
    BY <1>1, <1>2, <1>4, <1>6, <2>1 DEF Inserts
<1> QED
  BY <1>5, <1>6 DEF insert_qso_dict

LEMMA ShapeUpdate ==
  ASSUME TypeInv, NEW p \in Proc, update_one(p)
  PROVE  (Kept \/ Writes(p)) /\ \A q \in Proc : EditKept(q)
<1>1. pc[p] = "write" /\ UNCHANGED <<edit, used, contested>>
  BY DEF update_one
<1>2. AfterWrite(p) => Goto(p, "idle") \/ Goto(p, "refetch")
  BY DEF AfterWrite
<1>3. Goto(p, "idle") \/ Goto(p, "refetch")
  BY <1>2 DEF update_one
<1>4. pc'[p] # "write" /\ \A q \in Proc : EditKept(q)
  BY <1>1, <1>3, MoveKeeps
<1> QED
  BY <1>1, <1>4 DEF update_one, Kept, Writes, Editing

LEMMA ShapeRest ==
  ASSUME TypeInv, NEW p \in Proc,
         Refetch(p) \/ Reread(p) \/ BeginClear(p) \/ ClearOne(p) \/ EndClear(p) \/ Fault(p)
  PROVE  (Kept \/ Purges) /\ \A q \in Proc : EditKept(q)
<1>1. CASE Refetch(p)
  BY <1>1, MoveKeeps DEF Refetch, store, history, Kept
<1>2. CASE Reread(p)
  BY <1>2, MoveKeeps DEF Reread, store, history, Kept
<1>3. CASE BeginClear(p)
  <2>1. Goto(p, "clear") /\ edit' = [edit EXCEPT ![p] = NoEdit] /\ Kept
    BY <1>3 DEF BeginClear, store, history, Kept
  <2> QED
    BY <2>1, MoveKeeps, Types DEF TypeInv
<1>4. CASE ClearOne(p)
  BY <1>4 DEF ClearOne, Purges, EditKept, Editing
<1>5. CASE EndClear(p)
  BY <1>5, MoveKeeps DEF EndClear, store, history, Kept
<1>6. CASE Fault(p)
  <2>1. edit' = edit /\ Kept
    BY <1>6 DEF Fault, store, Kept
  <2>2. Goto(p, "idle") \/ \E v : Settle(p, v)
    BY <1>6 DEF Fault
  <2> QED
    BY <2>1, <2>2, MoveKeeps, SettleKeeps
<1> QED
  BY <1>1, <1>2, <1>3, <1>4, <1>5, <1>6

LEMMA ShapeEdit ==
  ASSUME TypeInv, NEW p \in Proc, Edit(p)
  PROVE  \/ Kept /\ \A q \in Proc : EditKept(q)
         \/ StartsEdit(p)
<1> PICK i \in used : EditNotFound(p, i) \/ ReadForPatch(p, i) \/ ReadForDelete(p, i)
  BY DEF Edit
<1>1. /\ BeginEdit(p, i) /\ pc[p] = "idle" /\ coll' = coll /\ used' = used
      /\ pc \in [Proc -> Labels] /\ edit \in [Proc -> Edits]
  BY Types DEF EditNotFound, ReadForPatch, ReadForDelete, BeginEdit, store, TypeInv
<1>2. ASSUME UNCHANGED <<pc, contested>>, edit' = [edit EXCEPT ![p] = NoEdit]
      PROVE  Kept /\ \A q \in Proc : EditKept(q)
  BY <1>1, <1>2 DEF Kept, EditKept, Editing
<1>3. ASSUME NEW e, edit' = [edit EXCEPT ![p] = e], e.id = i, i \in Active,
             e.hash = row_hash_for_updated_qso(coll[i], e.set),
             e.set = DeleteSet \/ \E u \in Update : e.set = PatchSet(coll[i].f, u),
             Goto(p, "write"), Contend(p, i)
      PROVE  StartsEdit(p)
  <2>1. edit'[p] = e /\ \A q \in Proc \ {p} : edit'[q] = edit[q]
    BY <1>1, <1>3
  <2>2. pc'[p] = "write" /\ \A q \in Proc \ {p} : pc'[q] = pc[q]
    BY <1>1, <1>3 DEF Goto
  <2>3. \A q \in Proc \ {p} : EditKept(q)
    BY <2>1, <2>2 DEF EditKept, Editing
  <2> QED
    BY <1>1, <1>3, <2>1, <2>2, <2>3 DEF StartsEdit
<1>4. CASE EditNotFound(p, i)
  BY <1>1, <1>2, <1>4 DEF EditNotFound
<1>5. CASE ReadForDelete(p, i)
  <2> DEFINE e == [kind |-> "delete", id |-> i, set |-> DeleteSet,
                   hash |-> row_hash_for_updated_qso(coll[i], DeleteSet)]
  <2>1. edit' = [edit EXCEPT ![p] = e] /\ Goto(p, "write") /\ i \in Active /\ Contend(p, i)
    BY <1>5 DEF ReadForDelete
  <2>2. /\ e.id = i /\ e.set = DeleteSet
        /\ e.hash = row_hash_for_updated_qso(coll[i], e.set)
    OBVIOUS
  <2> HIDE DEF e
  <2> QED
    BY <1>3, <2>1, <2>2
<1>6. CASE ReadForPatch(p, i)
  <2>1. PICK u \in Update, via \in {"rest", "browser"} : PatchBegun(p, i, u, via)
    BY <1>6, PatchRead
  <2>2. i \in Active
    BY <1>6 DEF ReadForPatch
  <2>3. CASE UNCHANGED <<pc, contested>> /\ edit' = [edit EXCEPT ![p] = NoEdit]
    BY <1>1, <1>2, <2>3
  <2> DEFINE e == [kind |-> via, id |-> i, set |-> PatchSet(coll[i].f, u),
                   hash |-> row_hash_for_updated_qso(coll[i], PatchSet(coll[i].f, u))]
  <2>4. CASE edit' = [edit EXCEPT ![p] = e] /\ Goto(p, "write") /\ Contend(p, i)
    <3>1. /\ e.id = i /\ e.set = PatchSet(coll[i].f, u)
          /\ e.hash = row_hash_for_updated_qso(coll[i], e.set)
      OBVIOUS
    <3> HIDE DEF e
    <3> QED
      BY <1>3, <2>2, <2>4, <3>1
  <2> QED
    BY <2>1, <2>3, <2>4 DEF PatchBegun
<1> QED
  BY <1>4, <1>5, <1>6

LEMMA StepShape ==
  ASSUME TypeInv, [Next]_vars
  PROVE  StoreStep
<1>1. CASE Next
  <2> PICK p \in Proc : Submit(p) \/ Edit(p) \/ BeginClear(p) \/ Fault(p) \/ Handle(p)
    BY <1>1 DEF Next
  <2>1. CASE Edit(p)
    BY <2>1, ShapeEdit DEF StoreStep
  <2>2. CASE Submit(p) \/ BeginClear(p) \/ Fault(p) \/ Handle(p)
    BY <2>2, ShapeSubmission, ShapeInsert, ShapeUpdate, ShapeRest DEF Handle, StoreStep
  <2> QED
    BY <2>1, <2>2
<1>2. CASE UNCHANGED vars
  BY <1>2 DEF vars, StoreStep, Kept, EditKept, Editing
<1> QED
  BY <1>1, <1>2

\* What the two kinds of $set document leave, on the snapshot they came from.
LEMMA DeleteOutcome ==
  ASSUME NEW f \in Fields
  PROVE  Merge(f, DeleteSet) = f
BY DEF Merge, DeleteSet, Pick, Fields

LEMMA PatchSpelled ==
  ASSUME NEW f \in Fields, NEW u \in Update, Spelled(f)
  PROVE  Spelled(Merge(f, PatchSet(f, u)))
<1> DEFINE d == Sent(u.date, f.date)
           t == Sent(u.time, f.time)
           g == Merge(f, PatchSet(f, u))
<1> SUFFICES ASSUME g.date \in Date, g.time \in Time, g.utc \notin ClientUtc
             PROVE  g.utc = Instant(g.date, g.time)
  BY DEF Spelled
<1>1. /\ g.date = Pick(u.date, f.date) /\ g.time = Pick(u.time, f.time)
      /\ g.utc = Pick(NewUtc(f, u), f.utc)
  BY DEF Merge, PatchSet
<1>2. Date \cap {Garbled, Empty, Keep} = {} /\ Time \cap {Garbled, Empty, Keep} = {}
  BY ConstantsAssumption
<1>3. g.date = d /\ g.time = t
  BY <1>1, <1>2 DEF Pick, Sent
<1>4. CASE u.date = Keep /\ u.time = Keep
  <2>1. NewUtc(f, u) = u.utc /\ g.date = f.date /\ g.time = f.time
    BY <1>1, <1>4 DEF NewUtc, Recalculates, Pick
  <2>2. u.utc = Keep
    BY <1>1, <2>1 DEF Pick, Update
  <2> QED
    BY <1>1, <2>1, <2>2 DEF Spelled, Pick
<1>5. CASE ~(u.date = Keep /\ u.time = Keep)
  <2>1. Recalculates(f, u) /\ ~Unparseable(f, u)
    BY <1>2, <1>3, <1>5 DEF Recalculates, Unparseable
  <2>2. NewUtc(f, u) = Instant(d, t)
    BY <2>1 DEF NewUtc
  <2>3. Instant(d, t) \in Nat /\ Keep \notin Nat
    BY <1>3, InstantType, ConstantsAssumption
  <2> QED
    BY <1>1, <1>3, <2>2, <2>3 DEF Pick
<1> QED
  BY <1>4, <1>5

\* A document written fresh carries its own hash and spells its own instant.
LEMMA InsertedDoc ==
  ASSUME NEW r \in Record, Valid(r)
  PROVE  LET doc == qso_from_input_dict(build_qso_dict(r)) IN
         /\ doc \in Doc /\ doc # Absent
         /\ doc.hash = canonical_document_hash(doc.f, doc.deleted)
         /\ Spelled(doc.f)
         /\ ~doc.deleted
<1>1. qso_from_input_dict(build_qso_dict(r)) \in Doc
  BY BuildType
<1> QED
  BY <1>1, InputsAssumption DEF qso_from_input_dict, build_qso_dict, Spelled

\* The edits in flight stay sound at a step that begins none.
LEMMA EditsStaySound ==
  ASSUME EditsSound, used \subseteq used', contested' = contested, \A q \in Proc : EditKept(q)
  PROVE  EditsSound'
BY DEF EditsSound, EditKept, Editing, OneEditor, EditShape

LEMMA StoreKept ==
  ASSUME StoreInv, Kept, \A q \in Proc : EditKept(q)
  PROVE  StoreInv'
<1>1. Stored' = Stored /\ Uncontested' = Uncontested
  BY DEF Kept, Stored, Uncontested
<1>2. Stored' \subseteq used' /\ EditsSound'
  BY <1>1, EditsStaySound DEF StoreInv, Kept
<1>3. \A q \in Proc : SnapshotHolds(q)'
  BY DEF StoreInv, Kept, EditKept, Editing, SnapshotHolds, Outcome
<1>4. HashFresh' /\ InstantFresh' /\ (Indexed => HashUnique)'
  BY <1>1 DEF StoreInv, Kept, HashFresh, InstantFresh, HashUnique
<1> QED
  BY <1>2, <1>3, <1>4 DEF StoreInv

LEMMA StoreInserts ==
  ASSUME TypeInv, StoreInv, Inserts, \A q \in Proc : EditKept(q)
  PROVE  StoreInv'
<1> PICK i \in QsoId \ used, r \in Record :
      LET doc == qso_from_input_dict(build_qso_dict(r)) IN
      /\ Valid(r)
      /\ ~HashTaken(doc.hash, Absent)
      /\ coll' = [coll EXCEPT ![i] = doc]
      /\ used' = used \cup {i}
      /\ contested' = contested
  BY DEF Inserts
<1> DEFINE doc == qso_from_input_dict(build_qso_dict(r))
<1>1. /\ doc # Absent
      /\ doc.hash = canonical_document_hash(doc.f, doc.deleted)
      /\ Spelled(doc.f)
  BY InsertedDoc
<1>2. ~HashTaken(doc.hash, Absent)
  OBVIOUS
<1> HIDE DEF doc
<1>3. /\ coll'[i] = doc /\ \A j \in QsoId \ {i} : coll'[j] = coll[j]
      /\ i \notin Stored /\ Stored' = Stored \cup {i}
  BY <1>1, Types DEF TypeInv, doc, Stored, StoreInv
<1>4. Stored' \subseteq used' /\ EditsSound'
  BY <1>3, EditsStaySound DEF StoreInv
<1>5. ASSUME NEW q \in Proc PROVE SnapshotHolds(q)'
  <2>1. CASE Editing(q)'
    <3>1. Editing(q) /\ edit'[q] = edit[q] /\ edit[q].id # i /\ edit[q].id \in QsoId
      BY <2>1, EditAtHand DEF EditKept, Editing, StoreInv, EditsSound
    <3>2. coll'[edit[q].id] = coll[edit[q].id] /\ SnapshotHolds(q)
      BY <1>3, <3>1 DEF StoreInv
    <3> QED
      BY <3>1, <3>2 DEF SnapshotHolds, Outcome
  <2>2. CASE ~Editing(q)'
    BY <2>2 DEF SnapshotHolds
  <2> QED
    BY <2>1, <2>2
<1>6. HashFresh' /\ InstantFresh'
  BY <1>1, <1>3, IdTypes DEF StoreInv, HashFresh, InstantFresh, Uncontested, Spelled, TypeInv
<1>7. ASSUME Indexed PROVE HashUnique'
  <2>1. \A j \in Stored \ {Absent} : coll[j].hash # doc.hash
    BY <1>2, <1>7 DEF HashTaken
  <2>2. \A j \in Stored : j # Absent
    BY ConstantsAssumption, IdTypes DEF TypeInv
  <2> QED
    BY <1>3, <1>7, <2>1, <2>2, IdTypes DEF StoreInv, HashUnique, TypeInv
<1> QED
  BY <1>4, <1>5, <1>6, <1>7 DEF StoreInv

LEMMA StorePurges ==
  ASSUME TypeInv, StoreInv, Purges, \A q \in Proc : EditKept(q)
  PROVE  StoreInv'
<1> PICK i \in Active : coll' = [coll EXCEPT ![i] = Absent] /\ UNCHANGED <<used, contested>>
  BY DEF Purges
<1>1. i \in QsoId
  BY IdTypes DEF TypeInv
<1>2. /\ coll'[i] = Absent /\ \A j \in QsoId \ {i} : coll'[j] = coll[j]
      /\ Stored' = Stored \ {i}
  BY <1>1, Types DEF TypeInv, Stored
<1>3. Stored' \subseteq used' /\ EditsSound'
  BY <1>2, EditsStaySound DEF StoreInv
<1>4. ASSUME NEW q \in Proc PROVE SnapshotHolds(q)'
  <2>1. CASE Editing(q)'
    <3>1. Editing(q) /\ edit'[q] = edit[q] /\ edit[q].id \in QsoId /\ SnapshotHolds(q)
      BY <2>1, EditAtHand DEF EditKept, Editing, StoreInv
    <3>2. CASE edit[q].id = i
      BY <1>2, <3>1, <3>2 DEF SnapshotHolds
    <3>3. CASE edit[q].id # i
      BY <1>2, <3>1, <3>3 DEF SnapshotHolds, Outcome
    <3> QED
      BY <3>2, <3>3
  <2>2. CASE ~Editing(q)'
    BY <2>2 DEF SnapshotHolds
  <2> QED
    BY <2>1, <2>2
<1>5. HashFresh' /\ InstantFresh' /\ (Indexed => HashUnique)'
  BY <1>2, IdTypes DEF StoreInv, HashFresh, InstantFresh, HashUnique, Uncontested, TypeInv
<1> QED
  BY <1>3, <1>4, <1>5 DEF StoreInv

\* The document a lone edit writes: still live before, itself again after.
LEMMA WriteOutcome ==
  ASSUME TypeInv, StoreInv, NEW p \in Proc, Editing(p), coll[edit[p].id] # Absent,
         edit[p].id \notin contested
  PROVE  /\ edit[p].id \in Active
         /\ Written(p) \in Doc /\ Written(p) # Absent
         /\ Written(p).hash = canonical_document_hash(Written(p).f, Written(p).deleted)
         /\ Spelled(Written(p).f)
<1>1. SnapshotHolds(p) /\ edit[p].id \in QsoId
  BY EditAtHand DEF StoreInv, Editing
<1>2. Written(p) \in Doc
  BY WrittenDoc DEF Editing
<1> QED
  BY <1>1, <1>2, InputsAssumption
     DEF SnapshotHolds, Outcome, Written, row_hash_for_updated_qso, Active, Stored

LEMMA StoreWrites ==
  ASSUME TypeInv, StoreInv, NEW p \in Proc, Writes(p), \A q \in Proc : EditKept(q)
  PROVE  StoreInv'
<1> DEFINE i == edit[p].id
           doc == Written(p)
<1>1. /\ i \in Stored /\ i \in QsoId /\ doc # Absent
      /\ i \notin contested => /\ doc.hash = canonical_document_hash(doc.f, doc.deleted)
                              /\ Spelled(doc.f)
  BY WriteOutcome, WrittenDoc, EditAtHand, InputsAssumption DEF Writes, Editing, Stored
<1>2. /\ coll' = [coll EXCEPT ![i] = doc] /\ UNCHANGED <<used, contested>>
      /\ ~HashTaken(doc.hash, i) /\ Editing(p) /\ pc'[p] # "write"
  BY DEF Writes, Written
<1>3. \A q \in Proc \ {p} : Editing(q) /\ edit[q].id = i => i \in contested
  BY <1>2 DEF StoreInv, EditsSound, OneEditor
<1> HIDE DEF i, doc
<1>4. /\ coll'[i] = doc /\ \A j \in QsoId \ {i} : coll'[j] = coll[j]
      /\ Stored' = Stored
  BY <1>1, <1>2, Types DEF TypeInv, Stored, Active
<1>5. Stored' \subseteq used' /\ EditsSound'
  BY <1>2, <1>4, EditsStaySound DEF StoreInv
<1>6. ASSUME NEW q \in Proc PROVE SnapshotHolds(q)'
  <2>1. CASE Editing(q)'
    <3>1. /\ q # p /\ Editing(q) /\ edit'[q] = edit[q]
          /\ edit[q].id \in QsoId /\ SnapshotHolds(q)
      BY <1>2, <2>1, EditAtHand DEF EditKept, Editing, StoreInv
    <3>2. CASE edit[q].id = i
      BY <1>2, <1>3, <3>1, <3>2 DEF SnapshotHolds
    <3>3. CASE edit[q].id # i
      BY <1>2, <1>4, <3>1, <3>3 DEF SnapshotHolds, Outcome
    <3> QED
      BY <3>2, <3>3
  <2>2. CASE ~Editing(q)'
    BY <2>2 DEF SnapshotHolds
  <2> QED
    BY <2>1, <2>2
<1>7. HashFresh' /\ InstantFresh'
  BY <1>1, <1>2, <1>4, IdTypes
     DEF StoreInv, HashFresh, InstantFresh, Uncontested, Spelled, TypeInv
<1>8. ASSUME Indexed PROVE HashUnique'
  <2>1. \A j \in Stored \ {i} : coll[j].hash # doc.hash
    BY <1>2, <1>8 DEF HashTaken
  <2> QED
    BY <1>4, <1>8, <2>1, IdTypes DEF StoreInv, HashUnique, TypeInv
<1> QED
  BY <1>5, <1>6, <1>7, <1>8 DEF StoreInv

LEMMA StoreStartsEdit ==
  ASSUME TypeInv, StoreInv, NEW p \in Proc, StartsEdit(p)
  PROVE  StoreInv'
<1> DEFINE i == edit'[p].id
<1>1. /\ coll' = coll /\ used' = used
      /\ pc'[p] = "write" /\ i \in Active /\ i \in used /\ i \in QsoId
      /\ \A q \in Proc \ {p} : EditKept(q)
      /\ contested \subseteq contested'
      /\ \A q \in Proc \ {p} : Editing(q) /\ edit[q].id = i => i \in contested'
  BY IdTypes DEF StartsEdit, Contend, EditedElsewhere, TypeInv
<1>2. Stored' = Stored /\ Uncontested' \subseteq Uncontested
  BY <1>1 DEF Stored, Uncontested
<1>3. edit'[p].set = DeleteSet \/ edit'[p].set.deleted = Keep
  <2>1. \A u \in Update : PatchSet(coll[i].f, u).deleted = Keep
    BY DEF PatchSet
  <2> QED
    BY <2>1 DEF StartsEdit
<1>4. Stored' \subseteq used' /\ EditsSound'
  <2>1. \A q \in Proc : Editing(q)' => edit'[q].id \in used'
    BY <1>1 DEF StoreInv, EditsSound, EditKept, Editing
  <2>2. \A q \in Proc : EditShape(q)'
    BY <1>1, <1>3 DEF StoreInv, EditsSound, EditShape, EditKept, Editing
  <2>3. OneEditor'
    BY <1>1 DEF StoreInv, EditsSound, OneEditor, EditKept, Editing
  <2> QED
    BY <1>1, <1>2, <2>1, <2>2, <2>3 DEF StoreInv, EditsSound
<1>5. SnapshotHolds(p)'
  <2> SUFFICES ASSUME i \notin contested' PROVE SnapshotHolds(p)'
    BY DEF SnapshotHolds
  <2>1. coll[i] \in Doc /\ ~coll[i].deleted /\ coll'[i] = coll[i] /\ coll[i].f \in Fields
    BY <1>1, IdTypes DEF TypeInv, Active, Doc
  <2>2. Spelled(coll[i].f)
    BY <1>1, IdTypes DEF StoreInv, InstantFresh, Uncontested, Spelled, TypeInv
  <2>3. Spelled(Merge(coll[i].f, edit'[p].set))
    <3>1. CASE edit'[p].set = DeleteSet
      BY <2>1, <2>2, <3>1, DeleteOutcome
    <3>2. CASE \E u \in Update : edit'[p].set = PatchSet(coll[i].f, u)
      BY <2>1, <2>2, <3>2, PatchSpelled
    <3> QED
      BY <3>1, <3>2 DEF StartsEdit
  <2>4. edit'[p].hash = row_hash_for_updated_qso(coll[i], edit'[p].set)
    BY DEF StartsEdit
  <2> QED
    BY <2>1, <2>3, <2>4 DEF SnapshotHolds, Outcome
<1>6. ASSUME NEW q \in Proc \ {p} PROVE SnapshotHolds(q)'
  <2>1. CASE Editing(q)'
    <3>1. Editing(q) /\ edit'[q] = edit[q] /\ SnapshotHolds(q)
      BY <1>1, <2>1 DEF StoreInv, EditKept, Editing
    <3> QED
      BY <1>1, <3>1 DEF SnapshotHolds, Outcome
  <2>2. CASE ~Editing(q)'
    BY <2>2 DEF SnapshotHolds
  <2> QED
    BY <2>1, <2>2
<1>7. HashFresh' /\ InstantFresh' /\ (Indexed => HashUnique)'
  BY <1>1, <1>2 DEF StoreInv, HashFresh, InstantFresh, HashUnique
<1> QED
  BY <1>4, <1>5, <1>6, <1>7 DEF StoreInv

LEMMA StoreInit == Init => StoreInv
BY DEF Init, StoreInv, Stored, Uncontested, EditsSound, EditShape, OneEditor,
       SnapshotHolds, Editing, HashFresh, InstantFresh, HashUnique

LEMMA StoreNext ==
  ASSUME TypeInv, StoreInv, [Next]_vars
  PROVE  StoreInv'
BY StepShape, StoreKept, StoreInserts, StorePurges, StoreWrites, StoreStartsEdit
   DEF StoreStep

\* Distinct hashes of active documents mean distinct documents, the hashes
\* being fresh: why the unique index on rowHash keeps exact copies out.
LEMMA IndexKeepsCopiesOut ==
  ASSUME TypeInv, StoreInv, Indexed
  PROVE  NoExactDuplicates
<1> SUFFICES ASSUME NEW i \in Active \ contested, NEW j \in Active \ contested, i # j,
                    coll[i].f = coll[j].f
             PROVE  FALSE
  BY DEF NoExactDuplicates
<1>1. /\ i \in Stored /\ j \in Stored /\ coll[i] \in Doc /\ coll[j] \in Doc
      /\ coll[i].deleted = FALSE /\ coll[j].deleted = FALSE
  BY IdTypes DEF TypeInv, Active, Doc
<1>2. coll[i].hash = coll[j].hash
  BY <1>1 DEF StoreInv, HashFresh, Uncontested
<1> QED
  BY <1>1, <1>2 DEF StoreInv, HashUnique

\* Whatever inserts, other edits, clears and MongoDB failures interleave with
\* the await between an edit's read and its write, a stored rowHash is the hash
\* of its document and a qso_date_utc spells its date and time, unless two edits
\* of that very QSO were in flight together (FieldsFresh).
THEOREM StoredFieldsFresh == Spec => []FieldsFresh
<1>1. Init => TypeInv /\ StoreInv
  BY TypeInit, StoreInit
<1>2. TypeInv /\ StoreInv /\ [Next]_vars => TypeInv' /\ StoreInv'
  BY TypeStep, StoreNext
<1>3. StoreInv => FieldsFresh
  BY DEF StoreInv, FieldsFresh
<1> QED
  BY <1>1, <1>2, <1>3, PTL DEF Spec

\* Where the collection has its unique rowHash index, no two active QSOs of a
\* log are exact copies, whichever paths wrote them, but for a QSO two edits of
\* which overlapped (NoExactDuplicates).
THEOREM NoCopies ==
  ASSUME Indexed
  PROVE  Spec => []NoExactDuplicates
<1>1. Init => TypeInv /\ StoreInv
  BY TypeInit, StoreInit
<1>2. TypeInv /\ StoreInv /\ [Next]_vars => TypeInv' /\ StoreInv'
  BY TypeStep, StoreNext
<1>3. TypeInv /\ StoreInv => NoExactDuplicates
  BY IndexKeepsCopiesOut
<1> QED
  BY <1>1, <1>2, <1>3, PTL DEF Spec

-----------------------------------------------------------------------------
(***************************************************************************)
(* Refinement: each step of the store is a step of OperatorLog or nothing. *)
(***************************************************************************)
Entry == [i \in QsoId |-> IF coll[i] = Absent THEN Absent ELSE coll[i].f]
Bin == Stored \ Active

LEMMA EntryFacts ==
  ASSUME TypeInv
  PROVE  /\ \A i \in QsoId : Entry[i] = IF i \in Stored THEN coll[i].f ELSE Absent
         /\ \A i \in QsoId : Entry[i] # Absent <=> i \in Stored
         /\ {i \in QsoId : Entry[i] # Absent /\ i \notin Bin} = Active
         /\ \A i \in Stored : Entry[i] \in Fields
<1>1. \A i \in Stored : i \in QsoId /\ coll[i] \in Doc /\ coll[i].f \in Fields
  BY IdTypes DEF TypeInv, Doc
<1>2. \A i \in QsoId : Entry[i] = IF i \in Stored THEN coll[i].f ELSE Absent
  BY DEF Entry, Stored
<1>3. \A i \in QsoId : Entry[i] # Absent <=> i \in Stored
  BY <1>1, <1>2, InputsAssumption
<1>4. {i \in QsoId : Entry[i] # Absent /\ i \notin Bin} = Active
  BY <1>1, <1>3 DEF Bin, Active
<1> QED
  BY <1>1, <1>2, <1>3, <1>4

LEMMA OneEntry ==
  ASSUME NEW i \in QsoId, \A j \in QsoId \ {i} : coll'[j] = coll[j]
  PROVE  Entry' = [Entry EXCEPT ![i] = Entry'[i]]
<1>1. \A j \in QsoId \ {i} : Entry'[j] = Entry[j]
  BY DEF Entry
<1> QED
  BY <1>1 DEF Entry

\* A contact entered at i: only i's entry differs, and no other live contact
\* is a copy of the new one, contested ones apart.
LEMMA Entered ==
  ASSUME TypeInv, TypeInv', NoExactDuplicates', contested' = contested, NEW i \in QsoId,
         \A j \in QsoId \ {i} : coll'[j] = coll[j],
         i \in Stored', i \in contested \/ i \in Active'
  PROVE  /\ Entry'[i] \in Fields
         /\ i \notin contested => \A j \in Active \ ({i} \cup contested) : Entry[j] # Entry'[i]
         /\ Entry' = [Entry EXCEPT ![i] = Entry'[i]]
<1>1. Active' \subseteq Stored' /\ Stored' \subseteq QsoId
  BY DEF Active, Stored
<1>2. /\ \A j \in QsoId : Entry'[j] = IF j \in Stored' THEN coll'[j].f ELSE Absent
      /\ \A j \in Stored' : Entry'[j] \in Fields
  <2>1. coll' \in [QsoId -> Doc \cup {Absent}]
    BY DEF TypeInv, TypeOK
  <2> QED
    BY <1>1, <2>1 DEF Entry, Stored, Doc
<1>3. \A j \in QsoId : Entry[j] = IF j \in Stored THEN coll[j].f ELSE Absent
  BY EntryFacts
<1>4. \A j \in QsoId \ {i} : (j \in Stored' <=> j \in Stored) /\ (j \in Active' <=> j \in Active)
  BY DEF Stored, Active
<1>5. i \notin contested => \A j \in Active \ ({i} \cup contested) : Entry[j] # Entry'[i]
  BY <1>1, <1>2, <1>3, <1>4, IdTypes DEF NoExactDuplicates, TypeInv
<1>6. Entry' = [Entry EXCEPT ![i] = Entry'[i]]
  BY OneEntry
<1> QED
  BY <1>1, <1>2, <1>5, <1>6

LEMMA KeptStutters ==
  ASSUME Kept
  PROVE  Entry' = Entry /\ Bin' = Bin /\ UNCHANGED <<used, contested>>
BY DEF Kept, Entry, Bin, Stored, Active

LEMMA InsertsLog ==
  ASSUME TypeInv, TypeInv', StoreInv, NoExactDuplicates', Inserts
  PROVE  \E i \in QsoId : Contract!Log(i)
<1> PICK i \in QsoId \ used, r \in Record :
      /\ Valid(r)
      /\ coll' = [coll EXCEPT ![i] = qso_from_input_dict(build_qso_dict(r))]
      /\ used' = used \cup {i}
      /\ contested' = contested
  BY DEF Inserts
<1> DEFINE doc == qso_from_input_dict(build_qso_dict(r))
<1>1. doc # Absent /\ ~doc.deleted
  BY InsertedDoc
<1> HIDE DEF doc
<1>2. /\ coll'[i] = doc /\ \A j \in QsoId \ {i} : coll'[j] = coll[j]
      /\ i \notin Stored
  BY Types DEF TypeInv, doc, StoreInv
<1>3. Bin' = Bin /\ i \in Active' /\ i \in Stored'
  BY <1>1, <1>2 DEF Bin, Active, Stored
<1>4. /\ Entry'[i] \in Fields
      /\ i \notin contested => \A j \in Active \ ({i} \cup contested) : Entry[j] # Entry'[i]
      /\ Entry' = [Entry EXCEPT ![i] = Entry'[i]]
  BY <1>2, <1>3, Entered
<1> QED
  BY <1>3, <1>4, EntryFacts
     DEF Contract!Log, Contract!Enter, Contract!Live, Entry, Bin

LEMMA PurgesPurge ==
  ASSUME TypeInv, Purges
  PROVE  \E i \in QsoId : Contract!Purge(i)
<1> PICK i \in Active : coll' = [coll EXCEPT ![i] = Absent] /\ UNCHANGED <<used, contested>>
  BY DEF Purges
<1>1. i \in QsoId
  BY IdTypes DEF TypeInv
<1>2. coll'[i] = Absent /\ \A j \in QsoId \ {i} : coll'[j] = coll[j]
  BY <1>1, Types DEF TypeInv
<1>3. Bin' = Bin
  BY <1>2 DEF Bin, Active, Stored
<1>4. Entry'[i] = Absent
  BY <1>1, <1>2 DEF Entry
<1>5. Entry' = [Entry EXCEPT ![i] = Entry'[i]]
  BY <1>1, <1>2, OneEntry
<1> QED
  BY <1>1, <1>3, <1>4, <1>5, EntryFacts DEF Contract!Purge, Contract!Live, Entry, Bin

\* An edit corrects a live contact or bins it; after an overlapping edit it may
\* also find the contact binned, and then corrects it there or changes nothing.
LEMMA WritesCorrectOrBin ==
  ASSUME TypeInv, TypeInv', StoreInv, NoExactDuplicates', NEW p \in Proc, Writes(p)
  PROVE  \/ \E i \in QsoId : Contract!Correct(i) \/ Contract!Bin(i)
         \/ UNCHANGED <<Entry, Bin, used, contested>>
<1> DEFINE i == edit[p].id
           doc == Written(p)
<1>1. /\ i \in Stored /\ i \in QsoId /\ doc # Absent
      /\ coll[i] \in Doc /\ coll[i].f \in Fields /\ coll[i].deleted \in BOOLEAN
      /\ i \in Active \/ (i \in contested /\ i \in Bin)
  BY WriteOutcome, WrittenDoc, EditAtHand, InputsAssumption, IdTypes
     DEF Writes, Editing, TypeInv, Doc, Stored, Bin
<1>2. coll' = [coll EXCEPT ![i] = doc] /\ UNCHANGED <<used, contested>>
  BY DEF Writes
<1>3. edit[p].set = DeleteSet \/ edit[p].set.deleted = Keep
  BY DEF StoreInv, EditsSound, EditShape, Writes
<1>4. CASE edit[p].set = DeleteSet
  <2>1. doc.deleted = TRUE /\ doc.f = coll[i].f
    <3>1. DeleteSet.deleted = TRUE /\ TRUE # Keep
      BY ConstantsAssumption DEF DeleteSet
    <3> QED
      BY <1>1, <1>4, <3>1, DeleteOutcome DEF Written, Pick
  <2> HIDE DEF i, doc
  <2>2. coll'[i] = doc /\ \A j \in QsoId \ {i} : coll'[j] = coll[j]
    BY <1>1, <1>2, Types DEF TypeInv
  <2>3. Bin' = Bin \cup {i}
    BY <1>1, <2>1, <2>2 DEF Bin, Active, Stored
  <2>4. Entry' = Entry
    BY <1>1, <2>1, <2>2 DEF Entry, Stored
  <2>5. CASE i \in Active
    BY <1>1, <1>2, <2>3, <2>4, <2>5, EntryFacts DEF Contract!Bin, Contract!Live, Entry, Bin
  <2>6. CASE i \in Bin
    BY <1>2, <2>3, <2>4, <2>6
  <2> QED
    BY <1>1, <2>5, <2>6
<1>5. CASE edit[p].set.deleted = Keep
  <2>1. doc.deleted = coll[i].deleted
    BY <1>1, <1>5 DEF Written, Pick
  <2> HIDE DEF i, doc
  <2>2. coll'[i] = doc /\ \A j \in QsoId \ {i} : coll'[j] = coll[j]
    BY <1>1, <1>2, Types DEF TypeInv
  <2>3. Bin' = Bin /\ i \in Stored' /\ (i \in contested \/ i \in Active')
    BY <1>1, <2>1, <2>2 DEF Bin, Active, Stored
  <2>4. /\ Entry'[i] \in Fields
        /\ i \notin contested => \A j \in Active \ ({i} \cup contested) : Entry[j] # Entry'[i]
        /\ Entry' = [Entry EXCEPT ![i] = Entry'[i]]
    BY <1>1, <1>2, <2>2, <2>3, Entered
  <2> QED
    BY <1>1, <1>2, <2>3, <2>4, EntryFacts
       DEF Contract!Correct, Contract!Enter, Contract!Live, Entry, Bin
<1> QED
  BY <1>3, <1>4, <1>5

\* An edit that begins contests its contact, if another one of it is in flight.
LEMMA StartsContest ==
  ASSUME TypeInv, NEW p \in Proc, StartsEdit(p)
  PROVE  \/ \E i \in QsoId : Contract!Contest(i)
         \/ UNCHANGED <<Entry, Bin, used, contested>>
<1>1. PICK i \in Active : i = edit'[p].id /\ Contend(p, i) /\ UNCHANGED <<coll, used>>
  BY DEF StartsEdit
<1>2. Entry' = Entry /\ Bin' = Bin /\ i \in QsoId
  BY <1>1, IdTypes DEF Entry, Bin, Stored, Active, TypeInv
<1>3. CASE contested' = contested
  BY <1>1, <1>2, <1>3
<1>4. CASE contested' = contested \cup {i}
  BY <1>1, <1>2, <1>4, EntryFacts DEF Contract!Contest, Contract!Live, Entry, Bin
<1> QED
  BY <1>1, <1>3, <1>4 DEF Contend

\* The handlers implement the log that OperatorLog describes: whatever they
\* interleave with, each of their steps logs, corrects, bins, purges or contests
\* one contact as the contract allows, or changes nothing it can see.
THEOREM StoreImplementsLog ==
  ASSUME Indexed
  PROVE  Spec => KeepsContract
<1>1. Init => TypeInv /\ StoreInv
  BY TypeInit, StoreInit
<1>2. TypeInv /\ StoreInv /\ [Next]_vars => TypeInv' /\ StoreInv'
  BY TypeStep, StoreNext
<1>3. TypeInv /\ StoreInv => NoExactDuplicates
  BY IndexKeepsCopiesOut
<1>4. Init => Contract!Init
  BY DEF Init, Contract!Init, Stored, Active
<1>5. TypeInv /\ StoreInv /\ NoExactDuplicates' /\ TypeInv' /\ [Next]_vars
        => [Contract!Next]_Contract!logVars
  <2> SUFFICES ASSUME TypeInv, StoreInv, NoExactDuplicates', TypeInv', [Next]_vars
               PROVE  [Contract!Next]_Contract!logVars
    OBVIOUS
  <2>1. Kept \/ Inserts \/ Purges \/ \E p \in Proc : Writes(p) \/ StartsEdit(p)
    BY StepShape DEF StoreStep
  <2>2. \/ UNCHANGED <<Entry, Bin, used, contested>>
        \/ \E i \in QsoId : \/ Contract!Log(i) \/ Contract!Correct(i) \/ Contract!Bin(i)
                           \/ Contract!Purge(i) \/ Contract!Contest(i)
    BY <2>1, KeptStutters, InsertsLog, PurgesPurge, WritesCorrectOrBin, StartsContest
  <2> QED
    BY <2>2 DEF Contract!Next, Contract!logVars, Entry, Bin
<1> QED
  BY <1>1, <1>2, <1>3, <1>4, <1>5, PTL DEF Spec, KeepsContract, Contract!Spec

-----------------------------------------------------------------------------
(***************************************************************************)
(* What a report says stays true.  A document changes its fields only by a *)
(* PATCH, which marks it edited: a soft delete writes the fields that are  *)
(* there, and a new document takes an id nobody has reported.  So whatever *)
(* was said of an unedited document when a record was settled still holds. *)
(***************************************************************************)
Unedited == Stored \ edited

EditHolds(p) == Editing(p) =>
  /\ edit[p].id \in used
  /\ edit[p].kind = "delete" => edit[p].set = DeleteSet
  /\ edit[p].kind = "delete" /\ edit[p].id \in Unedited
       => edit[p].hash.f = coll[edit[p].id].f

DocInv ==
  /\ Stored \subseteq used
  /\ \A p \in Proc : EditHolds(p)
  /\ \A i \in Unedited : coll[i].hash.f = coll[i].f /\ coll[i].f.utc \in Nat

\* What no step undoes.
DocsPersist ==
  /\ used \subseteq used' /\ aired \subseteq aired'
  /\ \A i \in used : i \in cleared \cup Stored => i \in cleared' \cup Stored'
  /\ \A i \in used : i \in Unedited' => i \in Unedited /\ coll'[i].f = coll[i].f

SameDocs == UNCHANGED <<coll, used, edited, cleared>> /\ aired \subseteq aired'

LEMMA DocsSame ==
  ASSUME DocInv, SameDocs, \A q \in Proc : EditKept(q) \/ EditHolds(q)'
  PROVE  DocInv' /\ DocsPersist
<1>1. Stored' = Stored /\ Unedited' = Unedited
  BY DEF SameDocs, Stored, Unedited
<1>2. \A q \in Proc : EditHolds(q)'
  BY <1>1 DEF DocInv, SameDocs, EditKept, EditHolds, Editing
<1> QED
  BY <1>1, <1>2 DEF DocInv, DocsPersist, SameDocs

LEMMA DocsInsert ==
  ASSUME TypeInv, DocInv, NEW i \in QsoId \ used, NEW r \in Record, Valid(r),
         coll' = [coll EXCEPT ![i] = qso_from_input_dict(build_qso_dict(r))],
         used' = used \cup {i}, UNCHANGED <<edited, cleared, aired>>,
         \A q \in Proc : EditKept(q)
  PROVE  DocInv' /\ DocsPersist
<1> DEFINE doc == qso_from_input_dict(build_qso_dict(r))
<1>1. doc # Absent /\ doc.hash.f = doc.f /\ doc.f.utc \in Nat
  <2>1. doc # Absent
    BY InsertedDoc
  <2> QED
    BY <2>1, BuiltContent DEF qso_from_input_dict, canonical_document_hash
<1> HIDE DEF doc
<1>2. /\ coll'[i] = doc /\ \A j \in QsoId \ {i} : coll'[j] = coll[j]
      /\ Stored' = Stored \cup {i}
  BY <1>1, Types DEF TypeInv, doc, Stored
<1>3. /\ \A j \in used : j \in QsoId /\ j # i
      /\ \A j \in Unedited' : j = i \/ (j \in Unedited /\ j \in used)
      /\ \A j \in used : j \in Unedited' <=> j \in Unedited
  BY <1>2, Types DEF TypeInv, DocInv, Unedited
<1>4. \A q \in Proc : EditHolds(q)'
  BY <1>2, <1>3 DEF DocInv, EditKept, EditHolds, Editing
<1>5. DocInv'
  BY <1>1, <1>2, <1>3, <1>4 DEF DocInv
<1>6. DocsPersist
  BY <1>2, <1>3 DEF DocsPersist
<1> QED
  BY <1>5, <1>6

LEMMA DocsPurge ==
  ASSUME TypeInv, DocInv, NEW i \in Active, coll' = [coll EXCEPT ![i] = Absent],
         cleared' = cleared \cup {i}, UNCHANGED <<used, edited, aired>>,
         \A q \in Proc : EditKept(q)
  PROVE  DocInv' /\ DocsPersist
<1>1. i \in QsoId
  BY IdTypes DEF TypeInv
<1>2. /\ coll'[i] = Absent /\ \A j \in QsoId \ {i} : coll'[j] = coll[j]
      /\ Stored' = Stored \ {i}
  BY <1>1, Types DEF TypeInv, Stored
<1>3. /\ \A j \in used : j \in QsoId
      /\ \A j \in Unedited' : j \in Unedited /\ j # i /\ j \in used
  BY <1>2, Types DEF TypeInv, DocInv, Unedited
<1>4. \A q \in Proc : EditHolds(q)'
  BY <1>2, <1>3 DEF DocInv, EditKept, EditHolds, Editing
<1>5. DocInv'
  BY <1>2, <1>3, <1>4 DEF DocInv
<1>6. DocsPersist
  BY <1>2, <1>3 DEF DocsPersist
<1> QED
  BY <1>5, <1>6

LEMMA DocsWrite ==
  ASSUME TypeInv, DocInv, NEW p \in Proc, Editing(p), coll[edit[p].id] # Absent,
         coll' = [coll EXCEPT ![edit[p].id] = Written(p)],
         edited' = IF edit[p].kind = "delete" THEN edited ELSE edited \cup {edit[p].id},
         UNCHANGED <<used, cleared, aired>>, \A q \in Proc : EditKept(q)
  PROVE  DocInv' /\ DocsPersist
<1> DEFINE i == edit[p].id
           doc == Written(p)
<1>1. i \in QsoId /\ doc \in Doc /\ doc # Absent /\ doc.hash = edit[p].hash
  BY EditAtHand, WrittenDoc, InputsAssumption DEF Editing, Written
<1>2. edit[p].kind = "delete" /\ i \in Unedited => doc.f = coll[i].f /\ doc.hash.f = coll[i].f
  <2>1. coll[i].f \in Fields
    BY <1>1, IdTypes DEF TypeInv, Stored, Doc
  <2> QED
    BY <1>1, <2>1, DeleteOutcome DEF DocInv, EditHolds, Written
<1>3. coll' = [coll EXCEPT ![i] = doc] /\ i \in Stored
      /\ edited' = IF edit[p].kind = "delete" THEN edited ELSE edited \cup {i}
  BY <1>1 DEF Stored
<1> HIDE DEF i, doc
<1>4. /\ coll'[i] = doc /\ \A j \in QsoId \ {i} : coll'[j] = coll[j]
      /\ Stored' = Stored
  BY <1>1, <1>3, Types DEF TypeInv, Stored
<1>5. /\ \A j \in used : j \in QsoId
      /\ \A j \in Unedited' : j \in Unedited /\ j \in used
      /\ i \in Unedited' => edit[p].kind = "delete" /\ i \in Unedited
  BY <1>3, <1>4, Types DEF TypeInv, DocInv, Unedited
<1>6. \A j \in Unedited' : /\ coll'[j].f = coll[j].f /\ coll'[j].hash.f = coll'[j].f
                           /\ coll'[j].f.utc \in Nat
  BY <1>2, <1>4, <1>5, Types DEF DocInv, TypeInv
<1>7. \A q \in Proc : EditHolds(q)'
  BY <1>5, <1>6 DEF DocInv, EditKept, EditHolds, Editing
<1>8. DocInv'
  BY <1>4, <1>5, <1>6, <1>7 DEF DocInv
<1>9. DocsPersist
  BY <1>4, <1>5, <1>6 DEF DocsPersist
<1> QED
  BY <1>8, <1>9

\* What a verdict says of the log.
Said(v, r) ==
  /\ v.verdict = "accepted" =>
       /\ Valid(r) /\ v.id \in used \cap aired /\ v.id \in cleared \cup Stored
       /\ v.id \in Unedited => coll[v.id].f = build_qso_dict(r)
  /\ v.verdict = "duplicate" =>
       /\ v.id \in used \cup {Absent}
       /\ v.id \in Unedited => Near(coll[v.id].f, build_qso_dict(r))
  /\ v.verdict = "error" => ~Valid(r) \/ spent.faults > 0

ReportHolds(p) == \A k \in DOMAIN report[p] : \A v, r :
  report[p][k] = v /\ job[p].batch[k] = r => Said(v, r)

\* What a handler at hand knows of the document it has inserted, of those its
\* duplicate check looked at, and what that check leaves behind.
FreshHolds(p) == pc[p] = "broadcast" =>
  \A i \in QsoId : i = fresh[p] =>
    /\ i \in cleared \cup Stored
    /\ \A r \in Record : i \in Unedited /\ r = Current(p) => coll[i].f = build_qso_dict(r)

CheckHolds(p) ==
  /\ checked[p] \subseteq used
  /\ pc[p] # "insert" => checked[p] = {}
  /\ \A i \in checked[p] : \A r \in Record :
       i \in Unedited /\ r = Current(p) => ~Near(coll[i].f, build_qso_dict(r))

SeenHolds == \A j \in QsoId :
  /\ seen[j] \subseteq used
  /\ \A i \in seen[j] : i \in Unedited /\ j \in Unedited => ~Near(coll[i].f, coll[j].f)

ReportInv ==
  /\ DocInv /\ SeenHolds
  /\ \A p \in Proc : ReportHolds(p) /\ FreshHolds(p) /\ CheckHolds(p)

LEMMA SaidPersists ==
  ASSUME DocsPersist, DocInv, spent.faults > 0 => spent'.faults > 0,
         Stored' \subseteq used', Absent \notin used', used \subseteq QsoId,
         NEW v, NEW r, Said(v, r)
  PROVE  Said(v, r)'
<1>1. v.id \in used => (v.id \in Unedited' => v.id \in Unedited /\ coll'[v.id].f = coll[v.id].f)
  BY DEF DocsPersist
<1>2. Absent \notin Unedited'
  BY DEF Unedited
<1>3. v.verdict = "accepted" => Said(v, r)'
  BY <1>1 DEF Said, DocsPersist
<1>4. v.verdict = "duplicate" => Said(v, r)'
  BY <1>1, <1>2 DEF Said, DocsPersist
<1>5. v.verdict = "error" => Said(v, r)'
  BY DEF Said
<1> QED
  BY <1>3, <1>4, <1>5 DEF Said

\* A report that is kept, emptied, or longer by a verdict that is true.
ReportKept(p) == report'[p] = report[p] /\ job'[p] = job[p]
ReportEmptied(p) == report'[p] = <<>>
ReportGrows(p) == \E v \in Verdicts, r \in Record :
  /\ r = Current(p) /\ Said(v, r)'
  /\ report'[p] = Append(report[p], v) /\ job'[p] = job[p]

LEMMA ReportPersists ==
  ASSUME TypeInv, TypeInv', ReportInv, DocInv', DocsPersist, NEW p \in Proc,
         spent.faults > 0 => spent'.faults > 0,
         ReportKept(p) \/ ReportEmptied(p) \/ ReportGrows(p)
  PROVE  ReportHolds(p)'
<1>1. Absent \notin used' /\ used \subseteq QsoId /\ Stored' \subseteq used'
  BY ConstantsAssumption DEF TypeInv, TypeOK, DocInv
<1>2. \A v, r : Said(v, r) => Said(v, r)'
  BY <1>1, SaidPersists DEF ReportInv
<1>3. report[p] \in Seq(Verdicts) /\ Len(report[p]) \in Nat
      /\ DOMAIN report[p] = 1..Len(report[p])
  BY Types DEF TypeInv
<1>4. CASE ReportKept(p)
  BY <1>2, <1>4 DEF ReportKept, ReportInv, ReportHolds
<1>5. CASE ReportEmptied(p)
  <2>1. DOMAIN report'[p] = {}
    BY <1>5 DEF ReportEmptied
  <2> QED
    BY <2>1 DEF ReportHolds
<1>6. CASE ReportGrows(p)
  <2>1. PICK v \in Verdicts, r \in Record :
          /\ r = Current(p) /\ Said(v, r)'
          /\ report'[p] = Append(report[p], v) /\ job'[p] = job[p]
    BY <1>6 DEF ReportGrows
  <2>2. /\ report'[p] \in Seq(Verdicts) /\ Len(report'[p]) = Len(report[p]) + 1
        /\ \A k \in 1..Len(report[p]) : report'[p][k] = report[p][k]
        /\ report'[p][Len(report[p]) + 1] = v
    BY <1>3, <2>1, AppendProperties
  <2>3. DOMAIN report'[p] = 1..(Len(report[p]) + 1)
    BY <1>3, <2>2
  <2>4. SUFFICES ASSUME NEW k \in 1..(Len(report[p]) + 1), NEW w, NEW s,
                        report'[p][k] = w, job[p].batch[k] = s
                 PROVE  Said(w, s)'
    BY <2>1, <2>3 DEF ReportHolds
  <2>5. CASE k = Len(report[p]) + 1
    <3>1. w = v /\ s = r
      BY <2>1, <2>2, <2>4, <2>5 DEF Current
    <3> QED
      BY <2>1, <3>1
  <2>6. CASE k \in 1..Len(report[p])
    BY <1>2, <1>3, <2>2, <2>4, <2>6 DEF ReportInv, ReportHolds
  <2> QED
    BY <1>3, <2>5, <2>6
<1> QED
  BY <1>4, <1>5, <1>6

\* What a handler knows, at a step of another.
LEMMA OthersPersist ==
  ASSUME TypeInv, TypeInv', ReportInv, DocsPersist, NEW p \in Proc,
         pc'[p] = pc[p], fresh'[p] = fresh[p], checked'[p] = checked[p],
         report'[p] = report[p], job'[p] = job[p]
  PROVE  FreshHolds(p)' /\ CheckHolds(p)'
<1>1. Current(p)' = Current(p)
  BY DEF Current
<1>2. pc[p] = "broadcast" => fresh[p] \in used
  BY DEF TypeInv, HandlerOK, HandlerAt
<1>3. FreshHolds(p)'
  BY <1>1, <1>2 DEF ReportInv, FreshHolds, DocsPersist
<1>4. CheckHolds(p)'
  BY <1>1 DEF ReportInv, CheckHolds, DocsPersist
<1> QED
  BY <1>3, <1>4

LEMMA SeenPersists ==
  ASSUME ReportInv, TypeInv, DocInv', DocsPersist, seen' = seen, used' = used
  PROVE  SeenHolds'
<1>1. Unedited' \subseteq used
  BY DEF DocInv, Unedited
<1>2. \A i \in used : i \in Unedited' => i \in Unedited /\ coll'[i].f = coll[i].f
  BY DEF DocsPersist
<1> QED
  BY <1>1, <1>2 DEF ReportInv, SeenHolds

\* A step of p, put together.
OthersSame(p) == \A q \in Proc \ {p} :
  /\ pc'[q] = pc[q] /\ fresh'[q] = fresh[q] /\ checked'[q] = checked[q]
  /\ report'[q] = report[q] /\ job'[q] = job[q]

LEMMA ReportStepOf ==
  ASSUME TypeInv, TypeInv', ReportInv, DocInv', DocsPersist, SeenHolds', NEW p \in Proc,
         spent.faults > 0 => spent'.faults > 0,
         OthersSame(p), ReportKept(p) \/ ReportEmptied(p) \/ ReportGrows(p),
         FreshHolds(p)', CheckHolds(p)'
  PROVE  ReportInv'
<1>1. ASSUME NEW q \in Proc PROVE ReportHolds(q)'
  <2>1. ReportKept(q) \/ ReportEmptied(q) \/ ReportGrows(q)
    BY DEF OthersSame, ReportKept
  <2> QED
    BY <2>1, ReportPersists
<1>2. ASSUME NEW q \in Proc PROVE FreshHolds(q)' /\ CheckHolds(q)'
  BY OthersPersist DEF OthersSame
<1> QED
  BY <1>1, <1>2 DEF ReportInv

\* A handler that waits neither to insert nor to tell the feed.
LEMMA HandlerQuiet ==
  ASSUME NEW p \in Proc, pc'[p] \notin {"insert", "broadcast"}, checked'[p] = {}
  PROVE  FreshHolds(p)' /\ CheckHolds(p)'
BY DEF FreshHolds, CheckHolds

LEMMA MovedOnly ==
  ASSUME TypeInv, NEW p \in Proc, NEW label, Goto(p, label)
  PROVE  pc'[p] = label /\ \A q \in Proc \ {p} : pc'[q] = pc[q]
BY Types DEF TypeInv, Goto

LEMMA SettledOnly ==
  ASSUME TypeInv, NEW p \in Proc, NEW v, Settle(p, v)
  PROVE  /\ report'[p] = Append(report[p], v) /\ \A q \in Proc \ {p} : report'[q] = report[q]
         /\ pc'[p] \in {"idle", "record"} /\ \A q \in Proc \ {p} : pc'[q] = pc[q]
<1>1. pc'[p] \in {"idle", "record"} /\ \A q \in Proc \ {p} : pc'[q] = pc[q]
  BY MovedOnly DEF Settle
<1>2. report' = [report EXCEPT ![p] = Append(report[p], v)]
  BY DEF Settle
<1> QED
  BY <1>1, <1>2, Types DEF TypeInv

\* A record that is settled under a true verdict.
LEMMA SettledTruly ==
  ASSUME TypeInv, TypeInv', ReportInv, DocInv', DocsPersist, SeenHolds', NEW p \in Proc,
         NEW v \in Verdicts, NEW r \in Record, r = Current(p), Said(v, r)', Settle(p, v),
         job' = job, checked'[p] = {}, spent.faults > 0 => spent'.faults > 0,
         \A q \in Proc \ {p} : fresh'[q] = fresh[q] /\ checked'[q] = checked[q]
  PROVE  ReportInv'
<1>1. /\ report'[p] = Append(report[p], v) /\ \A q \in Proc \ {p} : report'[q] = report[q]
      /\ pc'[p] \in {"idle", "record"} /\ \A q \in Proc \ {p} : pc'[q] = pc[q]
  BY SettledOnly
<1>2. ReportGrows(p)
  BY <1>1 DEF ReportGrows
<1>3. OthersSame(p)
  BY <1>1 DEF OthersSame
<1>4. FreshHolds(p)' /\ CheckHolds(p)'
  BY <1>1, HandlerQuiet
<1> QED
  BY <1>2, <1>3, <1>4, ReportStepOf

\* Steps that write nothing and settle nothing.
LEMMA QuietReports ==
  ASSUME TypeInv, TypeInv', ReportInv, SameDocs, seen' = seen, NEW p \in Proc,
         \A q \in Proc : EditKept(q) \/ EditHolds(q)', OthersSame(p),
         ReportKept(p) \/ ReportEmptied(p), spent.faults > 0 => spent'.faults > 0,
         pc'[p] \notin {"insert", "broadcast"}, checked'[p] = {}
  PROVE  ReportInv'
<1>1. DocInv' /\ DocsPersist
  BY DocsSame DEF ReportInv
<1>2. SeenHolds'
  BY <1>1, SeenPersists DEF SameDocs
<1>3. FreshHolds(p)' /\ CheckHolds(p)'
  BY HandlerQuiet
<1> QED
  BY <1>1, <1>2, <1>3, ReportStepOf

\* Between submissions no duplicate check is at hand.
LEMMA Unchecked ==
  ASSUME ReportInv, NEW p \in Proc, pc[p] # "insert"
  PROVE  checked[p] = {}
BY DEF ReportInv, CheckHolds

LEMMA Replaced ==
  ASSUME TypeInv, NEW p \in Proc, NEW j,
         job' = [job EXCEPT ![p] = j], report' = [report EXCEPT ![p] = <<>>]
  PROVE  /\ ReportEmptied(p)
         /\ \A q \in Proc \ {p} : job'[q] = job[q] /\ report'[q] = report[q]
<1>1. job \in [Proc -> Jobs] /\ report \in [Proc -> Seq(Verdicts)]
  BY Types DEF TypeInv
<1>2. report'[p] = <<>> /\ \A q \in Proc \ {p} : report'[q] = report[q]
  BY <1>1, Zenon
<1>3. \A q \in Proc \ {p} : job'[q] = job[q]
  BY <1>1
<1> QED
  BY <1>2, <1>3 DEF ReportEmptied

LEMMA RequestsReport ==
  ASSUME TypeInv, TypeInv', ReportInv, NEW p \in Proc, Submit(p) \/ BeginClear(p)
  PROVE  ReportInv'
<1>1. /\ pc[p] = "idle" /\ (Goto(p, "record") \/ Goto(p, "clear"))
      /\ SameDocs /\ UNCHANGED <<seen, checked, fresh>>
      /\ \E j : job' = [job EXCEPT ![p] = j]
      /\ report' = [report EXCEPT ![p] = <<>>]
  BY DEF Submit, BeginClear, SameDocs, store, history
<1>2. pc'[p] \in {"record", "clear"} /\ \A q \in Proc \ {p} : pc'[q] = pc[q]
  BY <1>1, MovedOnly
<1>3. ReportEmptied(p) /\ OthersSame(p)
  BY <1>1, <1>2, Replaced DEF OthersSame
<1>4. spent'.faults = spent.faults
  BY DEF Submit, BeginClear, TypeInv, TypeOK, Spending
<1>5. checked'[p] = {}
  BY <1>1, Unchecked
<1>6. \A q \in Proc : EditKept(q)
  BY ShapeSubmission, ShapeRest
<1> QED
  BY <1>1, <1>2, <1>3, <1>4, <1>5, <1>6, QuietReports

LEMMA WaitsReport ==
  ASSUME TypeInv, TypeInv', ReportInv, NEW p \in Proc,
         Refetch(p) \/ Reread(p) \/ EndClear(p)
  PROVE  ReportInv'
<1>1. /\ pc[p] \in {"refetch", "reread", "clear"}
      /\ Goto(p, "reread") \/ Goto(p, "idle")
      /\ SameDocs /\ UNCHANGED <<seen, checked, fresh, job, report, spent>>
  BY DEF Refetch, Reread, EndClear, SameDocs, store, history
<1>2. pc'[p] \in {"reread", "idle"} /\ \A q \in Proc \ {p} : pc'[q] = pc[q]
  BY <1>1, MovedOnly
<1>3. ReportKept(p) /\ OthersSame(p) /\ checked'[p] = {}
  BY <1>1, <1>2, Unchecked DEF OthersSame, ReportKept
<1>4. \A q \in Proc : EditKept(q)
  BY ShapeRest
<1> QED
  BY <1>1, <1>2, <1>3, <1>4, QuietReports

\* A DELETE about to be written has the hash its document will have.
LEMMA EditsReport ==
  ASSUME TypeInv, TypeInv', ReportInv, NEW p \in Proc, Edit(p)
  PROVE  ReportInv'
<1> PICK i \in used : EditNotFound(p, i) \/ ReadForPatch(p, i) \/ ReadForDelete(p, i)
  BY DEF Edit
<1>1. /\ pc[p] = "idle" /\ i \in used /\ i \in QsoId
      /\ job' = [job EXCEPT ![p] = NoJob] /\ report' = [report EXCEPT ![p] = <<>>]
      /\ spent' = [spent EXCEPT !.edits = @ + 1]
      /\ SameDocs /\ UNCHANGED <<seen, checked, fresh>>
  BY Types DEF EditNotFound, ReadForPatch, ReadForDelete, BeginEdit, SameDocs, store, history,
               TypeInv
<1>2. pc' = pc \/ Goto(p, "write")
  BY DEF EditNotFound, ReadForPatch, ReadForDelete
<1>3. pc'[p] \in {"idle", "write"} /\ \A q \in Proc \ {p} : pc'[q] = pc[q]
  BY <1>1, <1>2, MovedOnly
<1>4. ReportEmptied(p) /\ OthersSame(p) /\ checked'[p] = {}
  BY <1>1, <1>3, Replaced, Unchecked DEF OthersSame
<1>5. spent'.faults = spent.faults
  BY <1>1 DEF TypeInv, TypeOK, Spending
<1>6. edit \in [Proc -> Edits] /\ Stored' = Stored /\ Unedited' = Unedited /\ coll' = coll
      /\ used' = used
  BY <1>1, Types DEF TypeInv, SameDocs, Stored, Unedited
<1>7. ASSUME NEW e, edit' = [edit EXCEPT ![p] = e], e.id = i,
             e.kind = "delete" => /\ e.set = DeleteSet /\ i \in Stored
                                  /\ e.hash = row_hash_for_updated_qso(coll[i], DeleteSet)
      PROVE  \A q \in Proc : EditKept(q) \/ EditHolds(q)'
  <2>1. edit'[p] = e /\ \A q \in Proc \ {p} : edit'[q] = edit[q]
    BY <1>6, <1>7
  <2>2. \A q \in Proc \ {p} : EditKept(q)
    BY <1>3, <2>1 DEF EditKept, Editing
  <2>3. e.kind = "delete" /\ i \in Unedited => e.hash.f = coll[i].f
    <3>1. i \in Unedited => i \in Stored /\ coll[i].f \in Fields /\ coll[i].f.utc \in Nat
      BY IdTypes DEF TypeInv, ReportInv, DocInv, Unedited, Doc
    <3> QED
      BY <1>7, <3>1, DeleteOutcome, ContentOfDatetime
         DEF row_hash_for_updated_qso, canonical_document_hash
  <2>4. EditHolds(p)'
    BY <1>1, <1>6, <1>7, <2>1, <2>3 DEF EditHolds
  <2> QED
    BY <2>2, <2>4
<1>8. \A q \in Proc : EditKept(q) \/ EditHolds(q)'
  <2>1. CASE EditNotFound(p, i)
    BY <1>1, <1>3, <1>6, <2>1 DEF EditNotFound, EditKept, Editing
  <2>2. CASE ReadForPatch(p, i)
    <3>1. PICK u \in Update, via \in {"rest", "browser"} : PatchBegun(p, i, u, via)
      BY <2>2, PatchRead
    <3>2. CASE pc' = pc /\ edit' = [edit EXCEPT ![p] = NoEdit]
      BY <1>1, <1>6, <3>2 DEF EditKept, Editing
    <3> DEFINE e == [kind |-> via, id |-> i, set |-> PatchSet(coll[i].f, u),
                     hash |-> row_hash_for_updated_qso(coll[i], PatchSet(coll[i].f, u))]
    <3>3. e.id = i /\ e.kind # "delete"
      OBVIOUS
    <3> HIDE DEF e
    <3>4. CASE edit' = [edit EXCEPT ![p] = e]
      BY <1>7, <3>3, <3>4
    <3> QED
      BY <3>1, <3>2, <3>4 DEF e, PatchBegun
  <2>3. CASE ReadForDelete(p, i)
    <3> DEFINE e == [kind |-> "delete", id |-> i, set |-> DeleteSet,
                     hash |-> row_hash_for_updated_qso(coll[i], DeleteSet)]
    <3>1. edit' = [edit EXCEPT ![p] = e] /\ i \in Stored
      BY <2>3 DEF ReadForDelete, Active
    <3>2. e.id = i /\ e.set = DeleteSet /\ e.hash = row_hash_for_updated_qso(coll[i], DeleteSet)
      OBVIOUS
    <3> HIDE DEF e
    <3> QED
      BY <1>7, <3>1, <3>2
  <2> QED
    BY <2>1, <2>2, <2>3
<1> QED
  BY <1>1, <1>3, <1>4, <1>5, <1>8, QuietReports

LEMMA RejectReports ==
  ASSUME TypeInv, TypeInv', ReportInv, NEW p \in Proc, RejectRecord(p)
  PROVE  ReportInv'
<1> DEFINE v == [verdict |-> "error", id |-> Absent]
<1>1. /\ pc[p] = "record" /\ ~Valid(Current(p)) /\ Settle(p, v) /\ SameDocs
      /\ UNCHANGED <<seen, checked, fresh, job, spent>>
  BY DEF RejectRecord, SameDocs, store, history
<1>2. Current(p) \in Record /\ v \in Verdicts
  BY <1>1, CurrentType DEF TypeInv, HandlerOK, HandlerAt, Verdicts
<1>3. PICK r \in Record : r = Current(p)
  BY <1>2
<1>4. Said(v, r)'
  BY <1>1, <1>3 DEF Said
<1>5. DocInv' /\ DocsPersist
  BY <1>1, ShapeSubmission, DocsSame DEF ReportInv
<1>6. SeenHolds'
  BY <1>1, <1>5, SeenPersists DEF SameDocs
<1>7. checked'[p] = {}
  BY <1>1, Unchecked
<1> HIDE DEF v
<1> QED
  BY <1>1, <1>2, <1>3, <1>4, <1>5, <1>6, <1>7, SettledTruly

LEMMA FindsReport ==
  ASSUME TypeInv, TypeInv', ReportInv, NEW p \in Proc, find_duplicate(p)
  PROVE  ReportInv'
<1>1. /\ pc[p] = "record" /\ Valid(Current(p)) /\ SameDocs
      /\ UNCHANGED <<seen, fresh, job, spent>>
  BY DEF find_duplicate, SameDocs, store
<1>2. PICK r \in Record : r = Current(p)
  BY <1>1, CurrentType DEF TypeInv, HandlerOK, HandlerAt
<1>3. DocInv' /\ DocsPersist /\ SeenHolds'
  <2>1. DocInv' /\ DocsPersist
    BY <1>1, ShapeSubmission, DocsSame DEF ReportInv
  <2> QED
    BY <1>1, <2>1, SeenPersists DEF SameDocs
<1>4. Active \subseteq used /\ Active \subseteq QsoId /\ Active \subseteq Stored
  BY IdTypes DEF ReportInv, DocInv, TypeInv
<1>5. CASE /\ Matches(build_qso_dict(r)) = {} /\ Goto(p, "insert")
           /\ checked' = [checked EXCEPT ![p] = Active] /\ report' = report
  <2>1. pc'[p] = "insert" /\ \A q \in Proc \ {p} : pc'[q] = pc[q]
    BY <1>5, MovedOnly
  <2>2. checked'[p] = Active /\ \A q \in Proc \ {p} : checked'[q] = checked[q]
    BY <1>5 DEF TypeInv, TypeOK
  <2>3. ReportKept(p) /\ OthersSame(p)
    BY <1>1, <1>5, <2>1, <2>2 DEF ReportKept, OthersSame
  <2>4. FreshHolds(p)'
    BY <2>1 DEF FreshHolds
  <2>5. \A i \in Active : ~Near(coll[i].f, build_qso_dict(r))
    BY <1>5 DEF Matches
  <2>6. Current(p)' = r /\ coll' = coll /\ used' = used
    BY <1>1, <1>2, <1>5 DEF Current, SameDocs
  <2>7. CheckHolds(p)'
    BY <1>4, <2>1, <2>2, <2>5, <2>6 DEF CheckHolds
  <2> QED
    BY <1>1, <1>3, <2>3, <2>4, <2>7, ReportStepOf
<1>6. CASE /\ checked' = checked
           /\ \E i \in Matches(build_qso_dict(r)) :
                Settle(p, [verdict |-> "duplicate", id |-> i])
  <2>1. PICK i \in Matches(build_qso_dict(r)) : Settle(p, [verdict |-> "duplicate", id |-> i])
    BY <1>6
  <2> DEFINE v == [verdict |-> "duplicate", id |-> i]
  <2>2. i \in Active /\ Near(coll[i].f, build_qso_dict(r))
    BY DEF Matches
  <2>3. v \in Verdicts
    BY <1>4, <2>2 DEF Verdicts
  <2>4. Said(v, r)'
    BY <1>1, <1>4, <2>2 DEF Said, SameDocs
  <2>5. checked'[p] = {}
    BY <1>1, <1>6, Unchecked
  <2> HIDE DEF v
  <2> QED
    BY <1>1, <1>2, <1>3, <1>6, <2>1, <2>3, <2>4, <2>5, SettledTruly DEF v
<1> QED
  BY <1>2, <1>5, <1>6 DEF find_duplicate

LEMMA ExistingReports ==
  ASSUME TypeInv, TypeInv', ReportInv, NEW p \in Proc, FindExisting(p)
  PROVE  ReportInv'
<1>1. /\ pc[p] = "existing" /\ SameDocs
      /\ UNCHANGED <<seen, checked, fresh, job, spent>>
  BY DEF FindExisting, SameDocs, store, history
<1>2. PICK r \in Record : r = Current(p)
  BY <1>1, CurrentType DEF TypeInv, HandlerOK, HandlerAt
<1>3. Valid(r)
  BY <1>1, <1>2 DEF TypeInv, HandlerOK, HandlerAt
<1> DEFINE doc == qso_from_input_dict(build_qso_dict(r))
           same == {i \in Stored : coll[i].hash = doc.hash}
<1>4. \/ Goto(p, "idle") /\ UNCHANGED report
      \/ \E i \in IF same = {} THEN {Absent} ELSE same :
           Settle(p, [verdict |-> "duplicate", id |-> i])
  BY <1>2 DEF FindExisting
<1>a. CASE Goto(p, "idle") /\ UNCHANGED report
  <2>1. pc'[p] = "idle" /\ \A q \in Proc \ {p} : pc'[q] = pc[q]
    BY <1>a, MovedOnly
  <2>2. ReportKept(p) /\ OthersSame(p) /\ checked'[p] = {}
    BY <1>1, <1>a, <2>1, Unchecked DEF OthersSame, ReportKept
  <2>3. \A q \in Proc : EditKept(q)
    BY ShapeSubmission
  <2> QED
    BY <1>1, <2>1, <2>2, <2>3, QuietReports
<1> SUFFICES ASSUME NEW i \in IF same = {} THEN {Absent} ELSE same,
                    Settle(p, [verdict |-> "duplicate", id |-> i])
             PROVE  ReportInv'
  BY <1>4, <1>a
<1> DEFINE v == [verdict |-> "duplicate", id |-> i]
<1>5. doc.hash.f = build_qso_dict(r) /\ Near(build_qso_dict(r), build_qso_dict(r))
  BY <1>3, BuiltContent DEF qso_from_input_dict, canonical_document_hash, Near, Window
<1>6. i = Absent \/ (i \in Stored /\ coll[i].hash = doc.hash)
  OBVIOUS
<1> HIDE DEF doc, same
<1>7. i \in Unedited => Near(coll[i].f, build_qso_dict(r))
  <2> SUFFICES ASSUME i \in Unedited PROVE Near(coll[i].f, build_qso_dict(r))
    OBVIOUS
  <2>1. i \in Stored /\ i \in QsoId /\ i # Absent
    BY IdTypes, ConstantsAssumption DEF TypeInv, Unedited
  <2>2. coll[i].f = coll[i].hash.f
    BY DEF ReportInv, DocInv
  <2> QED
    BY <1>5, <1>6, <2>1, <2>2
<1>8. v \in Verdicts /\ i \in used \cup {Absent}
  BY <1>6, IdTypes DEF Verdicts, TypeInv, ReportInv, DocInv
<1>9. Said(v, r)'
  <2>1. Unedited' = Unedited /\ coll' = coll /\ used' = used
    BY <1>1 DEF SameDocs, Unedited, Stored
  <2> QED
    BY <1>7, <1>8, <2>1 DEF Said
<1>10. DocInv' /\ DocsPersist
  BY <1>1, ShapeSubmission, DocsSame DEF ReportInv
<1>11. SeenHolds' /\ checked'[p] = {}
  BY <1>1, <1>10, SeenPersists, Unchecked DEF SameDocs
<1> HIDE DEF v
<1> QED
  BY <1>1, <1>2, <1>8, <1>9, <1>10, <1>11, SettledTruly DEF v

LEMMA BroadcastReports ==
  ASSUME TypeInv, TypeInv', ReportInv, NEW p \in Proc, broadcast_qso(p)
  PROVE  ReportInv'
<1>0. pc[p] = "broadcast" /\ fresh[p] \in used /\ fresh[p] \in QsoId
  BY Types DEF broadcast_qso, TypeInv, HandlerOK, HandlerAt
<1> PICK i \in QsoId : i = fresh[p]
  BY <1>0
<1> DEFINE v == [verdict |-> "accepted", id |-> i]
<1>1. /\ pc[p] = "broadcast" /\ Settle(p, v) /\ aired' = aired \cup {i} /\ SameDocs
      /\ fresh' = [fresh EXCEPT ![p] = Absent]
      /\ UNCHANGED <<seen, checked, job, spent>>
  BY DEF broadcast_qso, SameDocs, history
<1>2. PICK r \in Record : r = Current(p)
  BY <1>1, CurrentType DEF TypeInv, HandlerOK, HandlerAt
<1>3. Valid(r) /\ i \in used /\ i \in QsoId /\ v \in Verdicts
  BY <1>0, <1>1, <1>2 DEF TypeInv, HandlerOK, HandlerAt, Verdicts
<1>4. i \in cleared \cup Stored /\ (i \in Unedited => coll[i].f = build_qso_dict(r))
  BY <1>1, <1>2, <1>3 DEF ReportInv, FreshHolds
<1>5. Said(v, r)'
  <2>1. /\ Unedited' = Unedited /\ Stored' = Stored /\ coll' = coll /\ used' = used
        /\ cleared' = cleared
    BY <1>1 DEF SameDocs, Unedited, Stored
  <2> QED
    BY <1>1, <1>3, <1>4, <2>1 DEF Said
<1>6. DocInv' /\ DocsPersist
  BY <1>1, ShapeSubmission, DocsSame DEF ReportInv
<1>7. SeenHolds' /\ checked'[p] = {}
  BY <1>1, <1>6, SeenPersists, Unchecked DEF SameDocs
<1>8. \A q \in Proc \ {p} : fresh'[q] = fresh[q]
  BY <1>1, Types DEF TypeInv
<1> HIDE DEF v
<1> QED
  BY <1>1, <1>2, <1>3, <1>5, <1>6, <1>7, <1>8, SettledTruly

LEMMA InsertReports ==
  ASSUME TypeInv, TypeInv', ReportInv, NEW p \in Proc, insert_qso_dict(p)
  PROVE  ReportInv'
<1> DEFINE i == CHOOSE i \in QsoId : i \notin used
<1>1. /\ ReadyToInsert(p) /\ checked' = [checked EXCEPT ![p] = {}]
      /\ UNCHANGED <<aired, job, report, edit, spent, edited, cleared>>
  BY DEF insert_qso_dict
<1>2. PICK r \in Record : r = Current(p) /\ Valid(r)
  BY <1>1, CurrentType DEF ReadyToInsert, TypeInv, HandlerOK, HandlerAt
<1>3. checked'[p] = {} /\ \A q \in Proc \ {p} : checked'[q] = checked[q]
  BY <1>1 DEF TypeInv, TypeOK
<1>4. \A q \in Proc : EditKept(q)
  BY ShapeInsert
<1> DEFINE doc == qso_from_input_dict(build_qso_dict(r))
<1>5. CASE UNCHANGED <<coll, used, fresh, seen>> /\ Goto(p, "existing")
  <2>1. pc'[p] = "existing" /\ \A q \in Proc \ {p} : pc'[q] = pc[q]
    BY <1>5, MovedOnly
  <2>2. SameDocs /\ ReportKept(p) /\ OthersSame(p)
    BY <1>1, <1>3, <1>5, <2>1 DEF SameDocs, ReportKept, OthersSame
  <2> QED
    BY <1>1, <1>3, <1>4, <1>5, <2>1, <2>2, QuietReports
<1>6. CASE /\ QsoId \ used # {} /\ coll' = [coll EXCEPT ![i] = doc]
           /\ used' = used \cup {i} /\ fresh' = [fresh EXCEPT ![p] = i]
           /\ seen' = [seen EXCEPT ![i] = checked[p]] /\ Goto(p, "broadcast")
  <2>1. pc'[p] = "broadcast" /\ \A q \in Proc \ {p} : pc'[q] = pc[q]
    BY <1>6, MovedOnly
  <2>2. i \in QsoId \ used
    BY <1>6
  <2> HIDE DEF i
  <2>3. DocInv' /\ DocsPersist
    BY <1>1, <1>2, <1>4, <1>6, <2>2, DocsInsert DEF ReportInv
  <2>4. /\ fresh'[p] = i /\ \A q \in Proc \ {p} : fresh'[q] = fresh[q]
        /\ coll'[i] = doc /\ seen'[i] = checked[p]
        /\ \A j \in QsoId \ {i} : seen'[j] = seen[j]
    BY <1>6, <2>2, Types DEF TypeInv, TypeOK
  <2>5. doc # Absent /\ doc.f = build_qso_dict(r)
    <3>1. doc # Absent
      BY <1>2, InsertedDoc
    <3> QED
      BY <3>1 DEF qso_from_input_dict
  <2> HIDE DEF doc
  <2>6. i \in Stored'
    BY <2>2, <2>4, <2>5 DEF Stored
  <2>7. Current(p)' = r
    BY <1>1, <1>2 DEF Current
  <2>8. FreshHolds(p)'
    BY <2>4, <2>5, <2>6, <2>7 DEF FreshHolds
  <2>9. CheckHolds(p)'
    BY <1>3 DEF CheckHolds
  <2>10. checked[p] \subseteq used
         /\ \A j \in checked[p] : j \in Unedited => ~Near(coll[j].f, build_qso_dict(r))
    BY <1>2 DEF ReportInv, CheckHolds
  <2>11. \A j \in used : j \in Unedited' => j \in Unedited /\ coll'[j].f = coll[j].f
    BY <2>3 DEF DocsPersist
  <2>12. \A j \in QsoId \ {i} : j \in Unedited' => j \in used
    BY <1>6, <2>3 DEF DocInv, Unedited
  <2>13. ASSUME NEW j \in QsoId
         PROVE  /\ seen'[j] \subseteq used'
                /\ \A k \in seen'[j] : k \in Unedited' /\ j \in Unedited'
                                         => ~Near(coll'[k].f, coll'[j].f)
    <3>1. CASE j = i
      BY <1>6, <2>4, <2>5, <2>10, <2>11, <3>1
    <3>2. CASE j # i
      <4>1. /\ seen[j] \subseteq used
            /\ \A k \in seen[j] : k \in Unedited /\ j \in Unedited => ~Near(coll[k].f, coll[j].f)
        BY DEF ReportInv, SeenHolds
      <4>2. seen'[j] = seen[j]
        BY <2>4, <3>2
      <4>3. j \in Unedited' => j \in Unedited /\ coll'[j].f = coll[j].f
        BY <2>11, <2>12, <3>2
      <4>4. seen'[j] \subseteq used'
        BY <1>6, <4>1, <4>2
      <4>5. ASSUME NEW k \in seen'[j], k \in Unedited', j \in Unedited'
            PROVE  ~Near(coll'[k].f, coll'[j].f)
        <5>1. k \in Unedited /\ coll'[k].f = coll[k].f
          BY <2>11, <4>1, <4>2, <4>5
        <5> QED
          BY <4>1, <4>2, <4>3, <4>5, <5>1
      <4> QED
        BY <4>4, <4>5
    <3> QED
      BY <3>1, <3>2
  <2>14. SeenHolds'
    BY <2>13 DEF SeenHolds
  <2>15. ReportKept(p) /\ OthersSame(p)
    BY <1>1, <1>3, <2>1, <2>4 DEF ReportKept, OthersSame
  <2> QED
    BY <1>1, <2>3, <2>8, <2>9, <2>14, <2>15, ReportStepOf
<1> QED
  BY <1>2, <1>5, <1>6 DEF insert_qso_dict

LEMMA UpdateReports ==
  ASSUME TypeInv, TypeInv', ReportInv, NEW p \in Proc, update_one(p)
  PROVE  ReportInv'
<1>1. /\ pc[p] = "write"
      /\ UNCHANGED <<used, aired, job, report, edit, fresh, spent, checked, seen, cleared>>
  BY DEF update_one
<1>2. Goto(p, "idle") \/ Goto(p, "refetch")
  BY DEF update_one, AfterWrite
<1>3. pc'[p] \in {"idle", "refetch"} /\ \A q \in Proc \ {p} : pc'[q] = pc[q]
  BY <1>2, MovedOnly
<1>4. ReportKept(p) /\ OthersSame(p) /\ checked'[p] = {}
  BY <1>1, <1>3, Unchecked DEF ReportKept, OthersSame
<1>5. \A q \in Proc : EditKept(q)
  BY ShapeUpdate
<1>6. CASE UNCHANGED <<coll, edited>>
  <2>1. SameDocs
    BY <1>1, <1>6 DEF SameDocs
  <2> QED
    BY <1>1, <1>3, <1>4, <1>5, <2>1, QuietReports
<1>7. CASE /\ coll[edit[p].id] # Absent /\ coll' = [coll EXCEPT ![edit[p].id] = Written(p)]
           /\ edited' = IF edit[p].kind = "delete" THEN edited ELSE edited \cup {edit[p].id}
  <2>1. DocInv' /\ DocsPersist
    BY <1>1, <1>5, <1>7, DocsWrite DEF ReportInv, Editing
  <2>2. SeenHolds'
    BY <1>1, <2>1, SeenPersists
  <2>3. FreshHolds(p)' /\ CheckHolds(p)'
    BY <1>3, <1>4, HandlerQuiet
  <2> QED
    BY <1>1, <1>4, <2>1, <2>2, <2>3, ReportStepOf
<1> QED
  BY <1>6, <1>7 DEF update_one

LEMMA ClearReports ==
  ASSUME TypeInv, TypeInv', ReportInv, NEW p \in Proc, ClearOne(p)
  PROVE  ReportInv'
<1>1. PICK i \in Active : coll' = [coll EXCEPT ![i] = Absent] /\ cleared' = cleared \cup {i}
  BY DEF ClearOne
<1>2. /\ pc[p] = "clear"
      /\ UNCHANGED <<used, aired, pc, job, report, edit, fresh, spent, checked, seen, edited>>
  BY DEF ClearOne
<1>3. \A q \in Proc : EditKept(q)
  BY ShapeRest
<1>4. DocInv' /\ DocsPersist
  BY <1>1, <1>2, <1>3, DocsPurge DEF ReportInv
<1>5. SeenHolds'
  BY <1>2, <1>4, SeenPersists
<1>6. ReportKept(p) /\ OthersSame(p) /\ checked'[p] = {}
  BY <1>2, Unchecked DEF ReportKept, OthersSame
<1>7. FreshHolds(p)' /\ CheckHolds(p)'
  BY <1>2, <1>6, HandlerQuiet
<1> QED
  BY <1>2, <1>4, <1>5, <1>6, <1>7, ReportStepOf

LEMMA FaultReports ==
  ASSUME TypeInv, TypeInv', ReportInv, NEW p \in Proc, Fault(p)
  PROVE  ReportInv'
<1> DEFINE v == [verdict |-> "error", id |-> Absent]
<1>1. /\ pc[p] # "idle" /\ SameDocs /\ UNCHANGED <<seen, job, edit>>
      /\ fresh' = [fresh EXCEPT ![p] = Absent]
      /\ checked' = [checked EXCEPT ![p] = {}]
  BY DEF Fault, SameDocs, store
<1>2. spent'.faults > 0
  <2>1. spent \in Spending /\ spent' = [spent EXCEPT !.faults = spent.faults + 1]
    BY DEF Fault, TypeInv, TypeOK
  <2> QED
    BY <2>1 DEF Spending
<1>3. /\ checked'[p] = {} /\ \A q \in Proc \ {p} : checked'[q] = checked[q]
      /\ \A q \in Proc \ {p} : fresh'[q] = fresh[q]
  BY <1>1 DEF TypeInv, TypeOK
<1>4. \A q \in Proc : EditKept(q)
  BY ShapeRest
<1>5. CASE Goto(p, "idle") /\ report' = report
  <2>1. pc'[p] = "idle" /\ \A q \in Proc \ {p} : pc'[q] = pc[q]
    BY <1>5, MovedOnly
  <2>2. ReportKept(p) /\ OthersSame(p)
    BY <1>1, <1>3, <1>5, <2>1 DEF ReportKept, OthersSame
  <2> QED
    BY <1>1, <1>2, <1>3, <1>4, <2>1, <2>2, QuietReports
<1>6. CASE pc[p] \in {"record", "existing", "broadcast"} /\ Settle(p, v)
  <2>1. PICK r \in Record : r = Current(p)
    BY <1>6, CurrentType DEF TypeInv, HandlerOK, HandlerAt
  <2>2. v \in Verdicts /\ Said(v, r)'
    BY <1>2 DEF Verdicts, Said
  <2>3. DocInv' /\ DocsPersist
    BY <1>1, <1>4, DocsSame DEF ReportInv
  <2>4. SeenHolds'
    BY <1>1, <2>3, SeenPersists DEF SameDocs
  <2> HIDE DEF v
  <2> QED
    BY <1>1, <1>2, <1>3, <1>6, <2>1, <2>2, <2>3, <2>4, SettledTruly
<1> QED
  BY <1>5, <1>6 DEF Fault

LEMMA ReportInit == Init => ReportInv
<1> SUFFICES ASSUME Init PROVE ReportInv
  OBVIOUS
<1>1. Stored = {}
  BY DEF Init, Stored
<1>2. DocInv
  BY <1>1 DEF Init, DocInv, EditHolds, Editing, Unedited
<1>3. SeenHolds
  BY DEF Init, SeenHolds
<1>4. ASSUME NEW p \in Proc PROVE ReportHolds(p) /\ FreshHolds(p) /\ CheckHolds(p)
  <2>1. DOMAIN report[p] = {}
    BY DEF Init
  <2> QED
    BY <2>1 DEF Init, ReportHolds, FreshHolds, CheckHolds
<1> QED
  BY <1>2, <1>3, <1>4 DEF ReportInv

LEMMA ReportStutters ==
  ASSUME TypeInv, TypeInv', ReportInv, UNCHANGED vars
  PROVE  ReportInv'
<1>1. SameDocs /\ UNCHANGED <<seen, pc, fresh, checked, report, job, edit, spent>>
  BY DEF vars, SameDocs
<1>2. DocInv' /\ DocsPersist
  BY <1>1, DocsSame DEF ReportInv, EditKept, Editing
<1>3. SeenHolds'
  BY <1>1, <1>2, SeenPersists DEF SameDocs
<1>4. ASSUME NEW p \in Proc PROVE ReportHolds(p)' /\ FreshHolds(p)' /\ CheckHolds(p)'
  BY <1>1, <1>2, OthersPersist, ReportPersists DEF ReportKept
<1> QED
  BY <1>2, <1>3, <1>4 DEF ReportInv

LEMMA ReportNext ==
  TypeInv /\ ReportInv /\ [Next]_vars => TypeInv' /\ ReportInv'
<1> SUFFICES ASSUME TypeInv, ReportInv, [Next]_vars PROVE TypeInv' /\ ReportInv'
  OBVIOUS
<1>1. TypeInv'
  BY TypeStep
<1>2. CASE Next
  <2> PICK p \in Proc : Submit(p) \/ Edit(p) \/ BeginClear(p) \/ Fault(p) \/ Handle(p)
    BY <1>2 DEF Next
  <2>1. CASE Submit(p) \/ BeginClear(p)
    BY <1>1, <2>1, RequestsReport
  <2>2. CASE Edit(p)
    BY <1>1, <2>2, EditsReport
  <2>3. CASE Fault(p)
    BY <1>1, <2>3, FaultReports
  <2>4. CASE Handle(p)
    BY <1>1, <2>4, RejectReports, FindsReport, InsertReports, ExistingReports, BroadcastReports,
       UpdateReports, WaitsReport, ClearReports DEF Handle
  <2> QED
    BY <2>1, <2>2, <2>3, <2>4
<1>3. CASE UNCHANGED vars
  BY <1>1, <1>3, ReportStutters
<1> QED
  BY <1>1, <1>2, <1>3

\* What a report says of the log, whatever interleaves with the batch and after.
LEMMA ReportsTrue == Spec => [](TypeInv /\ ReportInv)
<1>1. Init => TypeInv /\ ReportInv
  BY TypeInit, ReportInit
<1> QED
  BY <1>1, ReportNext, PTL DEF Spec

LEMMA ReportFacts ==
  ASSUME ReportInv, NEW p \in Proc, NEW k \in Reported(p)
  PROVE  Said(report[p][k], job[p].batch[k])
BY DEF ReportInv, ReportHolds, Reported

\* A QSO reported as accepted was shown on the live feed and is in the log as
\* it was sent, until it is corrected or cleared (AcceptedIsKept).
THEOREM AcceptedKept == Spec => []AcceptedIsKept
<1>1. ReportInv => AcceptedIsKept
  BY ReportFacts DEF AcceptedIsKept, Said, Unedited
<1> QED
  BY <1>1, ReportsTrue, PTL

\* A "duplicate" answer names a contact within the window, an error an invalid
\* record or a failed call, an acceptance a valid record (VerdictsJustified).
THEOREM VerdictsTrue == Spec => []VerdictsJustified
<1>1. ReportInv => VerdictsJustified
  BY ReportFacts DEF VerdictsJustified, Said, Unedited
<1> QED
  BY <1>1, ReportsTrue, PTL

\* A submission never adds a near duplicate of a QSO its check looked at; what
\* is left is force, corrections and races (NearDuplicateOnlyByRace).
THEOREM NearDuplicatesOnlyByRace == Spec => []NearDuplicateOnlyByRace
<1>1. TypeInv /\ ReportInv => NearDuplicateOnlyByRace
  <2> SUFFICES ASSUME TypeInv, ReportInv, NEW j \in Active \ edited,
                      NEW i \in (seen[j] \cap Active) \ edited,
                      coll[i].f.call = coll[j].f.call
               PROVE  \/ coll[i].f.utc > coll[j].f.utc + 2
                      \/ coll[j].f.utc > coll[i].f.utc + 2
    BY DEF NearDuplicateOnlyByRace
  <2>1. /\ i \in Stored /\ j \in Stored /\ j \in QsoId
        /\ coll[i].f.utc \in Nat /\ coll[j].f.utc \in Nat
    BY IdTypes DEF TypeInv, ReportInv, DocInv, Unedited
  <2>2. ~Near(coll[i].f, coll[j].f)
    BY <2>1 DEF ReportInv, SeenHolds, Unedited
  <2> QED
    BY <2>1, <2>2 DEF Near, Window
<1> QED
  BY <1>1, ReportsTrue, PTL
-----------------------------------------------------------------------------
\* Only p's own step changes how p was answered.
LEMMA OwnAnswer ==
  ASSUME TypeInv, NEW p \in Proc, NEW q \in Proc,
         Submit(q) \/ Edit(q) \/ BeginClear(q) \/ Fault(q) \/ Handle(q),
         answer'[p] # answer[p]
  PROVE  q = p
<1>1. answer' = answer \/ \E a : Answer(q, a)
  <2>1. CASE Submit(q) \/ BeginClear(q) \/ Fault(q)
    BY <2>1 DEF Submit, BeginClear, Fault
  <2>2. CASE Edit(q)
    <3>1. PICK i \in used : EditNotFound(q, i) \/ ReadForPatch(q, i) \/ ReadForDelete(q, i)
      BY <2>2 DEF Edit
    <3> QED
      BY <3>1 DEF EditNotFound, ReadForPatch, ReadForDelete
  <2>3. CASE update_one(q) \/ Refetch(q) \/ Reread(q) \/ EndClear(q)
    BY <2>3 DEF update_one, AfterWrite, Refetch, Reread, EndClear
  <2>4. CASE \/ RejectRecord(q) \/ find_duplicate(q) \/ insert_qso_dict(q)
             \/ FindExisting(q) \/ broadcast_qso(q) \/ ClearOne(q)
    BY <2>4 DEF RejectRecord, find_duplicate, insert_qso_dict, FindExisting, broadcast_qso, ClearOne
  <2> QED
    BY <2>1, <2>2, <2>3, <2>4 DEF Handle
<1> QED
  BY <1>1, Types DEF TypeInv, Answer

\* A handler about to write is answered an error by a fault or by the index.
LEMMA WriteRefused ==
  ASSUME TypeInv, NEW p \in Proc, [Next]_vars, Editing(p), edit[p].kind = "delete",
         answer[p] = "none", answer'[p] = "error", spent'.faults = spent.faults
  PROVE  coll[edit[p].id] # Absent /\ HashTaken(edit[p].hash, edit[p].id)
<1>1. PICK q \in Proc : Submit(q) \/ Edit(q) \/ BeginClear(q) \/ Fault(q) \/ Handle(q)
  BY DEF Next, vars
<1>2. Submit(p) \/ Edit(p) \/ BeginClear(p) \/ Fault(p) \/ Handle(p)
  BY <1>1, OwnAnswer
<1>3. ~Fault(p)
  <2>1. Fault(p) => spent' = [spent EXCEPT !.faults = spent.faults + 1]
    BY DEF Fault
  <2>2. spent \in Spending
    BY DEF TypeInv, TypeOK
  <2> QED
    BY <2>1, <2>2 DEF Spending
<1>4. update_one(p)
  <2>1. ~Submit(p) /\ ~BeginClear(p) /\ ~Edit(p)
    BY DEF Editing, Submit, BeginClear, Edit, EditNotFound, ReadForPatch, ReadForDelete, BeginEdit
  <2> QED
    BY <1>2, <1>3, <2>1 DEF Editing, Handle, RejectRecord, find_duplicate, insert_qso_dict,
       ReadyToInsert, FindExisting, broadcast_qso, Refetch, Reread, ClearOne, EndClear
<1>5. \A a : Answer(p, a) => answer'[p] = a
  BY Types DEF TypeInv, Answer
<1>6. ~AfterWrite(p)
  BY <1>5 DEF AfterWrite
<1> QED
  BY <1>4, <1>6 DEF update_one

\* Without a MongoDB failure, a DELETE is answered 500 only when a QSO with the
\* very same content is in the bin already (DeleteRefusedOnlyByTwin).
THEOREM DeletesRefusedOnlyByTwin == Spec => DeleteRefusedOnlyByTwin
<1>1. Init => TypeInv /\ StoreInv /\ ReportInv
  BY TypeInit, StoreInit, ReportInit
<1>2. TypeInv /\ StoreInv /\ ReportInv /\ [Next]_vars => TypeInv' /\ StoreInv' /\ ReportInv'
  BY TypeStep, StoreNext, ReportNext
<1>3. ASSUME TypeInv, StoreInv, ReportInv, [Next]_vars, NEW p \in Proc,
             Editing(p), edit[p].kind = "delete", edit[p].id \notin contested,
             answer[p] = "none", answer'[p] = "error", spent'.faults = spent.faults
      PROVE  \E j \in Stored \ {edit[p].id} :
               \/ j \in contested
               \/ coll[j].deleted /\ Content(coll[j].f) = Content(coll[edit[p].id].f)
  <2> PICK i \in QsoId : i = edit[p].id
    BY <1>3, EditAtHand DEF Editing
  <2>1. coll[i] # Absent /\ HashTaken(edit[p].hash, i)
    BY <1>3, WriteRefused
  <2>2. PICK j \in Stored \ {i} : coll[j].hash = edit[p].hash
    BY <2>1 DEF HashTaken
  <2>3. coll[i].f \in Fields
    BY <2>1, IdTypes, <1>3 DEF TypeInv, Stored, Doc
  <2>4. edit[p].hash = canonical_document_hash(coll[i].f, TRUE)
    <3>1. edit[p].set = DeleteSet
      BY <1>3 DEF ReportInv, DocInv, EditHolds
    <3>2. edit[p].hash = row_hash_for_updated_qso(coll[i], DeleteSet)
      BY <1>3, <2>1, <3>1 DEF StoreInv, SnapshotHolds
    <3>3. DeleteSet.deleted = TRUE /\ TRUE # Keep
      BY ConstantsAssumption DEF DeleteSet
    <3> QED
      BY <2>3, <3>2, <3>3, DeleteOutcome DEF row_hash_for_updated_qso, Pick
  <2>5. j \notin contested => coll[j].deleted = TRUE /\ Content(coll[j].f) = Content(coll[i].f)
    <3>1. j \notin contested => canonical_document_hash(coll[j].f, coll[j].deleted) = edit[p].hash
      BY <1>3, <2>2 DEF StoreInv, HashFresh, Uncontested
    <3> QED
      BY <2>4, <3>1 DEF canonical_document_hash
  <2> QED
    BY <2>2, <2>5
<1>4. TypeInv /\ StoreInv /\ ReportInv /\ [Next]_vars
        => [\A p \in Proc :
              LET i == edit[p].id IN
              /\ Editing(p) /\ edit[p].kind = "delete" /\ i \notin contested
              /\ answer[p] = "none" /\ answer'[p] = "error" /\ spent'.faults = spent.faults
              => \E j \in Stored \ {i} :
                   \/ j \in contested
                   \/ coll[j].deleted /\ Content(coll[j].f) = Content(coll[i].f)]_vars
  BY <1>3
<1> QED
  BY <1>1, <1>2, <1>4, PTL DEF Spec, DeleteRefusedOnlyByTwin
=============================================================================
