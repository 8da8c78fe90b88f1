----------------------------- MODULE AclogBridge -----------------------------
(***************************************************************************)
(* app/aclog/client.py with the parts of parser.py and identity.py it      *)
(* calls: one TCP client of N3FJP ACLog.  ACLog announces a saved contact  *)
(* with ENTEREVENT; the client waits a quarter of a second, asks LIST for  *)
(* the most recent full records, and imports the contact it finds there    *)
(* when its station/operator identity is the operator's.  One slot holds   *)
(* the contact waiting for its full record.                                *)
(*                                                                         *)
(* ACLog itself is outside the repository: the actions of its section say  *)
(* what client.py and its tests rely on.  It answers requests in the order *)
(* they came, on the same connection as its announcements, so everything a *)
(* connection carries is in order.                                         *)
(*                                                                         *)
(* A contact is its number in ACLog's log.  Of its fields only identity    *)
(* and one note are kept: the note stands for FREQ, the reports and the    *)
(* Other slots, whose text boxes ACLog reports as they are typed.  A note  *)
(* is named by the contact it was typed for.                               *)
(***************************************************************************)
EXTENDS Integers, Sequences, FiniteSets

CONSTANTS
  Callsign,
  Operator,     \* the callsign of the operator's account
  Station,      \* the station callsign of the profile
  NoCall,
  SetupCall,    \* what the setup Call may be
  Identity,     \* what full records may say: [mycall, operator]
  Recent,       \* ACLOG_FULL_RECORD_RECENT_COUNT
  MaxContacts,  \* bound on the contacts ACLog logs
  MaxMoves,     \* bound on the changes of ACLog's setup Call
  MaxAmends,    \* bound on the logged contacts edited in ACLog
  MaxFaults     \* bound on connections that end and on answers without a record

MaybeCall == Callsign \cup {NoCall}

ASSUME BridgeAssumption ==
  /\ {Operator, Station} \subseteq Callsign /\ NoCall \notin Callsign
  /\ NoCall \in SetupCall /\ SetupCall \subseteq MaybeCall
  /\ Identity \subseteq [mycall : MaybeCall, operator : MaybeCall]
  /\ Recent \in Nat \ {0} /\ MaxContacts \in Nat
  /\ MaxMoves \in Nat /\ MaxAmends \in Nat /\ MaxFaults \in Nat

VARIABLES
  log,        \* ACLog: the contacts, with the setup Call each was saved under
  box,        \* ACLog: the contact the note box holds text for
  setup,      \* ACLog: the setup Call
  amended,    \* ACLog: contacts whose call, date or time was edited since
  open,       \* the connection, and the messages in flight each way
  toAclog, toBridge,
  pc,         \* where the client is
  state,      \* the client's cache of setup Call and note box
  pending,    \* the client's pending contact, with the note known so far
  imported,   \* handed to ingest_qso_record, in order
  skipped,    \* contacts logged as skipped, with the reason
  lost,       \* contacts whose ENTEREVENT was read and an exception dropped
  refused,    \* contacts pending when an answer without a record came (history)
  moved,      \* the setup Call changed during this connection (history)
  moves, faults

aclog == <<log, box, setup, amended, moves>>
wire == <<open, toAclog, toBridge>>
outcome == <<imported, skipped, lost, refused>>
vars == <<log, box, setup, amended, open, toAclog, toBridge, pc, state, pending,
          imported, skipped, lost, refused, moved, moves, faults>>

-----------------------------------------------------------------------------

Contact == 1..MaxContacts
Blank == 0
None == [contact |-> 0, note |-> Blank]

Enter(c) == [type |-> "ENTEREVENT", contact |-> c]
Update(n) == [type |-> "UPDATERESPONSE", note |-> n]
Settings(call) == [type |-> "GETUSERSETTINGSRESPONSE", call |-> call]
ListReply(cs) == [type |-> "LISTRESPONSE", contacts |-> cs]
NoRecords == [type |-> "NORECORDS"]

Message ==
  {Enter(c) : c \in Contact} \cup {Update(n) : n \in Contact \cup {Blank}}
    \cup {Settings(call) : call \in MaybeCall} \cup {ListReply(cs) : cs \in SUBSET Contact}
    \cup {NoRecords}

Init ==
  /\ log = <<>> /\ box = Blank /\ setup = NoCall /\ amended = {}
  /\ open = FALSE /\ toAclog = <<>> /\ toBridge = <<>>
  /\ pc = "dial" /\ state = [setup |-> NoCall, note |-> Blank] /\ pending = None
  /\ imported = <<>> /\ skipped = {} /\ lost = {} /\ refused = {}
  /\ moved = FALSE /\ moves = 0 /\ faults = 0

-----------------------------------------------------------------------------
(* ACLog (external) *)

Tell(messages) == toBridge' = IF open THEN toBridge \o messages ELSE toBridge

(* Text typed into a box is for the contact that will be saved next. *)
TypeNote ==
  /\ box = Blank /\ Len(log) < MaxContacts
  /\ box' = Len(log) + 1
  /\ Tell(<<Update(box')>>)
  /\ UNCHANGED <<log, setup, amended, open, toAclog, pc, state, pending, imported,
                 skipped, lost, refused, moved, moves, faults>>

SaveContact(id) ==
  /\ Len(log) < MaxContacts
  /\ log' = Append(log, [mycall |-> id.mycall, operator |-> id.operator,
                         note |-> box, setup |-> setup])
  /\ box' = Blank
  /\ Tell(<<Enter(Len(log'))>> \o (IF box = Blank THEN <<>> ELSE <<Update(Blank)>>))
  /\ UNCHANGED <<setup, amended, open, toAclog, pc, state, pending, imported,
                 skipped, lost, refused, moved, moves, faults>>

AmendContact(c) ==
  /\ c <= Len(log) /\ c \notin amended /\ Cardinality(amended) < MaxAmends
  /\ amended' = amended \cup {c}
  /\ UNCHANGED <<log, box, setup, wire, pc, state, pending, outcome, moved, moves, faults>>

ChangeSetup(call) ==
  /\ moves < MaxMoves /\ call # setup
  /\ setup' = call /\ moves' = moves + 1 /\ moved' = TRUE
  /\ UNCHANGED <<log, box, amended, wire, pc, state, pending, outcome, faults>>

(* The full records ACLog answers with, less those that were edited: they
   are in the answer too, under a call, date or time that matches nothing. *)
RecentContacts == {c \in Contact : c <= Len(log) /\ c > Len(log) - Recent} \ amended

Answer ==
  /\ open /\ toAclog # <<>>
  /\ toAclog' = Tail(toAclog)
  /\ Tell(<<IF Head(toAclog) = "LIST" THEN ListReply(RecentContacts) ELSE Settings(setup)>>)
  /\ UNCHANGED <<aclog, open, pc, state, pending, outcome, moved, faults>>

(* ACLog answers LIST with no record: its log is empty by now, the contact
   having been deleted there, or it reports an error. *)
AnswerWithoutRecord ==
  /\ open /\ toAclog # <<>> /\ Head(toAclog) = "LIST"
  /\ faults < MaxFaults /\ faults' = faults + 1
  /\ toAclog' = Tail(toAclog)
  /\ Tell(<<NoRecords>>)
  /\ UNCHANGED <<aclog, open, pc, state, pending, outcome, moved>>

(* ACLog closes the connection; what it had sent still arrives. *)
HangUp ==
  /\ open /\ faults < MaxFaults /\ faults' = faults + 1
  /\ open' = FALSE /\ toAclog' = <<>>
  /\ UNCHANGED <<aclog, toBridge, pc, state, pending, outcome, moved>>

-----------------------------------------------------------------------------
(* run_aclog_bridge *)

(* Mutant: the connection is used without asking for the setup Call. *)
ConnectWithoutSettings ==
  /\ pc = "dial" /\ pc' = "read"
  /\ open' = TRUE /\ toAclog' = <<>> /\ toBridge' = <<>>
  /\ state' = [setup |-> NoCall, note |-> Blank]
  /\ pending' = None /\ moved' = FALSE
  /\ UNCHANGED <<aclog, outcome, faults>>

(* open_connection and _initialize_connection: a fresh cache, no pending
   contact, and the setup Call asked for first. *)
Connect ==
  /\ pc = "dial" /\ pc' = "read"
  /\ open' = TRUE /\ toAclog' = <<"GETUSERSETTINGS">> /\ toBridge' = <<>>
  /\ state' = [setup |-> NoCall, note |-> Blank]
  /\ pending' = None /\ moved' = FALSE
  /\ UNCHANGED <<aclog, outcome, faults>>

Skip(p, why) == IF p = None THEN skipped ELSE skipped \cup {<<p.contact, why>>}

Receive(type) ==
  /\ pc = "read" /\ toBridge # <<>> /\ Head(toBridge).type = type
  /\ toBridge' = Tail(toBridge)

(* Mutant: an empty box is passed over, as READBMF's empty fields are. *)
ReadUpdateOfText ==
  /\ Receive("UPDATERESPONSE")
  /\ state' = IF Head(toBridge).note = Blank THEN state
              ELSE [state EXCEPT !.note = Head(toBridge).note]
  /\ UNCHANGED <<aclog, open, toAclog, pc, pending, outcome, moved, faults>>

(* update_state_from_message *)
ReadUpdate ==
  /\ Receive("UPDATERESPONSE")
  /\ state' = [state EXCEPT !.note = Head(toBridge).note]
  /\ UNCHANGED <<aclog, open, toAclog, pc, pending, outcome, moved, faults>>

ReadSettings ==
  /\ Receive("GETUSERSETTINGSRESPONSE")
  /\ state' = [state EXCEPT !.setup = Head(toBridge).call]
  /\ UNCHANGED <<aclog, open, toAclog, pc, pending, outcome, moved, faults>>

OrElse(note, other) == IF note = Blank THEN other ELSE note

(* Mutant: the older contact keeps the slot. *)
ReadEnterEventLate ==
  /\ Receive("ENTEREVENT")
  /\ LET c == Head(toBridge).contact
         p == [contact |-> c, note |-> OrElse(log[c].note, state.note)]
     IN  /\ pending' = IF pending = None THEN p ELSE pending
         /\ skipped' = IF pending = None THEN skipped ELSE Skip(p, "overtaken")
  /\ pc' = "delay"
  /\ UNCHANGED <<aclog, open, toAclog, state, imported, lost, refused, moved, faults>>

(* _handle_message on ENTEREVENT; aclog_enterevent_to_adif fills the note in. *)
ReadEnterEvent ==
  /\ Receive("ENTEREVENT")
  /\ LET c == Head(toBridge).contact IN
       pending' = [contact |-> c, note |-> OrElse(log[c].note, state.note)]
  /\ skipped' = Skip(pending, "overtaken")
  /\ pc' = "delay"
  /\ UNCHANGED <<aclog, open, toAclog, state, imported, lost, refused, moved, faults>>

(* _request_full_record, after ACLOG_FULL_RECORD_DELAY_SECONDS *)
RequestFullRecord ==
  /\ pc = "delay" /\ pc' = "read"
  /\ toAclog' = IF open THEN Append(toAclog, "LIST") ELSE toAclog
  /\ UNCHANGED <<aclog, open, toBridge, state, pending, outcome, moved, faults>>

(* An answer nothing waits for any more. *)
ReadLateAnswer ==
  /\ Receive("LISTRESPONSE") /\ pending = None
  /\ UNCHANGED <<aclog, open, toAclog, pc, state, pending, outcome, moved, faults>>

(* is_aclog_full_record_response is false of an answer that names no call, date
   or time: whatever is pending stays so. *)
ReadNoRecords ==
  /\ Receive("NORECORDS")
  /\ refused' = IF pending = None THEN refused ELSE refused \cup {pending.contact}
  /\ UNCHANGED <<aclog, open, toAclog, pc, state, pending, imported, skipped, lost, moved, faults>>

(* Mutant: a contact no record matches waits for a later answer. *)
ReadFullRecordsPatiently ==
  /\ Receive("LISTRESPONSE")
  /\ pending # None
  /\ IF pending.contact \in Head(toBridge).contacts
     THEN /\ pc' = "ingest"
          /\ pending' = [pending EXCEPT
                !.note = OrElse(log[pending.contact].note, OrElse(@, state.note))]
     ELSE UNCHANGED <<pc, pending>>
  /\ UNCHANGED <<aclog, open, toAclog, state, outcome, moved, faults>>

(* _handle_message on the records that answer LIST *)
ReadFullRecords ==
  /\ Receive("LISTRESPONSE")
  /\ pending # None
  /\ LET c == pending.contact IN
     IF c \in Head(toBridge).contacts                  \* aclog_records_match
     THEN /\ pc' = "ingest"                            \* merge_aclog_records
          /\ pending' = [pending EXCEPT !.note = OrElse(log[c].note, OrElse(@, state.note))]
          /\ UNCHANGED skipped
     ELSE /\ skipped' = Skip(pending, "nomatch")
          /\ pending' = None /\ UNCHANGED pc
  /\ UNCHANGED <<aclog, open, toAclog, state, imported, lost, refused, moved, faults>>

(* match_aclog_operator_identity: the first station identity there is decides,
   and only without one does the OPERATOR field. *)
Matched(mycall, setupCall, operator) ==
  IF mycall # NoCall THEN mycall \in {Operator, Station}
  ELSE IF setupCall # NoCall THEN setupCall \in {Operator, Station}
  ELSE operator = Operator

(* Mutant: the contact stays pending after it was imported. *)
ImportAndKeep ==
  /\ pc = "ingest" /\ pc' = "read"
  /\ LET r == log[pending.contact] IN
     \/ /\ Matched(r.mycall, state.setup, r.operator)
        /\ imported' = Append(imported, pending) /\ UNCHANGED skipped
     \/ /\ ~Matched(r.mycall, state.setup, r.operator)
        /\ skipped' = Skip(pending, "identity") /\ UNCHANGED imported
     \/ skipped' = Skip(pending, "user_unavailable") /\ UNCHANGED imported
  /\ UNCHANGED <<aclog, wire, state, lost, refused, moved, pending, faults>>

(* _ingest_aclog_record *)
Import ==
  /\ pc = "ingest" /\ pc' = "read" /\ pending' = None
  /\ LET r == log[pending.contact] IN
     \/ /\ Matched(r.mycall, state.setup, r.operator)
        /\ imported' = Append(imported, pending) /\ UNCHANGED skipped
     \/ /\ ~Matched(r.mycall, state.setup, r.operator)
        /\ skipped' = Skip(pending, "identity") /\ UNCHANGED imported
     \/ skipped' = Skip(pending, "user_unavailable") /\ UNCHANGED imported
  /\ UNCHANGED <<aclog, wire, state, lost, refused, moved, faults>>

(* Mutant: the slot survives the connection. *)
ReadEndOfFileAndKeep ==
  /\ pc = "read" /\ toBridge = <<>> /\ ~open
  /\ skipped' = Skip(pending, "disconnected")
  /\ pc' = "dial"
  /\ UNCHANGED <<aclog, wire, state, imported, lost, refused, moved, pending, faults>>

ReadEndOfFile ==
  /\ pc = "read" /\ toBridge = <<>> /\ ~open
  /\ skipped' = Skip(pending, "disconnected")
  /\ pending' = None /\ pc' = "dial"
  /\ UNCHANGED <<aclog, wire, state, imported, lost, refused, moved, faults>>

(* readline, drain, the database or ingestion raises: the connection is closed
   and the pending contact goes with the local variable, without a log entry. *)
Fail ==
  /\ pc # "dial" /\ faults < MaxFaults /\ faults' = faults + 1
  /\ lost' = IF pending = None THEN lost ELSE lost \cup {pending.contact}
  /\ pending' = None /\ pc' = "dial"
  /\ open' = FALSE /\ toAclog' = <<>> /\ toBridge' = <<>>
  /\ UNCHANGED <<aclog, state, imported, skipped, refused, moved>>

-----------------------------------------------------------------------------

ReadMessage ==
  \/ ReadUpdate \/ ReadSettings \/ ReadEnterEvent \/ ReadLateAnswer \/ ReadFullRecords
  \/ ReadNoRecords

Run == Connect \/ ReadMessage \/ RequestFullRecord \/ Import \/ ReadEndOfFile

UseAclog ==
  \/ TypeNote
  \/ \E id \in Identity : SaveContact(id)
  \/ \E c \in Contact : AmendContact(c)
  \/ \E call \in SetupCall : ChangeSetup(call)

Next == Run \/ Fail \/ UseAclog \/ Answer \/ AnswerWithoutRecord \/ HangUp

Spec == Init /\ [][Next]_vars

(* The event loop runs the client and ACLog answers what it is asked. *)
FairSpec == Spec /\ WF_vars(Run) /\ WF_vars(Answer)

-----------------------------------------------------------------------------
(* Properties *)

TypeOK ==
  /\ log \in Seq([mycall : MaybeCall, operator : MaybeCall, setup : MaybeCall,
                  note : Contact \cup {Blank}])
  /\ Len(log) <= MaxContacts
  /\ box \in {Blank, Len(log) + 1} /\ setup \in SetupCall
  /\ amended \subseteq 1..Len(log)
  /\ open \in BOOLEAN /\ toBridge \in Seq(Message)
  /\ toAclog \in Seq({"LIST", "GETUSERSETTINGS"})
  /\ pc \in {"dial", "read", "delay", "ingest"}
  /\ state \in [setup : MaybeCall, note : Contact \cup {Blank}]
  /\ pending \in {None} \cup [contact : 1..Len(log), note : Contact \cup {Blank}]
  /\ pc \in {"delay", "ingest"} => pending # None
  /\ pc = "dial" => pending = None
  /\ imported \in Seq([contact : 1..Len(log), note : Contact \cup {Blank}])
  /\ skipped \subseteq (1..Len(log)) \X
       {"overtaken", "nomatch", "identity", "user_unavailable", "disconnected"}
  /\ lost \subseteq 1..Len(log) /\ refused \subseteq 1..Len(log)
  /\ moved \in BOOLEAN /\ moves \in 0..MaxMoves /\ faults \in 0..MaxFaults

Imported == {imported[i].contact : i \in DOMAIN imported}
Skipped == {s[1] : s \in skipped}
Decisive == ~open \/ \E i \in DOMAIN toBridge : toBridge[i].type \in {"ENTEREVENT", "LISTRESPONSE"}

(* A contact whose announcement was read has one outcome: it is imported, or
   logged as skipped for one reason, or gone with a failed connection.  Those
   imported reach the log in the order they were made and none reaches it
   twice, although one LIST answer repeats what an earlier one carried. *)
OneOutcome ==
  /\ Imported \cap (Skipped \cup lost) = {} /\ Skipped \cap lost = {}
  /\ \A s, t \in skipped : s[1] = t[1] => s = t
  /\ pending # None => pending.contact \notin Imported \cup Skipped \cup lost
  /\ \A i, j \in DOMAIN imported : i < j => imported[i].contact < imported[j].contact

(* ACLog's answer always holds the pending contact, whatever else was saved or
   answered meanwhile: "no matching full ACLog record" is only ever said of a
   contact that was edited in ACLog after it was saved.  And the single slot
   gives way to newer contacts only: the newest contact in ACLog's log is never
   the one skipped as overtaken. *)
SkippedForAReason == \A s \in skipped :
  /\ s[2] = "nomatch" => s[1] \in amended
  /\ s[2] = "overtaken" => s[1] < Len(log)

OwnContact(c) == Matched(log[c].mycall, log[c].setup, log[c].operator)

(* A contact's own note goes with it, and where it has none the cache may fill
   in only what was typed since for a later contact: text meant for an earlier
   contact never reaches a later one, although the cache is read twice, with
   announcements, box changes and answers in any order between. *)
NeverAnEarlierNote == \A i \in DOMAIN imported :
  LET r == imported[i] IN
    r.note # log[r.contact].note => log[r.contact].note = Blank /\ r.note > r.contact

(* Who made a contact is decided as ACLog was set up when it was saved: other
   operators' contacts are never imported, unless the setup Call was changed
   on the connection that announced them. *)
ImportsOwnContacts == [][\A i \in DOMAIN imported' \ DOMAIN imported :
  moved \/ OwnContact(imported'[i].contact)]_vars

(* No contact waits for ever for what is on its way: an answer that holds records
   settles the pending contact, whether it is among them or not, and so do the
   next announcement and the end of the connection.  A contact is left waiting
   only where the answer held no record, which the client takes for no answer
   (docs/operator-guide/aclog-bridges.md:16 says the event is skipped), and only
   until one of these comes. *)
PendingIsSettled == \A c \in Contact :
  pending.contact = c ~> \/ c \in Imported \cup Skipped \cup lost
                         \/ c \in refused /\ ~Decisive
=============================================================================
