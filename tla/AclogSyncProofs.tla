--------------------------- MODULE AclogSyncProofs ---------------------------
(***************************************************************************)
(* Proofs about AclogSync, for any contacts, identities, requests and      *)
(* bounds.                                                                 *)
(***************************************************************************)
EXTENDS AclogSync, TLAPS

Labels == {"idle", "dial", "settings", "list", "record", "find", "insert", "done", "failed"}
Ingesting(p) == pc[p] \in {"find", "insert"}

-----------------------------------------------------------------------------
(***************************************************************************)
(* Type correctness.                                                       *)
(***************************************************************************)
LEMMA InitTyped == Init => TypeOK
  <1> SUFFICES ASSUME Init PROVE TypeOK
    OBVIOUS
  <1>1. /\ spent \in [syncs: 0..MaxSyncs, faults: 0..MaxFaults]
        /\ saved \in [Contact -> [call: SetupCall, moves: 0..MaxMoves]]
        /\ logged \in 0..MaxContacts /\ heard \in 0..logged /\ moves \in 0..MaxMoves
        /\ askedAt \in [Sync -> -1..MaxMoves]
    BY SyncAssumption DEF Init
  <1>2. /\ bucket \in [Sync -> [Buckets -> SUBSET Contact]]
        /\ setup \in SetupCall /\ known \in [Sync -> SetupCall]
    BY SyncAssumption DEF Init, NoReport
  <1> QED
    BY <1>1, <1>2 DEF Init, TypeOK, Importer

LEMMA AclogTyped ==
  ASSUME TypeOK, SaveContact \/ \E call \in SetupCall : ChangeSetup(call)
  PROVE  TypeOK'
  <1>1. CASE SaveContact
    <2>1. logged' \in Contact /\ logged' \in 0..MaxContacts /\ heard' \in 0..logged'
      BY <1>1, SyncAssumption DEF SaveContact, TypeOK, Contact
    <2>2. saved' \in [Contact -> [call: SetupCall, moves: 0..MaxMoves]]
      BY <1>1, <2>1 DEF SaveContact, TypeOK
    <2> QED
      BY <1>1, <2>1, <2>2 DEF SaveContact, qsos, answers, TypeOK
  <1>2. ASSUME NEW call \in SetupCall, ChangeSetup(call) PROVE TypeOK'
    <2>1. moves' \in 0..MaxMoves
      BY <1>2, SyncAssumption DEF ChangeSetup, TypeOK
    <2> QED
      BY <1>2, <2>1 DEF ChangeSetup, qsos, answers, TypeOK
  <1> QED
    BY <1>1, <1>2

LEMMA UseTyped ==
  ASSUME TypeOK, NEW d \in Doc, Remove(d) \/ Edit(d)
  PROVE  TypeOK'
  <1>1. /\ active' \subseteq Doc
        /\ kept' \in [Sync -> SUBSET Contact]
        /\ removed' \in [Sync -> SUBSET Contact]
    BY DEF Remove, Edit, TypeOK, Doc, Text
  <1> QED
    BY <1>1 DEF Remove, Edit, aclog, answers, TypeOK

LEMMA BeginTyped ==
  ASSUME TypeOK, NEW s \in Sync, Begin(s)
  PROVE  TypeOK'
  <1>1. spent' \in [syncs: 0..MaxSyncs, faults: 0..MaxFaults]
    <2>1. spent \in [syncs: 0..MaxSyncs, faults: 0..MaxFaults] /\ MaxSyncs \in Nat
      BY SyncAssumption DEF TypeOK
    <2>2. spent.syncs < MaxSyncs /\ spent' = [spent EXCEPT !.syncs = @ + 1]
      BY DEF Begin
    <2> QED
      BY <2>1, <2>2
  <1>2. /\ pc' \in [Importer -> Labels]
        /\ s # Live /\ s \in Importer
        /\ bucket' \in [Sync -> [Buckets -> SUBSET Contact]]
        /\ received' \in [Sync -> SUBSET Contact]
    BY SyncAssumption DEF Begin, Goto, Importer, Labels, NoReport, TypeOK
  <1>3. /\ kept' \in [Sync -> SUBSET Contact]
        /\ removed' \in [Sync -> SUBSET Contact]
        /\ known' \in [Sync -> SetupCall]
        /\ askedAt' \in [Sync -> -1..MaxMoves]
    BY SyncAssumption DEF Begin, Contacts, Doc, TypeOK
  <1>4. /\ pc'[Live] \in {"idle", "find", "insert"}
        /\ \A p \in Importer : current'[p] # NoContact <=> pc'[p] \in {"find", "insert"}
    BY <1>2, SyncAssumption DEF Begin, Goto, Importer, TypeOK
  <1> QED
    BY <1>1, <1>2, <1>3, <1>4 DEF Begin, aclog, TypeOK, Labels

LEMMA ReadTyped ==
  ASSUME TypeOK, NEW s \in Sync,
         Connect(s) \/ GiveUp(s) \/ ReadSettings(s) \/ Report(s)
  PROVE  TypeOK'
  <1>1. /\ pc' \in [Importer -> Labels]
        /\ s # Live /\ s \in Importer
        /\ ~Ingesting(s) /\ pc'[s] \notin {"find", "insert"}
        /\ \A p \in Importer : p # s => pc'[p] = pc[p]
    BY SyncAssumption DEF Connect, GiveUp, ReadSettings, Report, Goto, Importer, Labels,
                          Ingesting, TypeOK
  <1>0. moves \in -1..MaxMoves
    BY SyncAssumption DEF TypeOK
  <1>2. /\ known' \in [Sync -> SetupCall]
        /\ askedAt' \in [Sync -> -1..MaxMoves]
    BY <1>0 DEF Connect, GiveUp, ReadSettings, Report, answers, TypeOK
  <1>3. /\ pc'[Live] \in {"idle", "find", "insert"}
        /\ \A p \in Importer : current'[p] # NoContact <=> pc'[p] \in {"find", "insert"}
    BY <1>1 DEF Connect, GiveUp, ReadSettings, Report, Importer, Ingesting, TypeOK
  <1> QED
    BY <1>1, <1>2, <1>3
    DEF Connect, GiveUp, ReadSettings, Report, aclog, qsos, answers, TypeOK, Labels

LEMMA ReceiveTyped ==
  ASSUME TypeOK, NEW s \in Sync, ReadList(s) \/ ReadEndOfFile(s)
  PROVE  TypeOK'
  <1>0. 1..logged \subseteq Contact
    BY SyncAssumption DEF TypeOK, Contact
  <1>1. PICK cs \in SUBSET Contact : ReceiveRecords(s, cs)
    BY <1>0 DEF ReadList, ReadEndOfFile
  <1>2. /\ pc' \in [Importer -> Labels]
        /\ s # Live /\ s \in Importer
        /\ ~Ingesting(s) /\ pc'[s] = "record"
        /\ \A p \in Importer : p # s => pc'[p] = pc[p]
    BY <1>1, SyncAssumption
    DEF ReadList, ReadEndOfFile, ReceiveRecords, Goto, Importer, Labels, Ingesting, TypeOK
  <1>3. /\ received' \in [Sync -> SUBSET Contact]
        /\ todo' \in [Sync -> SUBSET Contact]
    BY <1>1 DEF ReceiveRecords, TypeOK
  <1>4. /\ pc'[Live] \in {"idle", "find", "insert"}
        /\ \A p \in Importer : current'[p] # NoContact <=> pc'[p] \in {"find", "insert"}
    BY <1>1, <1>2 DEF ReceiveRecords, Importer, Ingesting, TypeOK
  <1> QED
    BY <1>1, <1>2, <1>3, <1>4 DEF ReceiveRecords, aclog, qsos, TypeOK, Labels

LEMMA IdentityIsKnown ==
  ASSUME NEW c, NEW call
  PROVE  Identity(c, call) \in {"matched", "unmatched", "missing"}
  BY DEF Identity

LEMMA CountTyped ==
  ASSUME TypeOK, NEW s \in Sync, NEW b \in Buckets, NEW c \in Contact, Count(s, b, c)
  PROVE  /\ bucket' \in [Sync -> [Buckets -> SUBSET Contact]]
         /\ \A r \in Sync : r # s => bucket'[r] = bucket[r]
         /\ bucket'[s][b] = bucket[s][b] \cup {c}
         /\ \A k \in Buckets : k # b => bucket'[s][k] = bucket[s][k]
  BY DEF Count, TypeOK

\* A record is counted at once, or becomes the current one.
LEMMA Taken ==
  ASSUME TypeOK, NEW s \in Sync, TakeRecord(s)
  PROVE  \E c \in todo[s] :
           /\ c \in Contact /\ c # NoContact
           /\ todo' = [todo EXCEPT ![s] = @ \ {c}]
           /\ pc[s] = "record"
           /\ \/ /\ UNCHANGED <<pc, current>>
                 /\ \E b \in {"missing", "unmatched", "errors"} :
                      /\ Deserves(c, known[s], b)
                      /\ Count(s, b, c)
              \/ /\ Identity(c, known[s]) = "matched"
                 /\ Goto(s, "find")
                 /\ current' = [current EXCEPT ![s] = c]
                 /\ UNCHANGED bucket
  <1>1. PICK c \in todo[s] :
          /\ todo' = [todo EXCEPT ![s] = @ \ {c}]
          /\ LET i == Identity(c, known[s]) IN
             \/ i # "matched" /\ Count(s, i, c) /\ UNCHANGED <<pc, current>>
             \/ i = "matched" /\ Count(s, "errors", c) /\ UNCHANGED <<pc, current>>
             \/ /\ i = "matched"
                /\ current' = [current EXCEPT ![s] = c]
                /\ Goto(s, "find")
                /\ UNCHANGED bucket
    BY DEF TakeRecord
  <1>2. c \in Contact /\ c # NoContact
    BY DEF TypeOK, Contact, NoContact
  <1>3. Identity(c, known[s]) \in {"matched", "unmatched", "missing"}
    BY IdentityIsKnown
  <1> QED
    BY <1>1, <1>2, <1>3 DEF TakeRecord, Deserves

LEMMA TakeTyped ==
  ASSUME TypeOK, NEW s \in Sync, TakeRecord(s)
  PROVE  TypeOK'
  <1>1. PICK c \in todo[s] :
          /\ c \in Contact /\ c # NoContact
          /\ todo' = [todo EXCEPT ![s] = @ \ {c}]
          /\ pc[s] = "record"
          /\ \/ /\ UNCHANGED <<pc, current>>
                /\ \E b \in {"missing", "unmatched", "errors"} : Count(s, b, c)
             \/ /\ Goto(s, "find")
                /\ current' = [current EXCEPT ![s] = c]
                /\ UNCHANGED bucket
    BY Taken
  <1>2. bucket' \in [Sync -> [Buckets -> SUBSET Contact]]
    BY <1>1, CountTyped DEF TypeOK, Buckets
  <1>3. /\ pc' \in [Importer -> Labels]
        /\ current' \in [Importer -> Contact \cup {NoContact}]
        /\ todo' \in [Sync -> SUBSET Contact]
        /\ s # Live /\ s \in Importer
    BY <1>1, SyncAssumption DEF Goto, Importer, Labels, TypeOK
  <1>4. /\ pc'[Live] \in {"idle", "find", "insert"}
        /\ \A p \in Importer : current'[p] # NoContact <=> pc'[p] \in {"find", "insert"}
    BY <1>1, <1>3 DEF Goto, Importer, TypeOK
  <1> QED
    BY <1>2, <1>3, <1>4 DEF TakeRecord, aclog, qsos, answers, TypeOK, Labels

LEMMA AnnounceTyped ==
  ASSUME TypeOK, Announce
  PROVE  TypeOK'
  <1>1. PICK c \in 1..logged :
          heard < c /\ heard' = c /\ current' = [current EXCEPT ![Live] = c]
    BY DEF Announce
  <1>2. c \in Contact /\ c # NoContact /\ heard' \in 0..logged
    BY <1>1, SyncAssumption DEF TypeOK, Contact, NoContact
  <1>3. /\ pc' \in [Importer -> Labels]
        /\ current' \in [Importer -> Contact \cup {NoContact}]
        /\ Live \in Importer
    BY <1>1, <1>2 DEF Announce, Goto, Importer, Labels, TypeOK
  <1>4. /\ pc'[Live] \in {"idle", "find", "insert"}
        /\ \A p \in Importer : current'[p] # NoContact <=> pc'[p] \in {"find", "insert"}
    BY <1>1, <1>2, <1>3 DEF Announce, Goto, TypeOK
  <1> QED
    BY <1>2, <1>3, <1>4 DEF Announce, aclog, qsos, answers, TypeOK, Labels

\* What becomes of an importer whose contact has its outcome.
LEMMA Settled ==
  ASSUME TypeOK, NEW p \in Importer, Ingesting(p), NEW b \in Buckets, Settle(p, b)
  PROVE  /\ pc' \in [Importer -> Labels]
         /\ current' \in [Importer -> Contact \cup {NoContact}]
         /\ bucket' \in [Sync -> [Buckets -> SUBSET Contact]]
         /\ current[p] \in Contact /\ current'[p] = NoContact
         /\ p = Live => pc'[p] = "idle" /\ bucket' = bucket
         /\ p # Live => p \in Sync /\ pc'[p] = "record" /\ Count(p, b, current[p])
         /\ \A q \in Importer : q # p => pc'[q] = pc[q] /\ current'[q] = current[q]
  <1>1. current[p] \in Contact
    BY DEF Ingesting, TypeOK
  <1>2. /\ pc' \in [Importer -> Labels]
        /\ current' \in [Importer -> Contact \cup {NoContact}]
        /\ \A q \in Importer : q # p => pc'[q] = pc[q] /\ current'[q] = current[q]
        /\ current'[p] = NoContact
        /\ pc'[p] = IF p = Live THEN "idle" ELSE "record"
    BY DEF Settle, Goto, TypeOK, Labels
  <1>3. CASE p = Live
    BY <1>1, <1>2, <1>3 DEF Settle, TypeOK
  <1>4. CASE p # Live
    BY <1>1, <1>2, <1>4, CountTyped DEF Settle, Importer
  <1> QED
    BY <1>3, <1>4

LEMMA SettledTyped ==
  ASSUME TypeOK, NEW p \in Importer, Ingesting(p), NEW b \in Buckets, Settle(p, b),
         active' \subseteq Doc, UNCHANGED <<aclog, kept, removed, todo, answers, heard>>,
         spent' \in [syncs: 0..MaxSyncs, faults: 0..MaxFaults]
  PROVE  TypeOK'
  <1>1. /\ pc'[Live] \in {"idle", "find", "insert"}
        /\ \A q \in Importer : current'[q] # NoContact <=> pc'[q] \in {"find", "insert"}
    BY Settled DEF Importer, TypeOK
  <1> QED
    BY <1>1, Settled DEF aclog, answers, TypeOK, Labels

LEMMA NewDocTyped ==
  ASSUME TypeOK, NEW p \in Importer, Ingesting(p), NEW text \in Texts(p)
  PROVE  NewDoc(p, text) \in Doc
  BY DEF NewDoc, Doc, Texts, Text, Ingesting, TypeOK

\* The three outcomes of a call, as far as the log and the report go.
LEMMA Ingested ==
  ASSUME TypeOK, NEW p \in Importer, Ingest(p)
  PROVE  /\ Ingesting(p)
         /\ UNCHANGED <<aclog, kept, removed, todo, answers, heard>>
         /\ active \subseteq active' /\ active' \subseteq Doc
         /\ spent' \in [syncs: 0..MaxSyncs, faults: 0..MaxFaults]
         /\ \/ /\ pc[p] = "find" /\ Twins(current[p]) # {} /\ Settle(p, "present")
            \/ /\ pc[p] = "find" /\ Twins(current[p]) = {} /\ Goto(p, "insert")
               /\ UNCHANGED <<current, bucket>>
            \/ /\ pc[p] = "insert" /\ current[p] \in Contacts(active) /\ Settle(p, "present")
            \/ /\ pc[p] = "insert" /\ current[p] \in Contacts(active') /\ Settle(p, "imported")
            \/ Settle(p, "errors")
  <1>1. CASE Find(p)
    BY <1>1 DEF Find, qsos, Ingesting, TypeOK
  <1>2. CASE Insert(p)
    <2>1. PICK text \in Texts(p) :
            IF NewDoc(p, text) \in active THEN Settle(p, "present") /\ UNCHANGED active
            ELSE Settle(p, "imported") /\ active' = active \cup {NewDoc(p, text)}
      BY <1>2 DEF Insert
    <2>2. NewDoc(p, text) \in Doc /\ NewDoc(p, text).contact = current[p]
      BY <1>2, NewDocTyped DEF Insert, Ingesting, NewDoc
    <2> QED
      BY <1>2, <2>1, <2>2 DEF Insert, Ingesting, Contacts, TypeOK
  <1>3. CASE Fail(p)
    <2>1. Ingesting(p) /\ spent' \in [syncs: 0..MaxSyncs, faults: 0..MaxFaults]
      BY <1>3, SyncAssumption DEF Fail, Ingesting, TypeOK
    <2>2. active \subseteq active' /\ active' \subseteq Doc
      BY <1>3, <2>1, NewDocTyped DEF Fail, TypeOK
    <2> QED
      BY <1>3, <2>1, <2>2 DEF Fail
  <1> QED
    BY <1>1, <1>2, <1>3 DEF Ingest

LEMMA IngestTyped ==
  ASSUME TypeOK, NEW p \in Importer, Ingest(p)
  PROVE  TypeOK'
  <1>1. CASE Goto(p, "insert") /\ pc[p] = "find" /\ UNCHANGED <<current, bucket>>
    <2>1. /\ pc' \in [Importer -> Labels]
          /\ pc'[Live] \in {"idle", "find", "insert"}
          /\ \A q \in Importer : current'[q] # NoContact <=> pc'[q] \in {"find", "insert"}
      BY <1>1 DEF Goto, TypeOK, Labels, Importer
    <2> QED
      BY <1>1, <2>1, Ingested DEF aclog, answers, TypeOK, Labels
  <1>2. ASSUME NEW b \in Buckets, Settle(p, b) PROVE TypeOK'
    BY <1>2, Ingested, SettledTyped
  <1> QED
    BY <1>1, <1>2, Ingested DEF Buckets

LEMMA NextTyped == TypeOK /\ [Next]_vars => TypeOK'
  <1> SUFFICES ASSUME TypeOK, [Next]_vars PROVE TypeOK'
    OBVIOUS
  <1>1. CASE UseOllog
    BY <1>1, BeginTyped, UseTyped DEF UseOllog
  <1>2. CASE UseAclog
    BY <1>2, AclogTyped DEF UseAclog
  <1>3. ASSUME NEW s \in Sync, Synchronize(s) PROVE TypeOK'
    BY <1>3, ReadTyped, ReceiveTyped, TakeTyped, IngestTyped DEF Synchronize, Importer
  <1>4. CASE Announce \/ Ingest(Live)
    BY <1>4, AnnounceTyped, IngestTyped DEF Importer
  <1>5. CASE UNCHANGED vars
    BY <1>5 DEF vars, TypeOK
  <1> QED
    BY <1>1, <1>2, <1>3, <1>4, <1>5 DEF Next

\* TypeOK holds for every value of the constants.
THEOREM TypeCorrect == Spec => []TypeOK
  BY InitTyped, NextTyped, PTL DEF Spec

-----------------------------------------------------------------------------
(***************************************************************************)
(* What a Sync imports was missing when it began: between find_duplicate   *)
(* and the insert, nothing comes to the contacts that have been in the log *)
(* from the beginning.                                                     *)
(***************************************************************************)
StillThere == \A s \in Sync : kept[s] \subseteq Contacts(active)
InsertsMissing == \A s \in Sync :
  pc[s] = "insert" => \A n \in kept[s] : ~Near(current[s], n)
MissingInv == StillThere /\ InsertsMissing /\ OnlyMissingImported

LEMMA InitMissing == Init => MissingInv
  BY DEF Init, MissingInv, StillThere, InsertsMissing, OnlyMissingImported, NoReport,
         Importer, Buckets

LEMMA SameImports ==
  ASSUME MissingInv, TypeOK, Contacts(active) \subseteq Contacts(active'), UNCHANGED kept,
         \A s \in Sync : /\ bucket'[s]["imported"] = bucket[s]["imported"]
                         /\ pc'[s] = "insert" => pc[s] = "insert" /\ current'[s] = current[s]
  PROVE  MissingInv'
  BY DEF MissingInv, StillThere, InsertsMissing, OnlyMissingImported, Near

LEMMA UseMissing ==
  ASSUME MissingInv, TypeOK, NEW d \in Doc, Remove(d) \/ Edit(d)
  PROVE  MissingInv'
  <1>1. CASE Remove(d)
    <2>1. \A s \in Sync : kept'[s] = kept[s] \cap Contacts(active')
      BY <1>1 DEF Remove
    <2> QED
      BY <1>1, <2>1 DEF Remove, MissingInv, StillThere, InsertsMissing, OnlyMissingImported, Near
  <1>2. CASE Edit(d)
    <2>1. Contacts(active) \subseteq Contacts(active')
      <3>1. PICK e : e.contact = d.contact /\ active' = (active \ {d}) \cup {e}
        BY <1>2 DEF Edit, Doc
      <3> QED
        BY <3>1 DEF Contacts
    <2> QED
      BY <1>2, <2>1, SameImports DEF Edit
  <1> QED
    BY <1>1, <1>2

LEMMA BeginMissing ==
  ASSUME MissingInv, TypeOK, NEW s \in Sync, Begin(s)
  PROVE  MissingInv'
  <1>1. /\ \A r \in Sync : r # s => /\ kept'[r] = kept[r] /\ bucket'[r] = bucket[r]
                                    /\ pc'[r] = pc[r]
        /\ kept'[s] = Contacts(active) /\ bucket'[s] = NoReport /\ pc'[s] = "dial"
        /\ active' = active /\ current' = current
    BY DEF Begin, Goto, TypeOK, Importer
  <1> QED
    BY <1>1 DEF MissingInv, StillThere, InsertsMissing, OnlyMissingImported, NoReport,
                Buckets, Near

LEMMA ReadMissing ==
  ASSUME MissingInv, TypeOK, NEW s \in Sync,
         \/ Connect(s) \/ GiveUp(s) \/ ReadSettings(s) \/ Report(s)
         \/ ReadList(s) \/ ReadEndOfFile(s)
  PROVE  MissingInv'
  <1>1. /\ UNCHANGED <<active, kept, bucket, current>>
        /\ pc'[s] # "insert"
        /\ \A r \in Sync : r # s => pc'[r] = pc[r]
    BY DEF Connect, GiveUp, ReadSettings, Report, ReadList, ReadEndOfFile, ReceiveRecords,
           qsos, Goto, TypeOK, Importer
  <1> QED
    BY <1>1, SameImports

LEMMA TakeMissing ==
  ASSUME MissingInv, TypeOK, NEW s \in Sync, TakeRecord(s)
  PROVE  MissingInv'
  <1>1. PICK c \in Contact :
          /\ pc[s] = "record"
          /\ \/ /\ UNCHANGED <<pc, current>>
                /\ \E b \in {"missing", "unmatched", "errors"} : Count(s, b, c)
             \/ /\ Goto(s, "find")
                /\ current' = [current EXCEPT ![s] = c]
                /\ UNCHANGED bucket
    BY Taken
  <1>2. \A r \in Sync : bucket'[r]["imported"] = bucket[r]["imported"]
    BY <1>1, CountTyped DEF Buckets
  <1>3. \A r \in Sync : pc'[r] = "insert" => pc[r] = "insert" /\ current'[r] = current[r]
    BY <1>1 DEF Goto, TypeOK, Importer
  <1> QED
    BY <1>2, <1>3, SameImports DEF TakeRecord, qsos

LEMMA IngestMissing ==
  ASSUME MissingInv, TypeOK, NEW p \in Importer, Ingest(p)
  PROVE  MissingInv'
  <1>1. /\ kept' = kept
        /\ Contacts(active) \subseteq Contacts(active')
    BY Ingested DEF Contacts
  <1>2. CASE pc[p] = "find" /\ Twins(current[p]) = {} /\ Goto(p, "insert")
             /\ UNCHANGED <<current, bucket>>
    <2>1. \A n \in Contacts(active) : ~Near(current[p], n)
      BY <1>2 DEF Twins, Contacts
    <2>2. \A s \in Sync : s # p => pc'[s] = pc[s]
      BY <1>2 DEF Goto, TypeOK, Importer
    <2> QED
      BY <1>1, <1>2, <2>1, <2>2
      DEF MissingInv, StillThere, InsertsMissing, OnlyMissingImported, Near
  <1>3. ASSUME NEW b \in Buckets, Settle(p, b), b = "imported" => pc[p] = "insert"
        PROVE  MissingInv'
    <2>1. /\ \A s \in Sync : s # p => pc'[s] = pc[s] /\ current'[s] = current[s]
          /\ pc'[p] # "insert"
      BY <1>3, Ingested, Settled DEF Importer
    <2>2. CASE p = Live
      BY <1>1, <1>3, <2>1, <2>2, Ingested, Settled, SameImports
    <2>3. CASE p # Live
      <3>1. p \in Sync /\ current[p] \in Contact
        BY <1>3, <2>3, Ingested, Settled
      <3>2. /\ \A s \in Sync : s # p => bucket'[s] = bucket[s]
            /\ bucket'[p][b] = bucket[p][b] \cup {current[p]}
            /\ \A k \in Buckets : k # b => bucket'[p][k] = bucket[p][k]
        BY <1>3, <2>3, <3>1, Ingested, Settled, CountTyped
      <3>3. CASE b = "imported"
        <4>1. \A n \in kept[p] : ~Near(current[p], n)
          BY <1>3, <3>1, <3>3 DEF MissingInv, InsertsMissing
        <4> QED
          BY <1>1, <2>1, <3>1, <3>2, <3>3, <4>1
          DEF MissingInv, StillThere, InsertsMissing, OnlyMissingImported, Near
      <3>4. CASE b # "imported"
        BY <1>1, <2>1, <3>2, <3>4, SameImports DEF Buckets
      <3> QED
        BY <3>3, <3>4
    <2> QED
      BY <2>2, <2>3
  <1> QED
    BY <1>2, <1>3, Ingested DEF Buckets

LEMMA NextMissing == MissingInv /\ TypeOK /\ [Next]_vars => MissingInv'
  <1> SUFFICES ASSUME MissingInv, TypeOK, [Next]_vars PROVE MissingInv'
    OBVIOUS
  <1>1. CASE UseOllog
    BY <1>1, BeginMissing, UseMissing DEF UseOllog
  <1>2. CASE UseAclog
    BY <1>2, SameImports DEF UseAclog, SaveContact, ChangeSetup, qsos
  <1>3. ASSUME NEW s \in Sync, Synchronize(s) PROVE MissingInv'
    BY <1>3, ReadMissing, TakeMissing, IngestMissing DEF Synchronize, Importer
  <1>4. CASE Announce
    <2>1. \A s \in Sync : pc'[s] = pc[s] /\ current'[s] = current[s]
      BY <1>4, SyncAssumption DEF Announce, Goto, TypeOK, Importer
    <2> QED
      BY <1>4, <2>1, SameImports DEF Announce, qsos
  <1>5. CASE Ingest(Live)
    BY <1>5, IngestMissing DEF Importer
  <1>6. CASE UNCHANGED vars
    BY <1>6, SameImports DEF vars
  <1> QED
    BY <1>1, <1>2, <1>3, <1>4, <1>5, <1>6 DEF Next

\* A Sync only imports what was missing when it began and still is.
THEOREM OnlyTheMissing == Spec => []OnlyMissingImported
  <1>1. MissingInv => OnlyMissingImported
    BY DEF MissingInv
  <1> QED
    BY <1>1, InitMissing, NextMissing, TypeCorrect, PTL DEF Spec

-----------------------------------------------------------------------------
(***************************************************************************)
(* The report counts every record once.                                    *)
(***************************************************************************)
Early == {"idle", "dial", "settings", "list", "failed"}

Accounted(s) ==
  /\ \A c \in Contact : c \in received[s] <=>
       c \in todo[s] \/ c = current[s] \/ \E b \in Buckets : c \in bucket[s][b]
  /\ \A b \in Buckets : todo[s] \cap bucket[s][b] = {} /\ current[s] \notin bucket[s][b]
  /\ current[s] \notin todo[s]
  /\ \A b, k \in Buckets : b # k => bucket[s][b] \cap bucket[s][k] = {}
  /\ pc[s] \in Early \cup {"done"} => todo[s] = {}
  /\ pc[s] \in Early => \A b \in Buckets : bucket[s][b] = {}

AccountInv == \A s \in Sync : Accounted(s)

LEMMA InitAccounted == Init => AccountInv
  BY DEF Init, AccountInv, Accounted, NoReport, Importer, Contact, NoContact, Early

\* A Sync that nothing happens to, or that only waits for something else.
LEMMA SameAccount ==
  ASSUME NEW s \in Sync, Accounted(s),
         todo'[s] = todo[s], bucket'[s] = bucket[s], received'[s] = received[s],
         current'[s] = current[s],
         pc'[s] \in Early \cup {"done"} => pc[s] \in Early \cup {"done"} \/ todo[s] = {},
         pc'[s] \in Early => pc[s] \in Early
  PROVE  Accounted(s)'
  BY DEF Accounted

LEMMA BeginAccounted ==
  ASSUME AccountInv, TypeOK, NEW s \in Sync, Begin(s)
  PROVE  AccountInv'
  <1>1. \A r \in Sync \ {s} : /\ received'[r] = received[r] /\ bucket'[r] = bucket[r]
                              /\ pc'[r] = pc[r]
    BY DEF Begin, Goto, TypeOK, Importer
  <1>2. \A r \in Sync \ {s} : Accounted(r)'
    BY <1>1, SameAccount DEF Begin, AccountInv
  <1>3. Accounted(s)'
    <2>1. todo'[s] = {} /\ current'[s] = NoContact
      BY DEF Begin, AccountInv, Accounted, Early, TypeOK, Importer
    <2>2. /\ received'[s] = {} /\ pc'[s] = "dial"
          /\ \A b \in Buckets : bucket'[s][b] = {}
      BY DEF Begin, Goto, NoReport, TypeOK, Importer
    <2> QED
      BY <2>1, <2>2 DEF Accounted, Contact, NoContact
  <1> QED
    BY <1>2, <1>3 DEF AccountInv

LEMMA WaitAccounted ==
  ASSUME AccountInv, TypeOK, NEW s \in Sync,
         Connect(s) \/ GiveUp(s) \/ ReadSettings(s) \/ Report(s)
  PROVE  AccountInv'
  <1>1. /\ UNCHANGED <<todo, current, received, bucket>>
        /\ \A r \in Sync \ {s} : pc'[r] = pc[r]
        /\ pc'[s] \in Early => pc[s] \in Early
        /\ pc'[s] = "done" => todo[s] = {}
    BY DEF Connect, GiveUp, ReadSettings, Report, answers, Goto, TypeOK, Importer, Early
  <1> QED
    BY <1>1, SameAccount DEF AccountInv, Early

LEMMA ReceiveAccounted ==
  ASSUME AccountInv, TypeOK, NEW s \in Sync, ReadList(s) \/ ReadEndOfFile(s)
  PROVE  AccountInv'
  <1>0. 1..logged \subseteq Contact
    BY SyncAssumption DEF TypeOK, Contact
  <1>1. PICK cs \in SUBSET Contact : ReceiveRecords(s, cs)
    BY <1>0 DEF ReadList, ReadEndOfFile
  <1>2. pc[s] \in Early /\ current[s] = NoContact
    BY DEF ReadList, ReadEndOfFile, Early, TypeOK, Importer
  <1>3. /\ received'[s] = cs /\ todo'[s] = cs /\ pc'[s] = "record"
        /\ current'[s] = NoContact /\ bucket'[s] = bucket[s]
    BY <1>1, <1>2 DEF ReceiveRecords, Goto, TypeOK, Importer
  <1>4. \A r \in Sync \ {s} : Accounted(r)'
    <2>1. \A r \in Sync \ {s} : received'[r] = received[r] /\ todo'[r] = todo[r] /\ pc'[r] = pc[r]
      BY <1>1 DEF ReceiveRecords, Goto, TypeOK, Importer
    <2> QED
      BY <1>1, <2>1, SameAccount DEF ReceiveRecords, AccountInv
  <1>5. Accounted(s)'
    <2>1. \A b \in Buckets : bucket'[s][b] = {}
      BY <1>2, <1>3 DEF AccountInv, Accounted
    <2> QED
      BY <1>3, <2>1 DEF Accounted, Early, Contact, NoContact
  <1> QED
    BY <1>4, <1>5 DEF AccountInv

LEMMA TakeAccounted ==
  ASSUME AccountInv, TypeOK, NEW s \in Sync, TakeRecord(s)
  PROVE  AccountInv'
  <1>1. PICK c \in todo[s] :
          /\ c \in Contact /\ c # NoContact
          /\ todo' = [todo EXCEPT ![s] = @ \ {c}]
          /\ pc[s] = "record"
          /\ \/ /\ UNCHANGED <<pc, current>>
                /\ \E b \in {"missing", "unmatched", "errors"} : Count(s, b, c)
             \/ /\ Goto(s, "find")
                /\ current' = [current EXCEPT ![s] = c]
                /\ UNCHANGED bucket
    BY Taken
  <1>2. /\ todo'[s] = todo[s] \ {c} /\ current[s] = NoContact /\ received' = received
        /\ \A r \in Sync \ {s} : todo'[r] = todo[r]
    BY <1>1 DEF TakeRecord, answers, TypeOK, Importer
  <1>3. CASE UNCHANGED <<pc, current>> /\
             \E b \in {"missing", "unmatched", "errors"} : Count(s, b, c)
    <2>1. PICK b \in Buckets : Count(s, b, c)
      BY <1>3 DEF Buckets
    <2>2. /\ \A r \in Sync \ {s} : bucket'[r] = bucket[r]
          /\ bucket'[s][b] = bucket[s][b] \cup {c}
          /\ \A k \in Buckets : k # b => bucket'[s][k] = bucket[s][k]
      BY <1>1, <2>1, CountTyped
    <2>3. \A r \in Sync \ {s} : Accounted(r)'
      BY <1>2, <1>3, <2>2, SameAccount DEF AccountInv
    <2>4. Accounted(s)'
      <3>1. Accounted(s)
        BY DEF AccountInv
      <3> QED
        BY <1>1, <1>2, <1>3, <2>2, <3>1 DEF Accounted, Early
    <2> QED
      BY <2>3, <2>4 DEF AccountInv
  <1>4. CASE Goto(s, "find") /\ current' = [current EXCEPT ![s] = c] /\ UNCHANGED bucket
    <2>1. /\ \A r \in Sync \ {s} : pc'[r] = pc[r] /\ current'[r] = current[r]
          /\ pc'[s] = "find" /\ current'[s] = c
      BY <1>4 DEF Goto, TypeOK, Importer
    <2>2. \A r \in Sync \ {s} : Accounted(r)'
      BY <1>2, <1>4, <2>1, SameAccount DEF AccountInv
    <2>3. Accounted(s)'
      <3>1. Accounted(s)
        BY DEF AccountInv
      <3> QED
        BY <1>1, <1>2, <1>4, <2>1, <3>1 DEF Accounted, Early, Contact, NoContact
    <2> QED
      BY <2>2, <2>3 DEF AccountInv
  <1> QED
    BY <1>1, <1>3, <1>4

LEMMA IngestAccounted ==
  ASSUME AccountInv, TypeOK, NEW p \in Importer, Ingest(p)
  PROVE  AccountInv'
  <1>1. Ingesting(p) /\ UNCHANGED <<todo, received>>
    BY Ingested DEF answers
  <1>2. CASE pc[p] = "find" /\ Goto(p, "insert") /\ UNCHANGED <<current, bucket>>
    <2>1. \A s \in Sync : pc'[s] = pc[s] \/ (pc[s] = "find" /\ pc'[s] = "insert")
      BY <1>2 DEF Goto, TypeOK, Importer
    <2> QED
      BY <1>1, <1>2, <2>1, SameAccount DEF AccountInv, Early
  <1>3. ASSUME NEW b \in Buckets, Settle(p, b) PROVE AccountInv'
    <2>1. \A s \in Sync \ {p} : pc'[s] = pc[s] /\ current'[s] = current[s]
      BY <1>1, <1>3, Settled DEF Importer
    <2>2. CASE p = Live
      BY <1>1, <1>3, <2>1, <2>2, Settled, SameAccount, SyncAssumption DEF AccountInv
    <2>3. CASE p # Live
      <3>1. /\ p \in Sync /\ current[p] \in Contact /\ current'[p] = NoContact
            /\ pc'[p] = "record"
        BY <1>1, <1>3, <2>3, Settled
      <3>2. /\ \A s \in Sync \ {p} : bucket'[s] = bucket[s]
            /\ bucket'[p][b] = bucket[p][b] \cup {current[p]}
            /\ \A k \in Buckets : k # b => bucket'[p][k] = bucket[p][k]
            /\ bucket' \in [Sync -> [Buckets -> SUBSET Contact]]
        BY <1>1, <1>3, <2>3, <3>1, Settled, CountTyped
      <3>3. \A s \in Sync \ {p} : Accounted(s)'
        BY <1>1, <2>1, <3>2, SameAccount DEF AccountInv
      <3>4. Accounted(p)'
        <4>1. Accounted(p) /\ todo[p] \subseteq Contact
          BY <3>1 DEF AccountInv, TypeOK
        <4>2. \A k \in Buckets : NoContact \notin bucket'[p][k]
          BY <3>1, <3>2 DEF Contact, NoContact
        <4> QED
          BY <1>1, <3>1, <3>2, <4>1, <4>2 DEF Accounted, Early, Contact, NoContact
      <3> QED
        BY <3>3, <3>4 DEF AccountInv
    <2> QED
      BY <2>2, <2>3
  <1> QED
    BY <1>2, <1>3, Ingested DEF Buckets

LEMMA NextAccounted == AccountInv /\ TypeOK /\ [Next]_vars => AccountInv'
  <1> SUFFICES ASSUME AccountInv, TypeOK, [Next]_vars PROVE AccountInv'
    OBVIOUS
  <1>1. CASE UseOllog
    <2>1. ASSUME NEW d \in Doc, Remove(d) \/ Edit(d) PROVE AccountInv'
      BY <2>1, SameAccount DEF Remove, Edit, answers, AccountInv
    <2> QED
      BY <1>1, <2>1, BeginAccounted DEF UseOllog
  <1>2. CASE UseAclog
    BY <1>2, SameAccount DEF UseAclog, SaveContact, ChangeSetup, answers, AccountInv
  <1>3. ASSUME NEW s \in Sync, Synchronize(s) PROVE AccountInv'
    BY <1>3, WaitAccounted, ReceiveAccounted, TakeAccounted, IngestAccounted
    DEF Synchronize, Importer
  <1>4. CASE Announce
    <2>1. \A s \in Sync : pc'[s] = pc[s] /\ current'[s] = current[s]
      BY <1>4, SyncAssumption DEF Announce, Goto, TypeOK, Importer
    <2> QED
      BY <1>4, <2>1, SameAccount DEF Announce, answers, AccountInv
  <1>5. CASE Ingest(Live)
    BY <1>5, IngestAccounted DEF Importer
  <1>6. CASE UNCHANGED vars
    BY <1>6, SameAccount DEF vars, AccountInv
  <1> QED
    BY <1>1, <1>2, <1>3, <1>4, <1>5, <1>6 DEF Next

-----------------------------------------------------------------------------
(***************************************************************************)
(* What the report says is there is there, or was removed.                 *)
(***************************************************************************)
Present(s, c) == \E n \in Contacts(active) \cup removed[s] : Near(c, n)

PresentInv == \A s \in Sync :
  \A c \in bucket[s]["imported"] \cup bucket[s]["present"] : Present(s, c)

LEMMA InitPresent == Init => PresentInv
  BY DEF Init, PresentInv, NoReport, Buckets

LEMMA NearItself == ASSUME NEW c \in Contact PROVE Near(c, c)
  BY SyncAssumption DEF Near

LEMMA SamePresence ==
  ASSUME PresentInv, Contacts(active) \subseteq Contacts(active'), UNCHANGED removed,
         \A s \in Sync : /\ bucket'[s]["imported"] = bucket[s]["imported"]
                         /\ bucket'[s]["present"] = bucket[s]["present"]
  PROVE  PresentInv'
  BY DEF PresentInv, Present, Near

LEMMA UsePresent ==
  ASSUME PresentInv, TypeOK, NEW d \in Doc, Remove(d) \/ Edit(d)
  PROVE  PresentInv'
  <1>1. CASE Remove(d)
    <2>1. \A s \in Sync : removed'[s] = removed[s] \cup {d.contact}
      BY <1>1 DEF Remove
    <2>2. Contacts(active) \subseteq Contacts(active') \cup {d.contact}
      BY <1>1 DEF Remove, Contacts
    <2>3. bucket' = bucket
      BY <1>1 DEF Remove
    <2>4. ASSUME NEW s \in Sync,
                 NEW c \in bucket[s]["imported"] \cup bucket[s]["present"]
          PROVE  Present(s, c)'
      <3>1. PICK n \in Contacts(active) \cup removed[s] : Near(c, n)
        BY <2>4 DEF PresentInv, Present
      <3>2. n \in Contacts(active') \cup removed'[s]
        BY <2>1, <2>2
      <3> QED
        BY <3>1, <3>2 DEF Present, Near
    <2> QED
      BY <2>3, <2>4 DEF PresentInv
  <1>2. CASE Edit(d)
    <2>1. Contacts(active) \subseteq Contacts(active')
      <3>1. PICK e : e.contact = d.contact /\ active' = (active \ {d}) \cup {e}
        BY <1>2 DEF Edit, Doc
      <3> QED
        BY <3>1 DEF Contacts
    <2> QED
      BY <1>2, <2>1, SamePresence DEF Edit
  <1> QED
    BY <1>1, <1>2

LEMMA BeginPresent ==
  ASSUME PresentInv, TypeOK, NEW s \in Sync, Begin(s)
  PROVE  PresentInv'
  <1>1. /\ \A r \in Sync \ {s} : bucket'[r] = bucket[r] /\ removed'[r] = removed[r]
        /\ \A b \in Buckets : bucket'[s][b] = {}
        /\ active' = active
    BY DEF Begin, NoReport, TypeOK
  <1> QED
    BY <1>1 DEF PresentInv, Present, Near, Buckets

LEMMA IngestPresent ==
  ASSUME PresentInv, TypeOK, NEW p \in Importer, Ingest(p)
  PROVE  PresentInv'
  <1>1. /\ removed' = removed /\ Ingesting(p)
        /\ Contacts(active) \subseteq Contacts(active')
    BY Ingested DEF Contacts
  <1>2. CASE UNCHANGED bucket
    BY <1>1, <1>2, SamePresence
  <1>3. ASSUME NEW b \in Buckets, Settle(p, b),
               b \in {"imported", "present"} =>
                 \E n \in Contacts(active') : Near(current[p], n)
        PROVE  PresentInv'
    <2>1. CASE p = Live
      BY <1>1, <1>2, <1>3, <2>1, Settled
    <2>2. CASE p # Live
      <3>1. p \in Sync /\ current[p] \in Contact
        BY <1>1, <1>3, <2>2, Settled
      <3>2. /\ \A s \in Sync : s # p => bucket'[s] = bucket[s]
            /\ bucket'[p][b] = bucket[p][b] \cup {current[p]}
            /\ \A k \in Buckets : k # b => bucket'[p][k] = bucket[p][k]
        BY <1>1, <1>3, <2>2, <3>1, Settled, CountTyped
      <3>3. ASSUME NEW s \in Sync,
                   NEW c \in bucket'[s]["imported"] \cup bucket'[s]["present"]
            PROVE  Present(s, c)'
        <4>1. CASE c \in bucket[s]["imported"] \cup bucket[s]["present"]
          BY <1>1, <4>1 DEF PresentInv, Present, Near
        <4>2. CASE c \notin bucket[s]["imported"] \cup bucket[s]["present"]
          <5>1. s = p /\ c = current[p] /\ b \in {"imported", "present"}
            BY <3>2, <4>2 DEF Buckets
          <5> QED
            BY <1>3, <5>1 DEF Present, Near
        <4> QED
          BY <4>1, <4>2
      <3> QED
        BY <3>3 DEF PresentInv
    <2> QED
      BY <2>1, <2>2
  <1>4. ASSUME Twins(current[p]) # {} PROVE \E n \in Contacts(active') : Near(current[p], n)
    BY <1>1, <1>4 DEF Twins, Contacts
  <1>5. ASSUME current[p] \in Contacts(active')
        PROVE  \E n \in Contacts(active') : Near(current[p], n)
    BY <1>1, <1>5, NearItself DEF Ingesting, TypeOK
  <1> QED
    BY <1>1, <1>2, <1>3, <1>4, <1>5, Ingested DEF Buckets

LEMMA NextPresent == PresentInv /\ TypeOK /\ [Next]_vars => PresentInv'
  <1> SUFFICES ASSUME PresentInv, TypeOK, [Next]_vars PROVE PresentInv'
    OBVIOUS
  <1>1. CASE UseOllog
    BY <1>1, UsePresent, BeginPresent DEF UseOllog
  <1>2. CASE UseAclog
    BY <1>2, SamePresence DEF UseAclog, SaveContact, ChangeSetup, qsos
  <1>3. ASSUME NEW s \in Sync, Synchronize(s) PROVE PresentInv'
    <2>1. CASE \/ Connect(s) \/ GiveUp(s) \/ ReadSettings(s) \/ Report(s)
               \/ ReadList(s) \/ ReadEndOfFile(s)
      BY <2>1, SamePresence
      DEF Connect, GiveUp, ReadSettings, Report, ReadList, ReadEndOfFile, ReceiveRecords, qsos
    <2>2. CASE TakeRecord(s)
      <3>1. \A r \in Sync : /\ bucket'[r]["imported"] = bucket[r]["imported"]
                            /\ bucket'[r]["present"] = bucket[r]["present"]
        BY <2>2, Taken, CountTyped DEF Buckets
      <3> QED
        BY <2>2, <3>1, SamePresence DEF TakeRecord, qsos
    <2> QED
      BY <1>3, <2>1, <2>2, IngestPresent DEF Synchronize, Importer
  <1>4. CASE Announce
    BY <1>4, SamePresence DEF Announce, qsos
  <1>5. CASE Ingest(Live)
    BY <1>5, IngestPresent DEF Importer
  <1>6. CASE UNCHANGED vars
    BY <1>6, SamePresence DEF vars
  <1> QED
    BY <1>1, <1>2, <1>3, <1>4, <1>5, <1>6 DEF Next

-----------------------------------------------------------------------------
(***************************************************************************)
(* Whose a contact is.  Between two changes of the setup Call everybody is *)
(* told the same one; a Sync judges all its records by the one it was      *)
(* told, or by none.                                                       *)
(***************************************************************************)
CallsAgree ==
  /\ \A c \in Contact : saved[c].moves <= moves
  /\ \A c \in Contact : saved[c].moves = moves => saved[c].call = setup
  /\ \A s \in Sync : askedAt[s] <= moves
  /\ \A s \in Sync : askedAt[s] = moves => known[s] = setup
  /\ \A s \in Sync, c \in Contact : askedAt[s] = saved[c].moves => known[s] = saved[c].call
  /\ \A s \in Sync : askedAt[s] = -1 => known[s] = NoCall

JudgedByKnown == \A s \in Sync :
  /\ pc[s] \in {"find", "insert"} => Identity(current[s], known[s]) = "matched"
  /\ \A b \in Buckets : \A c \in bucket[s][b] : Deserves(c, known[s], b)

JudgedInv == CallsAgree /\ JudgedByKnown

LEMMA InitJudged == Init => JudgedInv
  BY DEF Init, JudgedInv, CallsAgree, JudgedByKnown, NoReport, Importer, Buckets

LEMMA SameJudgement ==
  ASSUME JudgedByKnown, UNCHANGED <<known, bucket>>,
         \A s \in Sync : pc'[s] \in {"find", "insert"} =>
           pc[s] \in {"find", "insert"} /\ current'[s] = current[s]
  PROVE  JudgedByKnown'
  BY DEF JudgedByKnown, Deserves, Identity

LEMMA SameCalls ==
  ASSUME CallsAgree, UNCHANGED <<saved, moves, setup, askedAt, known>>
  PROVE  CallsAgree'
  BY DEF CallsAgree

LEMMA AclogJudged ==
  ASSUME JudgedInv, TypeOK, UseAclog
  PROVE  JudgedInv'
  <1>1. CASE SaveContact
    <2>1. \A c \in Contact : saved'[c] = saved[c] \/ saved'[c] = [call |-> setup, moves |-> moves]
      BY <1>1 DEF SaveContact, TypeOK
    <2>2. CallsAgree'
      BY <1>1, <2>1, SyncAssumption DEF SaveContact, answers, JudgedInv, CallsAgree, TypeOK
    <2> QED
      BY <1>1, <2>2, SameJudgement DEF SaveContact, answers, JudgedInv
  <1>2. ASSUME NEW call \in SetupCall, ChangeSetup(call) PROVE JudgedInv'
    <2>1. /\ moves \in Nat /\ moves' = moves + 1
          /\ \A c \in Contact : saved[c].moves \in Nat
          /\ \A s \in Sync : askedAt[s] \in Int
      BY <1>2, SyncAssumption DEF ChangeSetup, TypeOK
    <2>2. CallsAgree'
      BY <1>2, <2>1 DEF ChangeSetup, answers, JudgedInv, CallsAgree
    <2> QED
      BY <1>2, <2>2, SameJudgement DEF ChangeSetup, answers, JudgedInv
  <1> QED
    BY <1>1, <1>2 DEF UseAclog

LEMMA BeginJudged ==
  ASSUME JudgedInv, TypeOK, NEW s \in Sync, Begin(s)
  PROVE  JudgedInv'
  <1>1. /\ \A r \in Sync \ {s} : /\ known'[r] = known[r] /\ askedAt'[r] = askedAt[r]
                                 /\ bucket'[r] = bucket[r] /\ pc'[r] = pc[r]
        /\ known'[s] = NoCall /\ askedAt'[s] = -1 /\ pc'[s] = "dial"
        /\ \A b \in Buckets : bucket'[s][b] = {}
        /\ UNCHANGED <<saved, moves, setup, current>>
    BY DEF Begin, Goto, NoReport, aclog, TypeOK, Importer
  <1>2. moves \in Nat /\ \A c \in Contact : saved[c].moves \in Nat
    BY SyncAssumption DEF TypeOK
  <1>3. CallsAgree'
    BY <1>1, <1>2 DEF JudgedInv, CallsAgree
  <1>4. JudgedByKnown'
    BY <1>1 DEF JudgedInv, JudgedByKnown, Deserves, Identity
  <1> QED
    BY <1>3, <1>4 DEF JudgedInv

LEMMA SettingsJudged ==
  ASSUME JudgedInv, AccountInv, TypeOK, NEW s \in Sync, ReadSettings(s)
  PROVE  JudgedInv'
  <1>1. /\ \A r \in Sync \ {s} : /\ known'[r] = known[r] /\ askedAt'[r] = askedAt[r]
                                 /\ pc'[r] = pc[r]
        /\ pc[s] = "settings" /\ pc'[s] = "list"
        /\ \/ known'[s] = setup /\ askedAt'[s] = moves
           \/ known'[s] = known[s] /\ askedAt'[s] = askedAt[s]
        /\ UNCHANGED <<saved, moves, setup, current, bucket>>
    BY DEF ReadSettings, Goto, aclog, TypeOK, Importer
  <1>2. moves \in Nat /\ \A c \in Contact : saved[c].moves \in Nat
    BY SyncAssumption DEF TypeOK
  <1>3. CallsAgree'
    BY <1>1, <1>2 DEF JudgedInv, CallsAgree
  <1>4. \A b \in Buckets : bucket[s][b] = {}
    BY <1>1 DEF AccountInv, Accounted, Early
  <1>5. JudgedByKnown'
    BY <1>1, <1>4 DEF JudgedInv, JudgedByKnown, Deserves, Identity
  <1> QED
    BY <1>3, <1>5 DEF JudgedInv

LEMMA TakeJudged ==
  ASSUME JudgedInv, TypeOK, NEW s \in Sync, TakeRecord(s)
  PROVE  JudgedInv'
  <1>1. PICK c \in todo[s] :
          /\ c \in Contact
          /\ pc[s] = "record"
          /\ \/ /\ UNCHANGED <<pc, current>>
                /\ \E b \in {"missing", "unmatched", "errors"} :
                     Deserves(c, known[s], b) /\ Count(s, b, c)
             \/ /\ Identity(c, known[s]) = "matched"
                /\ Goto(s, "find")
                /\ current' = [current EXCEPT ![s] = c]
                /\ UNCHANGED bucket
    BY Taken
  <1>2. UNCHANGED <<saved, moves, setup, askedAt, known>>
    BY DEF TakeRecord, aclog, answers
  <1>3. CASE UNCHANGED <<pc, current>> /\
             \E b \in {"missing", "unmatched", "errors"} :
                Deserves(c, known[s], b) /\ Count(s, b, c)
    <2>1. PICK b \in Buckets : Deserves(c, known[s], b) /\ Count(s, b, c)
      BY <1>3 DEF Buckets
    <2>2. /\ \A r \in Sync \ {s} : bucket'[r] = bucket[r]
          /\ bucket'[s][b] = bucket[s][b] \cup {c}
          /\ \A k \in Buckets : k # b => bucket'[s][k] = bucket[s][k]
      BY <1>1, <2>1, CountTyped
    <2>3. \A r \in Sync : \A k \in Buckets : \A e \in bucket'[r][k] : Deserves(e, known[r], k)
      BY <2>1, <2>2 DEF JudgedInv, JudgedByKnown
    <2> QED
      BY <1>2, <1>3, <2>3, SameCalls DEF JudgedInv, JudgedByKnown, Deserves, Identity
  <1>4. CASE /\ Identity(c, known[s]) = "matched" /\ Goto(s, "find")
             /\ current' = [current EXCEPT ![s] = c] /\ UNCHANGED bucket
    <2>1. /\ \A r \in Sync \ {s} : pc'[r] = pc[r] /\ current'[r] = current[r]
          /\ current'[s] = c
      BY <1>4 DEF Goto, TypeOK, Importer
    <2> QED
      BY <1>2, <1>4, <2>1, SameCalls DEF JudgedInv, JudgedByKnown, Deserves, Identity
  <1> QED
    BY <1>1, <1>3, <1>4

LEMMA IngestJudged ==
  ASSUME JudgedInv, TypeOK, NEW p \in Importer, Ingest(p)
  PROVE  JudgedInv'
  <1>1. UNCHANGED <<saved, moves, setup, askedAt, known>> /\ Ingesting(p)
    BY Ingested DEF aclog, answers
  <1>2. CASE pc[p] = "find" /\ Goto(p, "insert") /\ UNCHANGED <<current, bucket>>
    <2>1. \A s \in Sync : pc'[s] \in {"find", "insert"} => pc[s] \in {"find", "insert"}
      BY <1>2 DEF Goto, TypeOK, Importer
    <2> QED
      BY <1>1, <1>2, <2>1, SameCalls, SameJudgement DEF JudgedInv
  <1>3. ASSUME NEW b \in {"imported", "present", "errors"}, Settle(p, b) PROVE JudgedInv'
    <2>0. b \in Buckets
      BY DEF Buckets
    <2>1. /\ \A s \in Sync \ {p} : pc'[s] = pc[s] /\ current'[s] = current[s]
          /\ pc'[p] \notin {"find", "insert"}
      BY <1>1, <1>3, <2>0, Settled DEF Importer
    <2>2. CASE p = Live
      BY <1>1, <1>3, <2>0, <2>1, <2>2, Settled, SameCalls, SameJudgement DEF JudgedInv
    <2>3. CASE p # Live
      <3>1. p \in Sync /\ current[p] \in Contact /\ Count(p, b, current[p])
        BY <1>1, <1>3, <2>0, <2>3, Settled
      <3>2. /\ \A s \in Sync \ {p} : bucket'[s] = bucket[s]
            /\ bucket'[p][b] = bucket[p][b] \cup {current[p]}
            /\ \A k \in Buckets : k # b => bucket'[p][k] = bucket[p][k]
        BY <2>0, <3>1, CountTyped
      <3>3. Deserves(current[p], known[p], b)
        BY <1>1, <3>1 DEF JudgedInv, JudgedByKnown, Ingesting, Deserves
      <3>4. \A s \in Sync : \A k \in Buckets : \A e \in bucket'[s][k] : Deserves(e, known[s], k)
        BY <3>2, <3>3 DEF JudgedInv, JudgedByKnown
      <3> QED
        BY <1>1, <2>1, <3>4, SameCalls DEF JudgedInv, JudgedByKnown, Deserves, Identity
    <2> QED
      BY <2>2, <2>3
  <1> QED
    BY <1>2, <1>3, Ingested

LEMMA NextJudged == JudgedInv /\ AccountInv /\ TypeOK /\ [Next]_vars => JudgedInv'
  <1> SUFFICES ASSUME JudgedInv, AccountInv, TypeOK, [Next]_vars PROVE JudgedInv'
    OBVIOUS
  <1>1. CASE UseOllog
    <2>1. ASSUME NEW d \in Doc, Remove(d) \/ Edit(d) PROVE JudgedInv'
      BY <2>1, SameCalls, SameJudgement DEF Remove, Edit, aclog, answers, JudgedInv
    <2> QED
      BY <1>1, <2>1, BeginJudged DEF UseOllog
  <1>2. CASE UseAclog
    BY <1>2, AclogJudged
  <1>3. ASSUME NEW s \in Sync, Synchronize(s) PROVE JudgedInv'
    <2>1. CASE Connect(s) \/ GiveUp(s) \/ Report(s) \/ ReadList(s) \/ ReadEndOfFile(s)
      <3>1. /\ UNCHANGED <<saved, moves, setup, askedAt, known, bucket, current>>
            /\ pc'[s] \notin {"find", "insert"}
            /\ \A r \in Sync \ {s} : pc'[r] = pc[r]
        BY <2>1 DEF Connect, GiveUp, Report, ReadList, ReadEndOfFile, ReceiveRecords,
                    aclog, answers, Goto, TypeOK, Importer
      <3> QED
        BY <3>1, SameCalls, SameJudgement DEF JudgedInv
    <2> QED
      BY <1>3, <2>1, SettingsJudged, TakeJudged, IngestJudged DEF Synchronize, Importer
  <1>4. CASE Announce
    <2>1. \A s \in Sync : pc'[s] = pc[s] /\ current'[s] = current[s]
      BY <1>4, SyncAssumption DEF Announce, Goto, TypeOK, Importer
    <2> QED
      BY <1>4, <2>1, SameCalls, SameJudgement DEF Announce, aclog, answers, JudgedInv
  <1>5. CASE Ingest(Live)
    BY <1>5, IngestJudged DEF Importer
  <1>6. CASE UNCHANGED vars
    BY <1>6, SameCalls, SameJudgement DEF vars, JudgedInv
  <1> QED
    BY <1>1, <1>2, <1>3, <1>4, <1>5, <1>6 DEF Next

-----------------------------------------------------------------------------
LEMMA ReportFollows == TypeOK /\ AccountInv /\ PresentInv /\ JudgedInv => ReportIsTrue
  <1> SUFFICES ASSUME TypeOK, AccountInv, PresentInv, JudgedInv, NEW s \in Sync
      PROVE  /\ received[s] = todo[s] \cup (UNION {bucket[s][b] : b \in Buckets})
                                \cup ({current[s]} \ {NoContact})
             /\ \A b, k \in Buckets : b # k => bucket[s][b] \cap bucket[s][k] = {}
             /\ \A c \in bucket[s]["imported"] \cup bucket[s]["present"] :
                  \E n \in Contacts(active) \cup removed[s] : Near(c, n)
             /\ \A b \in Buckets : \A c \in bucket[s][b] :
                  /\ askedAt[s] = -1 => Deserves(c, NoCall, b)
                  /\ askedAt[s] = saved[c].moves => Deserves(c, saved[c].call, b)
    BY DEF ReportIsTrue
  <1>1. received[s] = todo[s] \cup (UNION {bucket[s][b] : b \in Buckets})
                        \cup ({current[s]} \ {NoContact})
    <2>1. /\ received[s] \subseteq Contact /\ todo[s] \subseteq Contact
          /\ \A b \in Buckets : bucket[s][b] \subseteq Contact
          /\ current[s] \in Contact \cup {NoContact} /\ NoContact \notin Contact
      BY DEF TypeOK, Importer, Contact, NoContact
    <2>2. \A c \in Contact : c \in received[s] <=>
            c \in todo[s] \/ c = current[s] \/ \E b \in Buckets : c \in bucket[s][b]
      BY DEF AccountInv, Accounted
    <2> DEFINE counted == UNION {bucket[s][b] : b \in Buckets}
    <2>3. \A c : c \in counted <=> \E b \in Buckets : c \in bucket[s][b]
      OBVIOUS
    <2>4. counted \subseteq Contact
      BY <2>1, <2>3
    <2> HIDE DEF counted, Contact, NoContact
    <2>5. \A c : c \in received[s] <=>
            c \in todo[s] \/ c \in counted \/ (c = current[s] /\ c # NoContact)
      BY <2>1, <2>2, <2>3, <2>4
    <2>6. received[s] = todo[s] \cup counted \cup ({current[s]} \ {NoContact})
      BY <2>5
    <2> QED
      BY <2>6 DEF counted
  <1>2. \A b \in Buckets : \A c \in bucket[s][b] : c \in Contact /\ Deserves(c, known[s], b)
    BY DEF JudgedInv, JudgedByKnown, TypeOK
  <1>3. \A b \in Buckets : \A c \in bucket[s][b] :
          /\ askedAt[s] = -1 => Deserves(c, NoCall, b)
          /\ askedAt[s] = saved[c].moves => Deserves(c, saved[c].call, b)
    BY <1>2 DEF JudgedInv, CallsAgree
  <1> QED
    BY <1>1, <1>3 DEF AccountInv, Accounted, PresentInv, Present

\* The report of a Sync is true at every moment, whatever else happens to the
\* log and in ACLog.
THEOREM ReportsAreTrue == Spec => []ReportIsTrue
  BY InitAccounted, NextAccounted, InitPresent, NextPresent, InitJudged, NextJudged,
     TypeCorrect, ReportFollows, PTL DEF Spec
=============================================================================
