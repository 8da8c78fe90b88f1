------------------------ MODULE BackupRestoreProofs -------------------------
(***************************************************************************)
(* Proofs about BackupRestore, for any collections, documents, jobs and    *)
(* bounds.                                                                 *)
(***************************************************************************)
EXTENDS BackupRestore, TLAPS

\* A job that is about to open a file has one to restore.
OpensAFile == \A j \in Job : pc[j] = "open" => Restoring(j)

TypeInv == TypeOK /\ OpensAFile

-----------------------------------------------------------------------------
LEMMA NamedInColl == ASSUME NEW docs \in SUBSET Doc PROVE Named(docs) \in SUBSET Coll
  BY DatabaseAssumption DEF Named

LEMMA SavedDocs ==
  ASSUME TypeOK, NEW f \in saved
  PROVE  f.docs \in SUBSET Doc
  BY DEF TypeOK, File

LEMMA UploadDocs ==
  ASSUME TypeOK, NEW j \in Job, Restoring(j)
  PROVE  upload[j] \in saved /\ upload[j].docs \in SUBSET Doc
  <1>1. upload[j] \in saved
    BY DEF TypeOK, Restoring
  <1> QED
    BY <1>1, SavedDocs

\* Documents of one collection, and where they are.
LEMMA NamedIn ==
  ASSUME NEW c \in Coll, NEW some \in SUBSET In(c)
  PROVE  Named(some) \in SUBSET {c} /\ some \in SUBSET Doc
  BY DEF In, Named

LEMMA NamedDropped ==
  ASSUME NEW docs \in SUBSET Doc, NEW c \in Coll
  PROVE  Named(docs \ In(c)) = Named(docs) \ {c}
  BY DEF In, Named

LEMMA NamedUnion ==
  ASSUME NEW docs, NEW more
  PROVE  Named(docs \cup more) = Named(docs) \cup Named(more)
  BY DEF Named

-----------------------------------------------------------------------------
(***************************************************************************)
(* Type correctness.                                                       *)
(***************************************************************************)
LEMMA InitTyped == Init => TypeInv
  <1> SUFFICES ASSUME Init PROVE TypeInv
    OBVIOUS
  <1>1. Named(db) \subseteq existing /\ db \subseteq Doc /\ existing \subseteq Coll
    BY DatabaseAssumption DEF Init, Named
  <1>2. spent \in [jobs: 0..MaxJobs, faults: 0..MaxFaults] /\ second \in 0..spent.jobs
    BY DatabaseAssumption DEF Init
  <1> QED
    BY <1>1, <1>2
    DEF Init, TypeInv, TypeOK, OpensAFile, Writing, Restoring, Dumping, Labels

LEMMA WriteTyped ==
  ASSUME TypeInv, NEW d \in Doc, Write(d)
  PROVE  TypeInv'
  <1>1. touched' \in [Job -> SUBSET Doc]
    BY DEF Write, Touch, TypeInv, TypeOK
  <1>2. Named(db') \subseteq existing'
    BY NamedUnion, NamedIn DEF Write, TypeInv, TypeOK, Named
  <1>3. existing' \subseteq Coll
    BY DatabaseAssumption DEF Write, TypeInv, TypeOK
  <1>4. late' \subseteq Doc
    BY DEF Write, TypeInv, TypeOK
  <1> QED
    BY <1>1, <1>2, <1>3, <1>4
    DEF Write, files, TypeInv, TypeOK, OpensAFile, Writing, Restoring, Dumping

LEMMA ClearTyped ==
  ASSUME TypeInv, db \subseteq ever, NEW d \in Doc, ClearOne(d)
  PROVE  TypeInv'
  <1>1. touched' \in [Job -> SUBSET Doc]
    BY DEF ClearOne, Touch, TypeInv, TypeOK
  <1>2. Named(db') \subseteq existing'
    BY DEF ClearOne, TypeInv, TypeOK, Named
  <1>3. cleared' \subseteq ever'
    BY DEF ClearOne, TypeInv, TypeOK
  <1> QED
    BY <1>1, <1>2, <1>3
    DEF ClearOne, files, TypeInv, TypeOK, OpensAFile, Writing, Restoring, Dumping

LEMMA BeginTyped ==
  ASSUME TypeInv, NEW j \in Job, NEW f \in saved \cup {NoFile}, NEW damaged \in BOOLEAN,
         Begin(j, f, damaged)
  PROVE  TypeInv'
  <1>1. spent' \in [jobs: 0..MaxJobs, faults: 0..MaxFaults] /\ spent'.jobs = spent.jobs + 1
    BY DatabaseAssumption DEF Begin, TypeInv, TypeOK
  <1>2. /\ pc' \in [Job -> Labels]
        /\ upload' \in [Job -> saved' \cup {NoFile}]
        /\ cut' \in [Job -> BOOLEAN]
    BY DEF Begin, Goto, TypeInv, TypeOK, Labels
  <1>3. \A k \in Job : k # j => upload'[k] = upload[k] /\ cut'[k] = cut[k] /\ pc'[k] = pc[k]
    BY DEF Begin, Goto, TypeInv, TypeOK
  <1>4. pc'[j] = "list"
    BY DEF Begin, Goto, TypeInv, TypeOK
  <1>5. PICK n \in {second, second + 1} \cap Name :
          /\ second' = n
          /\ name' = [name EXCEPT ![j] = n]
          /\ disk' = [disk EXCEPT ![n] = NoFile]
          /\ mixed' \in {mixed \cup {n}, mixed \ {n}}
          /\ overwritten' = overwritten \cup (IF disk[n] = NoFile THEN {} ELSE disk[n].docs)
    BY DEF Begin
  <1>6. second' \in 0..spent'.jobs
    BY <1>1, <1>5 DEF TypeInv, TypeOK
  <1>7. disk' \in [Name -> saved' \cup {NoFile}] /\ mixed' \subseteq Name
    BY <1>5 DEF Begin, TypeInv, TypeOK
  <1>8. overwritten' \subseteq Doc
    <2>1. disk[n] # NoFile => disk[n] \in saved
      BY DEF TypeInv, TypeOK
    <2> QED
      BY <1>5, <2>1, SavedDocs DEF TypeInv, TypeOK
  <1>9. n # 0 /\ name' \in [Job -> Name \cup {0}]
    BY <1>5, DatabaseAssumption DEF TypeInv, TypeOK, Name
  <1>10. \A k \in Job : Dumping(k)' => name'[k] # 0
    BY <1>3, <1>5, <1>9 DEF TypeInv, TypeOK, Dumping
  <1> QED
    BY <1>1, <1>2, <1>3, <1>4, <1>6, <1>7, <1>8, <1>9, <1>10
    DEF Begin, application, history, TypeInv, TypeOK, OpensAFile, Writing, Restoring

LEMMA ReadTyped ==
  ASSUME TypeInv, NEW j \in Job, ListNames(j) \/ ReadColl(j)
  PROVE  TypeInv'
  <1>1. /\ pc' \in [Job -> Labels]
        /\ names' \in [Job -> SUBSET Coll]
        /\ file' \in [Job -> SUBSET Doc]
    BY DEF ListNames, ReadColl, Goto, TypeInv, TypeOK, Labels
  <1>2. \A k \in Job : /\ pc'[k] \in {"open", "drop", "insert", "restored"} => pc'[k] = pc[k]
                       /\ Dumping(k)' => Dumping(k)
    BY DEF ListNames, ReadColl, Goto, TypeInv, TypeOK, Dumping
  <1>3. disk' \in [Name -> saved' \cup {NoFile}]
    BY DEF ListNames, ReadColl, files, TypeInv, TypeOK
  <1>4. UNCHANGED <<saved, second, mixed, overwritten, name>>
    BY DEF ListNames, ReadColl, files
  <1> QED
    BY <1>1, <1>2, <1>3, <1>4
    DEF ListNames, ReadColl, application, history, TypeInv, TypeOK, OpensAFile, Writing, Restoring

\* What is left when a dump closes its file.
LEMMA CloseTyped ==
  ASSUME TypeInv, NEW j \in Job, NEW complete \in BOOLEAN, Close(j, complete)
  PROVE  /\ saved' \subseteq File /\ saved \subseteq saved'
         /\ disk' \in [Name -> saved' \cup {NoFile}]
         /\ overwritten' \subseteq Doc
         /\ UNCHANGED <<second, mixed>>
  <1>1. [docs |-> file[j], pristine |-> ~restored, complete |-> complete] \in File
    BY DEF File, TypeInv, TypeOK
  <1>2. file[j] \subseteq Doc
    BY DEF TypeInv, TypeOK
  <1> QED
    BY <1>1, <1>2 DEF Close, TypeInv, TypeOK

LEMMA SaveTyped ==
  ASSUME TypeInv, NEW j \in Job, Save(j)
  PROVE  TypeInv'
  <1>1. /\ saved' \subseteq File /\ saved \subseteq saved'
        /\ disk' \in [Name -> saved' \cup {NoFile}]
        /\ overwritten' \subseteq Doc
        /\ UNCHANGED <<second, mixed>>
    BY CloseTyped DEF Save
  <1>2. /\ pc' \in [Job -> Labels]
        /\ upload' \in [Job -> saved' \cup {NoFile}]
        /\ file' \in [Job -> SUBSET Doc]
        /\ name' \in [Job -> Name \cup {0}]
    BY <1>1 DEF Save, Goto, TypeInv, TypeOK, Labels
  <1>3. OpensAFile'
    BY DEF Save, Goto, TypeInv, TypeOK, OpensAFile, Restoring
  <1>4. \A k \in Job : /\ pc'[k] \in {"drop", "insert", "restored"} => pc'[k] = pc[k]
                       /\ Dumping(k)' => Dumping(k) /\ name'[k] = name[k]
    BY DEF Save, Goto, TypeInv, TypeOK, Dumping
  <1> QED
    BY <1>1, <1>2, <1>3, <1>4 DEF Save, application, history, TypeInv, TypeOK, Writing, Restoring

\* What is left of a job that has ended.
LEMMA EndTyped ==
  ASSUME TypeInv, NEW j \in Job, End(j), saved \subseteq saved'
  PROVE  /\ pc' \in [Job -> Labels]
         /\ upload' \in [Job -> saved' \cup {NoFile}]
         /\ cut' \in [Job -> BOOLEAN]
         /\ name' \in [Job -> Name \cup {0}]
         /\ names' \in [Job -> SUBSET Coll]
         /\ file' \in [Job -> SUBSET Doc]
         /\ todo' \in [Job -> SUBSET Coll]
         /\ touched' \in [Job -> SUBSET Doc]
         /\ alone' \in [Job -> BOOLEAN]
         /\ OpensAFile'
         /\ \A k \in Job : /\ Writing(k)' => Restoring(k)' /\ ~cut'[k]
                           /\ Dumping(k)' => name'[k] # 0
  <1>1. /\ pc' \in [Job -> Labels]
        /\ upload' \in [Job -> saved' \cup {NoFile}]
        /\ cut' \in [Job -> BOOLEAN]
    BY DEF End, Goto, TypeInv, TypeOK, Labels
  <1>2. /\ names' \in [Job -> SUBSET Coll]
        /\ file' \in [Job -> SUBSET Doc]
        /\ todo' \in [Job -> SUBSET Coll]
        /\ name' \in [Job -> Name \cup {0}]
    BY DEF End, TypeInv, TypeOK
  <1>3. touched' \in [Job -> SUBSET Doc] /\ alone' \in [Job -> BOOLEAN]
    BY DEF End, TypeInv, TypeOK
  <1>4. \A k \in Job : pc'[k] # "idle" =>
          upload'[k] = upload[k] /\ cut'[k] = cut[k] /\ pc'[k] = pc[k] /\ name'[k] = name[k]
    BY DEF End, Goto, TypeInv, TypeOK
  <1> QED
    BY <1>1, <1>2, <1>3, <1>4 DEF TypeInv, TypeOK, OpensAFile, Writing, Restoring, Dumping

LEMMA OpenTyped ==
  ASSUME TypeInv, NEW j \in Job, OpenFile(j)
  PROVE  TypeInv'
  <1>1. CASE ~cut[j] /\ BeginDropping(j)
    <2>1. Restoring(j)
      BY DEF OpenFile, TypeInv, OpensAFile
    <2>2. Named(upload[j].docs) \subseteq Coll
      BY <2>1, UploadDocs, NamedInColl DEF TypeInv
    <2>3. pc' \in [Job -> Labels] /\ todo' \in [Job -> SUBSET Coll]
      BY <1>1, <2>2 DEF BeginDropping, Goto, TypeInv, TypeOK, Labels
    <2>4. alone' \in [Job -> BOOLEAN]
      BY <1>1 DEF BeginDropping, TypeInv, TypeOK
    <2>5. OpensAFile' /\ \A k \in Job : Writing(k)' => Restoring(k)' /\ ~cut'[k]
      BY <1>1, <2>1 DEF BeginDropping, Goto, TypeInv, TypeOK, OpensAFile, Writing, Restoring
    <2>6. \A k \in Job : Dumping(k)' => Dumping(k) /\ name'[k] = name[k]
      BY <1>1 DEF BeginDropping, Goto, TypeInv, TypeOK, Dumping
    <2> QED
      BY <2>6, <1>1, <2>3, <2>4, <2>5 DEF BeginDropping, application, files, TypeInv, TypeOK
  <1>2. CASE cut[j] /\ End(j) /\ UNCHANGED <<db, existing, application, files, spent, restored, late>>
    BY <1>2, EndTyped DEF application, files, TypeInv, TypeOK
  <1> QED
    BY <1>1, <1>2 DEF OpenFile

LEMMA DropTyped ==
  ASSUME TypeInv, NEW j \in Job, DropColl(j)
  PROVE  TypeInv'
  <1>1. PICK c \in todo[j] : db' = db \ In(c) /\ existing' = existing \ {c}
    BY DEF DropColl
  <1>2. c \in Coll
    BY <1>1 DEF TypeInv, TypeOK
  <1>3. Named(db') \subseteq existing'
    <2>1. Named(db \ In(c)) = Named(db) \ {c}
      BY <1>2, NamedDropped DEF TypeInv, TypeOK
    <2> QED
      BY <1>1, <2>1 DEF TypeInv, TypeOK
  <1>4. pc' \in [Job -> Labels]
    BY DEF DropColl, Goto, TypeInv, TypeOK, Labels
  <1>5. OpensAFile' /\ \A k \in Job : Writing(k)' => Restoring(k)' /\ ~cut'[k]
    BY DEF DropColl, Goto, TypeInv, TypeOK, OpensAFile, Writing, Restoring
  <1>6. \A k \in Job : Dumping(k)' => Dumping(k) /\ name'[k] = name[k]
    BY DEF DropColl, Goto, TypeInv, TypeOK, Dumping
  <1> QED
    BY <1>6, <1>1, <1>3, <1>4, <1>5 DEF DropColl, application, files, TypeInv, TypeOK

\* What an insert_many adds to the database.
LEMMA InsertedTyped ==
  ASSUME TypeInv, NEW c \in Coll, NEW some \in SUBSET Doc, some \subseteq In(c),
         db' = db \cup some, existing' \in {existing \cup {c}, existing \cup Named(some)}
  PROVE  db' \subseteq Doc /\ existing' \subseteq Coll /\ Named(db') \subseteq existing'
  <1>1. Named(some) \subseteq {c}
    BY DEF In, Named
  <1>2. Named(db') = Named(db) \cup Named(some)
    BY DEF Named
  <1> QED
    BY <1>1, <1>2 DEF TypeInv, TypeOK

LEMMA InsertTyped ==
  ASSUME TypeInv, NEW j \in Job, InsertMany(j)
  PROVE  TypeInv'
  <1>1. PICK c \in todo[j] :
          /\ existing' = existing \cup {c}
          /\ LET docs == upload[j].docs \cap In(c) IN
             \/ /\ docs \cap db = {}
                /\ db' = db \cup docs
                /\ todo' = [todo EXCEPT ![j] = @ \ {c}]
                /\ Goto(j, IF todo[j] = {c} THEN "restored" ELSE "drop")
                /\ UNCHANGED <<upload, cut, name, names, file, touched, alone>>
             \/ /\ docs \cap db # {}
                /\ \E some \in SUBSET docs : db' = db \cup some
                /\ End(j)
    BY DEF InsertMany
  <1>2. c \in Coll
    BY <1>1 DEF TypeInv, TypeOK
  <1>3. upload[j].docs \in SUBSET Doc
    BY UploadDocs DEF TypeInv, TypeOK, InsertMany, Writing
  <1>4. CASE /\ db' = db \cup (upload[j].docs \cap In(c))
             /\ todo' = [todo EXCEPT ![j] = @ \ {c}]
             /\ Goto(j, IF todo[j] = {c} THEN "restored" ELSE "drop")
             /\ UNCHANGED <<upload, cut, name, names, file, touched, alone>>
    <2>1. db' \subseteq Doc /\ existing' \subseteq Coll /\ Named(db') \subseteq existing'
      BY <1>1, <1>2, <1>3, <1>4, InsertedTyped
    <2>2. pc' \in [Job -> Labels] /\ todo' \in [Job -> SUBSET Coll]
      BY <1>4 DEF Goto, TypeInv, TypeOK, Labels
    <2>3. OpensAFile' /\ \A k \in Job : Writing(k)' => Restoring(k)' /\ ~cut'[k]
      BY <1>4 DEF InsertMany, Goto, TypeInv, TypeOK, OpensAFile, Writing, Restoring
    <2>4. \A k \in Job : Dumping(k)' => Dumping(k) /\ name'[k] = name[k]
      BY <1>4 DEF Goto, TypeInv, TypeOK, Dumping
    <2> QED
      BY <2>4, <1>4, <2>1, <2>2, <2>3 DEF InsertMany, application, files, TypeInv, TypeOK
  <1>5. CASE (\E some \in SUBSET (upload[j].docs \cap In(c)) : db' = db \cup some) /\ End(j)
    <2>1. db' \subseteq Doc /\ existing' \subseteq Coll /\ Named(db') \subseteq existing'
      BY <1>1, <1>2, <1>3, <1>5, InsertedTyped
    <2> QED
      BY <1>5, <2>1, EndTyped DEF InsertMany, application, files, TypeInv, TypeOK
  <1> QED
    BY <1>1, <1>4, <1>5

LEMMA FinishTyped ==
  ASSUME TypeInv, NEW j \in Job, Finish(j)
  PROVE  TypeInv'
  BY EndTyped DEF Finish, application, files, TypeInv, TypeOK

LEMMA FailTyped ==
  ASSUME TypeInv, NEW j \in Job, Fail(j)
  PROVE  TypeInv'
  <1>1. spent' \in [jobs: 0..MaxJobs, faults: 0..MaxFaults] /\ spent'.jobs = spent.jobs
    BY DatabaseAssumption DEF Fail, TypeInv, TypeOK
  <1>2. db' \subseteq Doc /\ existing' \subseteq Coll /\ Named(db') \subseteq existing'
    <2>1. CASE UNCHANGED <<db, existing>>
      BY <2>1 DEF TypeInv, TypeOK, Named
    <2>2. CASE pc[j] = "insert" /\
               \E c \in todo[j] : \E some \in SUBSET (upload[j].docs \cap In(c)) :
                 db' = db \cup some /\ existing' = existing \cup Named(some)
      <3>1. upload[j].docs \in SUBSET Doc /\ todo[j] \in SUBSET Coll
        BY <2>2, UploadDocs DEF TypeInv, TypeOK, Writing
      <3> QED
        BY <2>2, <3>1, InsertedTyped
    <2> QED
      BY <2>1, <2>2 DEF Fail
  <1>3. /\ saved' \subseteq File /\ saved \subseteq saved'
        /\ disk' \in [Name -> saved' \cup {NoFile}]
        /\ overwritten' \subseteq Doc
        /\ UNCHANGED <<second, mixed>>
    <2>1. CASE Close(j, FALSE)
      BY <2>1, CloseTyped
    <2>2. CASE /\ disk' \in {disk, [disk EXCEPT ![name[j]] = NoFile]}
               /\ UNCHANGED <<saved, second, mixed, overwritten>>
      BY <2>2 DEF TypeInv, TypeOK
    <2>3. CASE UNCHANGED <<disk, saved, second, mixed, overwritten>>
      BY <2>3 DEF TypeInv, TypeOK
    <2>4. UNCHANGED files => UNCHANGED <<disk, saved, second, mixed, overwritten>>
      BY DEF files
    <2> QED
      BY <2>1, <2>2, <2>3, <2>4 DEF Fail
  <1>4. End(j)
    BY DEF Fail
  <1>5. UNCHANGED <<ever, cleared, restored, late>>
    BY DEF Fail, application
  <1>6. second' \in 0..spent'.jobs /\ mixed' \subseteq Name
    BY <1>1, <1>3 DEF TypeInv, TypeOK
  <1>7. ever' \subseteq Doc /\ cleared' \subseteq ever' /\ restored' \in BOOLEAN /\ late' \subseteq Doc
    BY <1>5 DEF TypeInv, TypeOK
  <1> QED
    BY <1>1, <1>2, <1>3, <1>4, <1>6, <1>7, EndTyped DEF TypeInv, TypeOK

\* Whatever is in the database or in a file has been written.
AllWritten ==
  /\ db \subseteq ever
  /\ \A j \in Job : file[j] \subseteq ever
  /\ \A f \in saved : f.docs \subseteq ever

LEMMA AllWrittenStep ==
  ASSUME TypeInv, AllWritten, [Next]_vars
  PROVE  AllWritten'
  <1> USE DEF AllWritten
  <1>1. CASE \E d \in Doc : Write(d)
    BY <1>1 DEF Write, files
  <1>2. CASE \E d \in Doc : ClearOne(d)
    BY <1>2 DEF ClearOne, files
  <1>3. ASSUME NEW j \in Job, run_backup(j) \/ restore_confirm(j) \/ ListNames(j)
        PROVE  AllWritten'
    BY <1>3 DEF run_backup, restore_confirm, Begin, ListNames, application, files
  <1>4. ASSUME NEW j \in Job, ReadColl(j)
        PROVE  AllWritten'
    BY <1>4 DEF ReadColl, application, files, TypeInv, TypeOK
  <1>5. ASSUME NEW j \in Job, Save(j)
        PROVE  AllWritten'
    <2>1. \A f \in saved' : f \in saved \/ f.docs = file[j]
      BY <1>5 DEF Save, Close
    <2> QED
      BY <1>5, <2>1 DEF Save, application, TypeInv, TypeOK
  <1>6. ASSUME NEW j \in Job, End(j), db' \subseteq ever, ever' = ever,
               \A f \in saved' : f \in saved \/ f.docs = file[j]
        PROVE  AllWritten'
    BY <1>6 DEF End, TypeInv, TypeOK
  <1>7. ASSUME NEW j \in Job, OpenFile(j)
        PROVE  AllWritten'
    BY <1>6, <1>7 DEF OpenFile, BeginDropping, application, files
  <1>8. ASSUME NEW j \in Job, DropColl(j)
        PROVE  AllWritten'
    BY <1>8 DEF DropColl, application, files
  <1>9. ASSUME NEW j \in Job, Writing(j)
        PROVE  upload[j].docs \subseteq ever
    BY <1>9, UploadDocs DEF TypeInv, TypeOK
  <1>10. ASSUME NEW j \in Job, InsertMany(j)
         PROVE  AllWritten'
    <2>1. upload[j].docs \subseteq ever
      BY <1>9, <1>10 DEF InsertMany, Writing
    <2>2. db' \subseteq ever
      BY <1>10, <2>1 DEF InsertMany
    <2>3. saved' = saved /\ ever' = ever /\ (file' = file \/ End(j))
      BY <1>10 DEF InsertMany, application, files
    <2> QED
      BY <1>6, <2>2, <2>3
  <1>11. ASSUME NEW j \in Job, Finish(j)
         PROVE  AllWritten'
    BY <1>6, <1>11 DEF Finish, application, files
  <1>12. ASSUME NEW j \in Job, Fail(j)
         PROVE  AllWritten'
    <2>1. pc[j] = "insert" => upload[j].docs \subseteq ever
      BY <1>9 DEF Writing
    <2>2. db' \subseteq ever
      BY <1>12, <2>1 DEF Fail
    <2>3. \A f \in saved' : f \in saved \/ f.docs = file[j]
      BY <1>12 DEF Fail, Close, files
    <2> QED
      BY <1>6, <1>12, <2>2, <2>3 DEF Fail, application
  <1>13. CASE UNCHANGED vars
    BY <1>13 DEF vars
  <1> QED
    BY <1>1, <1>2, <1>3, <1>4, <1>5, <1>7, <1>8, <1>10, <1>11, <1>12, <1>13 DEF Next, Step

LEMMA TypeStep ==
  ASSUME TypeInv, AllWritten, [Next]_vars
  PROVE  TypeInv'
  <1>1. ASSUME NEW d \in Doc, Write(d) \/ ClearOne(d)
        PROVE  TypeInv'
    BY <1>1, WriteTyped, ClearTyped DEF AllWritten
  <1>2. ASSUME NEW j \in Job, run_backup(j) \/ restore_confirm(j)
        PROVE  TypeInv'
    BY <1>2, BeginTyped DEF run_backup, restore_confirm
  <1>3. ASSUME NEW j \in Job, Step(j)
        PROVE  TypeInv'
    BY <1>2, <1>3, ReadTyped, SaveTyped, OpenTyped, DropTyped, InsertTyped, FinishTyped, FailTyped
    DEF Step
  <1>4. CASE UNCHANGED vars
    BY <1>4 DEF vars, TypeInv, TypeOK, OpensAFile, Writing, Restoring, Dumping
  <1> QED
    BY <1>1, <1>3, <1>4 DEF Next

Sound == TypeInv /\ AllWritten

LEMMA InitSound == Init => Sound
  <1>1. Init => AllWritten
    BY DEF Init, AllWritten
  <1> QED
    BY <1>1, InitTyped DEF Sound

LEMMA AlwaysSound == Spec => []Sound
  <1>1. Sound /\ [Next]_vars => Sound'
    BY TypeStep, AllWrittenStep DEF Sound
  <1> QED
    BY InitSound, <1>1, PTL DEF Spec

\* Type correctness, and that only a restore which has read its file to the
\* end drops or fills a collection.
THEOREM TypeCorrect == Spec => []TypeOK
  <1>1. Sound => TypeOK
    BY DEF Sound, TypeInv
  <1> QED
    BY AlwaysSound, <1>1, PTL

-----------------------------------------------------------------------------
(***************************************************************************)
(* Files.  A dump writes to a name of its own, or to one that another dump *)
(* has open too, and then it is mixed; what is under the name of a dump in *)
(* progress is unreadable, or holds overwritten documents only.  So what   *)
(* was in a file once is in one still, or was overwritten.                 *)
(***************************************************************************)
Kept(d) == d \in overwritten \/ OnDisk(d)

FilesInv ==
  /\ \A j \in Job : Dumping(j) =>
       /\ disk[name[j]] # NoFile => disk[name[j]].docs \subseteq overwritten
       /\ \A k \in Job \ {j} : Dumping(k) /\ name[k] = name[j] => name[j] \in mixed
  /\ \A f \in saved : \A d \in f.docs : Kept(d)

KeptStays == \A d \in Doc : Kept(d) => Kept(d)'

LEMMA NameIn == ASSUME TypeInv, NEW j \in Job, Dumping(j) PROVE name[j] \in Name
  BY DEF TypeInv, TypeOK

\* A step that changes no file, and begins no dump.
LEMMA FilesByLess ==
  ASSUME FilesInv, UNCHANGED files, \A j \in Job : Dumping(j)' => Dumping(j) /\ name'[j] = name[j]
  PROVE  FilesInv' /\ KeptStays
  <1>1. UNCHANGED <<disk, saved, mixed, overwritten>>
    BY DEF files
  <1>2. \A d : Kept(d)' <=> Kept(d)
    BY <1>1 DEF Kept, OnDisk
  <1> QED
    BY <1>1, <1>2 DEF FilesInv, KeptStays

\* One name's file changes, and what was in it is overwritten.
LEMMA KeptByChange ==
  ASSUME TypeInv, NEW n \in Name, NEW f, disk' = [disk EXCEPT ![n] = f],
         overwritten \subseteq overwritten',
         disk[n] # NoFile => disk[n].docs \subseteq overwritten'
  PROVE  KeptStays
  <1> SUFFICES ASSUME NEW d \in Doc, Kept(d) PROVE Kept(d)'
    BY DEF KeptStays
  <1>1. \A m \in Name \ {n} : disk'[m] = disk[m]
    BY DEF TypeInv, TypeOK
  <1> QED
    BY <1>1 DEF Kept, OnDisk

LEMMA FilesByBegin ==
  ASSUME TypeInv, FilesInv, NEW j \in Job, NEW f, NEW damaged, Begin(j, f, damaged)
  PROVE  FilesInv' /\ KeptStays
  <1>1. PICK n \in Name :
          /\ name' = [name EXCEPT ![j] = n]
          /\ disk' = [disk EXCEPT ![n] = NoFile]
          /\ mixed' = IF \E k \in Job : Dumping(k) /\ name[k] = n
                      THEN mixed \cup {n} ELSE mixed \ {n}
          /\ overwritten' = overwritten \cup (IF disk[n] = NoFile THEN {} ELSE disk[n].docs)
    BY DEF Begin
  <1>2. KeptStays
    <2>1. overwritten \subseteq overwritten' /\ (disk[n] # NoFile => disk[n].docs \subseteq overwritten')
      BY <1>1
    <2> QED
      BY <1>1, <2>1, KeptByChange
  <1>3. /\ disk'[n] = NoFile /\ \A m \in Name \ {n} : disk'[m] = disk[m]
        /\ name'[j] = n
    BY <1>1 DEF TypeInv, TypeOK
  <1>4. \A k \in Job \ {j} : name'[k] = name[k] /\ (Dumping(k)' <=> Dumping(k))
    BY <1>1 DEF Begin, Goto, Dumping, TypeInv, TypeOK
  <1>5. ASSUME NEW k \in Job, Dumping(k)'
        PROVE  disk'[name'[k]] # NoFile => disk'[name'[k]].docs \subseteq overwritten'
    <2>1. CASE name'[k] = n
      BY <1>3, <2>1
    <2>2. CASE name'[k] # n
      <3>1. k # j /\ Dumping(k) /\ name'[k] = name[k]
        BY <1>3, <1>4, <1>5, <2>2
      <3>2. name[k] \in Name
        BY <3>1, NameIn
      <3> QED
        BY <1>1, <1>3, <2>2, <3>1, <3>2 DEF FilesInv
    <2> QED
      BY <2>1, <2>2
  <1>6. ASSUME NEW k \in Job, NEW i \in Job \ {k}, Dumping(k)', Dumping(i)', name'[i] = name'[k]
        PROVE  name'[k] \in mixed'
    <2>1. CASE name'[k] = n
      <3>1. \E x \in Job : Dumping(x) /\ name[x] = n
        BY <1>4, <1>6, <2>1
      <3> QED
        BY <1>1, <2>1, <3>1
    <2>2. CASE name'[k] # n
      <3>1. name[k] \in mixed /\ name'[k] = name[k]
        BY <1>3, <1>4, <1>6, <2>2 DEF FilesInv
      <3> QED
        BY <1>1, <2>2, <3>1
    <2> QED
      BY <2>1, <2>2
  <1>7. \A g \in saved' : \A d \in g.docs : Kept(d)'
    <2>1. saved' = saved
      BY DEF Begin
    <2> QED
      BY <1>2, <2>1, SavedDocs DEF FilesInv, KeptStays, TypeInv
  <1> QED
    BY <1>2, <1>5, <1>6, <1>7 DEF FilesInv

\* What is written before a file is closed, or without it ever being, may break
\* the file that is there.
LEMMA FilesByBreaking ==
  ASSUME TypeInv, FilesInv, NEW j \in Job, Dumping(j),
         disk' \in {disk, [disk EXCEPT ![name[j]] = NoFile]},
         UNCHANGED <<saved, mixed, overwritten>>,
         \A k \in Job : Dumping(k)' => Dumping(k) /\ name'[k] = name[k]
  PROVE  FilesInv' /\ KeptStays
  <1>1. name[j] \in Name
    BY NameIn
  <1>2. KeptStays
    <2>1. CASE disk' = disk
      BY <2>1 DEF KeptStays, Kept, OnDisk
    <2>2. CASE disk' = [disk EXCEPT ![name[j]] = NoFile]
      BY <1>1, <2>2, KeptByChange DEF FilesInv
    <2> QED
      BY <2>1, <2>2
  <1>3. \A m \in Name : disk'[m] \in {disk[m], NoFile}
    BY DEF TypeInv, TypeOK
  <1>4. \A k \in Job : Dumping(k) => name[k] \in Name
    BY NameIn
  <1>5. \A f \in saved' : \A d \in f.docs : Kept(d)'
    BY <1>2, SavedDocs DEF FilesInv, KeptStays, TypeInv
  <1> QED
    BY <1>2, <1>3, <1>4, <1>5 DEF FilesInv

\* A closed file: it is there with all that was read, or mixed with another.
LEMMA FilesByClose ==
  ASSUME TypeInv, FilesInv, NEW j \in Job, Dumping(j), NEW complete \in BOOLEAN,
         Close(j, complete),
         \A k \in Job : Dumping(k)' => k # j /\ Dumping(k) /\ name'[k] = name[k]
  PROVE  FilesInv' /\ KeptStays /\ \A d \in file[j] : Kept(d)'
  <1> DEFINE n == name[j]
             f == [docs |-> file[j], pristine |-> ~restored, complete |-> complete]
  <1>1. n \in Name
    BY NameIn
  <1>2. overwritten' = overwritten \cup (IF n \in mixed THEN file[j] ELSE {}) /\ mixed' = mixed
    BY DEF Close
  <1>3. \/ disk' = [disk EXCEPT ![n] = f] /\ saved' = saved \cup {f}
        \/ n \in mixed /\ disk' = [disk EXCEPT ![n] = NoFile] /\ saved' = saved
    BY DEF Close
  <1>4. KeptStays
    <2>1. overwritten \subseteq overwritten' /\ (disk[n] # NoFile => disk[n].docs \subseteq overwritten')
      BY <1>2 DEF FilesInv
    <2>2. \E g : disk' = [disk EXCEPT ![n] = g]
      BY <1>3
    <2> HIDE DEF n
    <2> QED
      BY <1>1, <2>1, <2>2, KeptByChange
  <1>5. \/ disk'[n] = f
        \/ n \in mixed /\ disk'[n] = NoFile
    BY <1>1, <1>3 DEF TypeInv, TypeOK
  <1>6. \A m \in Name \ {n} : disk'[m] = disk[m]
    BY <1>1, <1>3 DEF TypeInv, TypeOK
  <1>7. f # NoFile /\ f.docs = file[j]
    <2>1. f \in File
      BY DEF File, TypeInv, TypeOK
    <2> QED
      BY <2>1, DatabaseAssumption DEF File
  <1> HIDE DEF f
  <1>8. \A d \in file[j] : Kept(d)'
    BY <1>1, <1>2, <1>5, <1>7 DEF Kept, OnDisk
  <1>9. \A g \in saved' : \A d \in g.docs : Kept(d)'
    <2>1. \A g \in saved : \A d \in g.docs : Kept(d)'
      BY <1>4, SavedDocs DEF FilesInv, KeptStays, TypeInv
    <2> QED
      BY <1>3, <1>7, <1>8, <2>1
  <1>10. ASSUME NEW k \in Job, Dumping(k)'
         PROVE  disk'[name'[k]] # NoFile => disk'[name'[k]].docs \subseteq overwritten'
    <2>1. k # j /\ Dumping(k) /\ name'[k] = name[k] /\ name[k] \in Name
      BY <1>10, NameIn
    <2>2. CASE name[k] = n
      <3>1. n \in mixed
        BY <2>1, <2>2 DEF FilesInv
      <3> QED
        BY <1>2, <1>5, <1>7, <2>1, <2>2, <3>1
    <2>3. CASE name[k] # n
      BY <1>2, <1>6, <2>1, <2>3 DEF FilesInv
    <2> QED
      BY <2>2, <2>3
  <1>11. \A k \in Job : Dumping(k)' =>
           \A i \in Job \ {k} : Dumping(i)' /\ name'[i] = name'[k] => name'[k] \in mixed'
    BY <1>2 DEF FilesInv
  <1> QED
    BY <1>4, <1>8, <1>9, <1>10, <1>11 DEF FilesInv

\* A job that ends is no dump any more.
LEMMA EndedIsNoDump ==
  ASSUME TypeInv, NEW j \in Job, End(j)
  PROVE  \A k \in Job : Dumping(k)' => k # j /\ Dumping(k) /\ name'[k] = name[k]
  BY DEF End, Goto, Dumping, TypeInv, TypeOK

LEMMA FilesStep ==
  ASSUME TypeInv, FilesInv, [Next]_vars
  PROVE  FilesInv' /\ KeptStays
  <1>1. ASSUME NEW d \in Doc, Write(d) \/ ClearOne(d)
        PROVE  FilesInv' /\ KeptStays
    <2>1. UNCHANGED <<files, pc, name>>
      BY <1>1 DEF Write, ClearOne
    <2> QED
      BY <2>1, FilesByLess DEF Dumping
  <1>2. ASSUME NEW j \in Job, NEW f, NEW damaged, Begin(j, f, damaged)
        PROVE  FilesInv' /\ KeptStays
    BY <1>2, FilesByBegin
  <1>3. ASSUME NEW j \in Job, ListNames(j) \/ DropColl(j) \/ BeginDropping(j)
        PROVE  FilesInv' /\ KeptStays
    <2>1. UNCHANGED <<files, name>>
      BY <1>3 DEF ListNames, DropColl, BeginDropping
    <2>2. \A k \in Job : Dumping(k)' => Dumping(k)
      BY <1>3 DEF ListNames, DropColl, BeginDropping, Goto, Dumping, TypeInv, TypeOK
    <2> QED
      BY <2>1, <2>2, FilesByLess
  <1>4. ASSUME NEW j \in Job, ReadColl(j)
        PROVE  FilesInv' /\ KeptStays
    <2>1. UNCHANGED <<saved, mixed, overwritten, pc, name>> /\ Dumping(j)
      BY <1>4 DEF ReadColl, Dumping
    <2>2. disk' \in {disk, [disk EXCEPT ![name[j]] = NoFile]}
      BY <1>4 DEF ReadColl
    <2>3. \A k \in Job : Dumping(k)' => Dumping(k) /\ name'[k] = name[k]
      BY <2>1 DEF Dumping
    <2> QED
      BY <2>1, <2>2, <2>3, FilesByBreaking
  <1>5. ASSUME NEW j \in Job, Save(j)
        PROVE  FilesInv' /\ KeptStays
    <2>1. Dumping(j) /\ Close(j, TRUE)
      BY <1>5 DEF Save, Dumping
    <2>2. \A k \in Job : Dumping(k)' => k # j /\ Dumping(k) /\ name'[k] = name[k]
      BY <1>5 DEF Save, Goto, Dumping, TypeInv, TypeOK
    <2> QED
      BY <2>1, <2>2, FilesByClose
  <1>6. ASSUME NEW j \in Job, End(j), UNCHANGED files
        PROVE  FilesInv' /\ KeptStays
    BY <1>6, EndedIsNoDump, FilesByLess
  <1>7. ASSUME NEW j \in Job, InsertMany(j)
        PROVE  FilesInv' /\ KeptStays
    <2>1. UNCHANGED files
      BY <1>7 DEF InsertMany
    <2>2. CASE End(j)
      BY <1>6, <2>1, <2>2
    <2>3. CASE ~End(j)
      <3>1. \A k \in Job : Dumping(k)' => Dumping(k) /\ name'[k] = name[k]
        BY <1>7, <2>3 DEF InsertMany, Goto, Dumping, TypeInv, TypeOK
      <3> QED
        BY <2>1, <3>1, FilesByLess
    <2> QED
      BY <2>2, <2>3
  <1>8. ASSUME NEW j \in Job, Fail(j)
        PROVE  FilesInv' /\ KeptStays
    <2>1. End(j) /\ \A k \in Job : Dumping(k)' => k # j /\ Dumping(k) /\ name'[k] = name[k]
      BY <1>8, EndedIsNoDump DEF Fail
    <2>2. CASE UNCHANGED files
      BY <1>6, <2>1, <2>2
    <2>3. CASE Dumping(j) /\ Close(j, FALSE)
      BY <2>1, <2>3, FilesByClose
    <2>4. CASE /\ Dumping(j) /\ disk' \in {disk, [disk EXCEPT ![name[j]] = NoFile]}
               /\ UNCHANGED <<saved, second, mixed, overwritten>>
      BY <2>1, <2>4, FilesByBreaking
    <2> QED
      BY <1>8, <2>2, <2>3, <2>4 DEF Fail
  <1>9. CASE UNCHANGED vars
    BY <1>9, FilesByLess DEF vars, files, Dumping
  <1> QED
    BY <1>1, <1>2, <1>3, <1>4, <1>5, <1>6, <1>7, <1>8, <1>9
    DEF Next, Step, run_backup, restore_confirm, OpenFile, Finish

-----------------------------------------------------------------------------
(***************************************************************************)
(* Nothing is lost.  A document is safe when it does not matter that a     *)
(* restore drops it.  The backup a restore makes first has read every      *)
(* document of the collections it is done with, but for safe ones; so when *)
(* the restore opens its file every document of the database is safe, and  *)
(* those the application adds from then on are late.                       *)
(***************************************************************************)
Safe(d) == d \in cleared \cup late \/ Kept(d)

SafeOrRead == \A j \in Job : Restoring(j) /\ pc[j] = "read" =>
  \A d \in db : Home[d] \in names[j] \/ d \in file[j] \/ Safe(d)

AllSafe == \A j \in Job : Restoring(j) /\ pc[j] \in {"open", "drop", "insert"} =>
  \A d \in db : Safe(d)

KeptInv == FilesInv /\ NothingIsLost /\ SafeOrRead /\ AllSafe

\* What is safe stays safe.
SafeStays == cleared \subseteq cleared' /\ late \subseteq late' /\ KeptStays /\ FilesInv'

LEMMA SafeStep == SafeStays => \A d \in Doc : Safe(d) => Safe(d)'
  BY DEF SafeStays, KeptStays, Safe

LEMMA LostMeans == NothingIsLost <=> \A d \in ever : d \in db \/ Safe(d)
  BY DEF NothingIsLost, Safe, Kept

LEMMA LostStep == ASSUME \A d \in ever' : d \in db' \/ Safe(d)' PROVE NothingIsLost'
  BY DEF NothingIsLost, Safe, Kept

\* A step that adds safe documents only, and starts no phase of a restore.
LEMMA KeptByMore ==
  ASSUME Sound, KeptInv, SafeStays, UNCHANGED ever,
         db \subseteq db', db' \subseteq Doc,
         \A d \in db' \ db : Safe(d)',
         \A j \in Job : pc'[j] \in {"read", "open", "drop", "insert"} =>
           /\ upload'[j] = upload[j]
           /\ pc'[j] = pc[j] \/ (pc[j] \in {"open", "drop", "insert"} /\ pc'[j] \in {"open", "drop", "insert"})
           /\ names'[j] = names[j] /\ file'[j] = file[j]
  PROVE  KeptInv'
  <1>1. \A d \in Doc : Safe(d) => Safe(d)'
    BY SafeStep
  <1>2. db \subseteq Doc /\ ever \subseteq Doc
    BY DEF Sound, TypeInv, TypeOK
  <1>3. \A d \in ever' : d \in db' \/ Safe(d)'
    BY <1>1, <1>2, LostMeans DEF KeptInv
  <1>4. SafeOrRead'
    BY <1>1, <1>2 DEF KeptInv, SafeOrRead, Restoring
  <1>5. AllSafe'
    BY <1>1, <1>2 DEF KeptInv, AllSafe, Restoring
  <1> QED
    BY <1>3, <1>4, <1>5, LostStep DEF KeptInv, SafeStays

\* The application: what it writes beside a restore is late.
LEMMA KeptByApplication ==
  ASSUME Sound, KeptInv, FilesInv', KeptStays, NEW d \in Doc, Write(d) \/ ClearOne(d)
  PROVE  KeptInv'
  <1>1. SafeStays
    BY DEF SafeStays, Write, ClearOne
  <1>2. \A e \in Doc : Safe(e) => Safe(e)'
    BY <1>1, SafeStep
  <1>3. db \subseteq Doc /\ ever \subseteq Doc
    BY DEF Sound, TypeInv, TypeOK
  <1>4. UNCHANGED <<pc, upload, names, file>>
    BY DEF Write, ClearOne
  <1>5. \A e \in db' : e \in db \/ e = d
    BY DEF Write, ClearOne
  <1>6. CASE Write(d)
    <2>1. \A e \in ever' : e \in db' \/ Safe(e)'
      BY <1>2, <1>3, <1>6, LostMeans DEF Write, KeptInv
    <2>2. ASSUME NEW j \in Job, Restoring(j)
          PROVE  Safe(d)'
      BY <1>6, <2>2 DEF Write, Safe
    <2>3. SafeOrRead'
      BY <1>2, <1>3, <1>4, <1>5, <2>2 DEF KeptInv, SafeOrRead, Restoring
    <2>4. AllSafe'
      BY <1>2, <1>3, <1>4, <1>5, <2>2 DEF KeptInv, AllSafe, Restoring
    <2> QED
      BY <2>1, <2>3, <2>4, LostStep DEF KeptInv
  <1>7. CASE ClearOne(d)
    <2>1. \A e \in ever' : e \in db' \/ Safe(e)'
      BY <1>2, <1>3, <1>7, LostMeans DEF ClearOne, KeptInv, Safe
    <2>2. db' \subseteq db
      BY <1>7 DEF ClearOne
    <2>3. SafeOrRead'
      BY <1>2, <1>3, <1>4, <2>2 DEF KeptInv, SafeOrRead, Restoring
    <2>4. AllSafe'
      BY <1>2, <1>3, <1>4, <2>2 DEF KeptInv, AllSafe, Restoring
    <2> QED
      BY <2>1, <2>3, <2>4, LostStep DEF KeptInv
  <1> QED
    BY <1>6, <1>7

\* A dump lists every collection that has a document.
LEMMA KeptByListNames ==
  ASSUME Sound, KeptInv, FilesInv', NEW j \in Job, ListNames(j)
  PROVE  KeptInv'
  <1>1. UNCHANGED <<db, ever, cleared, late, disk, overwritten, upload, file>>
    BY DEF ListNames, application, files, history
  <1>2. \A d \in db : Home[d] \in existing
    BY DEF Sound, TypeInv, TypeOK, Named
  <1>3. names'[j] = existing
    BY DEF ListNames, Sound, TypeInv, TypeOK
  <1>4. \A k \in Job \ {j} : names'[k] = names[k] /\ pc'[k] = pc[k]
    BY DEF ListNames, Goto, Sound, TypeInv, TypeOK
  <1>5. pc'[j] = "read"
    BY DEF ListNames, Goto, Sound, TypeInv, TypeOK
  <1>6. \A d : Safe(d)' <=> Safe(d)
    BY <1>1 DEF Safe, Kept, OnDisk
  <1>7. NothingIsLost'
    BY <1>1, <1>6, LostMeans, LostStep DEF KeptInv
  <1>8. SafeOrRead'
    BY <1>1, <1>2, <1>3, <1>4, <1>6 DEF KeptInv, SafeOrRead, Restoring
  <1>9. AllSafe'
    BY <1>1, <1>4, <1>5, <1>6 DEF KeptInv, AllSafe, Restoring
  <1> QED
    BY <1>7, <1>8, <1>9 DEF KeptInv

LEMMA KeptByReadColl ==
  ASSUME Sound, KeptInv, FilesInv', KeptStays, NEW j \in Job, ReadColl(j)
  PROVE  KeptInv'
  <1>1. UNCHANGED <<db, ever, cleared, late, upload, pc>> /\ db \subseteq Doc /\ ever \subseteq Doc
    BY DEF ReadColl, application, history, Sound, TypeInv, TypeOK
  <1>2. PICK c \in names[j] : names' = [names EXCEPT ![j] = @ \ {c}]
                              /\ file' = [file EXCEPT ![j] = @ \cup (db \cap In(c))]
    BY DEF ReadColl
  <1>3. names'[j] = names[j] \ {c} /\ file'[j] = file[j] \cup (db \cap In(c))
    BY <1>2 DEF Sound, TypeInv, TypeOK
  <1>4. \A k \in Job \ {j} : names'[k] = names[k] /\ file'[k] = file[k]
    BY <1>2 DEF Sound, TypeInv, TypeOK
  <1>5. \A d \in Doc : Safe(d) => Safe(d)'
    BY <1>1 DEF KeptStays, Safe
  <1>6. \A d \in db : Home[d] = c => d \in file'[j]
    BY <1>3 DEF In, Sound, TypeInv, TypeOK
  <1>7. NothingIsLost'
    BY <1>1, <1>5, LostMeans, LostStep DEF KeptInv
  <1>8. SafeOrRead'
    BY <1>1, <1>3, <1>4, <1>5, <1>6 DEF KeptInv, SafeOrRead, Restoring
  <1>9. AllSafe'
    BY <1>1, <1>5 DEF KeptInv, AllSafe, Restoring
  <1> QED
    BY <1>7, <1>8, <1>9 DEF KeptInv

\* When the last collection has been read and the file is complete, every
\* document of the database is in it or was safe before.
LEMMA KeptBySave ==
  ASSUME Sound, KeptInv, FilesInv', KeptStays, NEW j \in Job, Save(j)
  PROVE  KeptInv'
  <1>1. UNCHANGED <<db, ever, cleared, late, upload, names>>
    BY DEF Save, application, files, history
  <1>2. SafeStays
    BY DEF SafeStays, Save, application, files, history
  <1>3. db \subseteq Doc /\ ever \subseteq Doc
    BY DEF Sound, TypeInv, TypeOK
  <1>4. \A d \in Doc : Safe(d) => Safe(d)'
    BY <1>2, SafeStep
  <1>5. \A d \in file[j] : Safe(d)'
    <2>1. Dumping(j) /\ Close(j, TRUE)
      BY DEF Save, Dumping
    <2>2. \A k \in Job : Dumping(k)' => k # j /\ Dumping(k) /\ name'[k] = name[k]
      BY DEF Save, Goto, Dumping, Sound, TypeInv, TypeOK
    <2> QED
      BY <2>1, <2>2, FilesByClose DEF Safe, KeptInv, Sound
  <1>6. Restoring(j) => \A d \in db : Safe(d)'
    BY <1>3, <1>4, <1>5 DEF KeptInv, SafeOrRead, Save
  <1>7. \A k \in Job \ {j} : pc'[k] = pc[k] /\ file'[k] = file[k]
    BY DEF Save, Goto, Sound, TypeInv, TypeOK
  <1>8. pc'[j] # "read" /\ (pc'[j] # "idle" => Restoring(j))
    BY DEF Save, Goto, Sound, TypeInv, TypeOK
  <1>9. NothingIsLost'
    BY <1>1, <1>3, <1>4, LostMeans, LostStep DEF KeptInv
  <1>10. SafeOrRead'
    BY <1>1, <1>3, <1>4, <1>7, <1>8 DEF KeptInv, SafeOrRead, Restoring
  <1>11. AllSafe'
    BY <1>1, <1>3, <1>4, <1>6, <1>7, <1>8 DEF KeptInv, AllSafe, Restoring
  <1> QED
    BY <1>9, <1>10, <1>11 DEF KeptInv

\* What is dropped is safe.
LEMMA KeptByDropColl ==
  ASSUME Sound, KeptInv, FilesInv', NEW j \in Job, DropColl(j)
  PROVE  KeptInv'
  <1>1. UNCHANGED <<ever, cleared, late, disk, overwritten, upload, names, file>>
    BY DEF DropColl, application, files
  <1>2. \A d : Safe(d)' <=> Safe(d)
    BY <1>1 DEF Safe, Kept, OnDisk
  <1>3. db' \subseteq db
    BY DEF DropColl
  <1>4. Restoring(j) /\ pc[j] = "drop"
    BY DEF DropColl, Writing, Sound, TypeInv, TypeOK
  <1>5. \A d \in db : Safe(d)
    BY <1>4 DEF KeptInv, AllSafe
  <1>6. \A k \in Job \ {j} : pc'[k] = pc[k]
    BY DEF DropColl, Goto, Sound, TypeInv, TypeOK
  <1>7. pc'[j] = "insert"
    BY DEF DropColl, Goto, Sound, TypeInv, TypeOK
  <1>8. NothingIsLost'
    BY <1>1, <1>2, <1>5, LostMeans, LostStep DEF KeptInv
  <1>9. SafeOrRead'
    BY <1>1, <1>2, <1>3, <1>6, <1>7 DEF KeptInv, SafeOrRead, Restoring
  <1>10. AllSafe'
    BY <1>2, <1>3, <1>5 DEF KeptInv, AllSafe
  <1> QED
    BY <1>8, <1>9, <1>10 DEF KeptInv

\* The end of a job, with or without some documents of its upload inserted.
LEMMA KeptByEnd ==
  ASSUME Sound, KeptInv, FilesInv', KeptStays, NEW j \in Job, End(j),
         UNCHANGED <<ever, cleared, late>>,
         \/ db' = db
         \/ Writing(j) /\ \E some \in SUBSET upload[j].docs : db' = db \cup some
  PROVE  KeptInv'
  <1>1. SafeStays
    BY DEF SafeStays
  <1>2. \A k \in Job : pc'[k] # "idle" =>
          /\ upload'[k] = upload[k] /\ pc'[k] = pc[k]
          /\ names'[k] = names[k] /\ file'[k] = file[k]
    BY DEF End, Goto, Sound, TypeInv, TypeOK
  <1>3. db' \subseteq Doc /\ db \subseteq db' /\ \A d \in db' \ db : Safe(d)'
    <2>1. Writing(j) => upload[j] \in saved /\ upload[j].docs \in SUBSET Doc
      BY UploadDocs DEF Sound, TypeInv, TypeOK
    <2>2. Writing(j) => \A d \in upload[j].docs : Kept(d)'
      BY <2>1 DEF KeptInv, FilesInv, KeptStays
    <2> QED
      BY <2>1, <2>2 DEF Safe, Sound, TypeInv, TypeOK
  <1> QED
    BY <1>1, <1>2, <1>3, KeptByMore

LEMMA KeptStep ==
  ASSUME Sound, KeptInv, [Next]_vars
  PROVE  KeptInv'
  <1>0. FilesInv' /\ KeptStays
    BY FilesStep DEF Sound, KeptInv
  <1>1. ASSUME NEW j \in Job, NEW f, NEW damaged, Begin(j, f, damaged)
        PROVE  KeptInv'
    <2>1. SafeStays /\ db' = db /\ ever' = ever /\ db \subseteq Doc
      BY <1>0, <1>1 DEF Begin, application, files, history, SafeStays, Sound, TypeInv, TypeOK
    <2>2. \A k \in Job : pc'[k] # "list" =>
            /\ upload'[k] = upload[k] /\ pc'[k] = pc[k]
            /\ names'[k] = names[k] /\ file'[k] = file[k]
      BY <1>1 DEF Begin, Goto, Sound, TypeInv, TypeOK
    <2> QED
      BY <2>1, <2>2, KeptByMore
  <1>2. ASSUME NEW j \in Job, OpenFile(j)
        PROVE  KeptInv'
    <2>1. CASE BeginDropping(j)
      <3>1. SafeStays /\ db' = db /\ ever' = ever /\ db \subseteq Doc
        BY <1>0, <2>1 DEF BeginDropping, application, SafeStays, Sound, TypeInv, TypeOK
      <3>2. UNCHANGED <<upload, names, file>>
        BY <2>1 DEF BeginDropping
      <3>3. \A k \in Job : pc'[k] = pc[k] \/ (pc[k] = "open" /\ pc'[k] = "drop")
        BY <1>2, <2>1 DEF OpenFile, BeginDropping, Goto, Sound, TypeInv, TypeOK
      <3> QED
        BY <3>1, <3>2, <3>3, KeptByMore
    <2>2. CASE End(j) /\ UNCHANGED <<db, existing, application, files, spent, restored, late>>
      BY <1>0, <2>2, KeptByEnd DEF application
    <2> QED
      BY <1>2, <2>1, <2>2 DEF OpenFile
  <1>3. ASSUME NEW j \in Job, InsertMany(j)
        PROVE  KeptInv'
    <2>1. Writing(j) /\ UNCHANGED <<ever, cleared, late>>
      BY <1>3 DEF InsertMany, Writing, application
    <2>2. CASE End(j)
      <3>1. \E some \in SUBSET upload[j].docs : db' = db \cup some
        BY <1>3 DEF InsertMany
      <3> QED
        BY <1>0, <2>1, <2>2, <3>1, KeptByEnd
    <2>3. CASE ~End(j)
      <3>1. PICK c \in todo[j] : /\ db' = db \cup (upload[j].docs \cap In(c))
                                 /\ Goto(j, IF todo[j] = {c} THEN "restored" ELSE "drop")
                                 /\ UNCHANGED <<upload, names, file>>
        BY <1>3, <2>3 DEF InsertMany
      <3>2. upload[j] \in saved /\ upload[j].docs \in SUBSET Doc
        BY <2>1, UploadDocs DEF Sound, TypeInv, TypeOK
      <3>3. db' \subseteq Doc /\ \A d \in db' \ db : Safe(d)'
        BY <1>0, <3>1, <3>2 DEF Safe, KeptInv, FilesInv, KeptStays, Sound, TypeInv, TypeOK
      <3>4. \A k \in Job : pc'[k] = pc[k] \/ (pc[k] = "insert" /\ pc'[k] \in {"drop", "restored"})
        BY <1>3, <3>1 DEF InsertMany, Goto, Sound, TypeInv, TypeOK
      <3>5. SafeStays
        BY <1>0, <2>1 DEF SafeStays
      <3> QED
        BY <2>1, <3>1, <3>3, <3>4, <3>5, KeptByMore
    <2> QED
      BY <2>2, <2>3
  <1>4. ASSUME NEW j \in Job, Finish(j) \/ Fail(j)
        PROVE  KeptInv'
    <2>1. End(j) /\ UNCHANGED <<ever, cleared, late>>
      BY <1>4 DEF Finish, Fail, application
    <2>2. \/ db' = db
          \/ Writing(j) /\ \E some \in SUBSET upload[j].docs : db' = db \cup some
      BY <1>4 DEF Finish, Fail, Writing
    <2> QED
      BY <1>0, <2>1, <2>2, KeptByEnd
  <1>5. CASE UNCHANGED vars
    <2>1. UNCHANGED <<db, ever, cleared, late, upload, pc, names, file>> /\ db \subseteq Doc
      BY <1>5 DEF vars, Sound, TypeInv, TypeOK
    <2>2. SafeStays
      BY <1>0, <2>1 DEF SafeStays
    <2> QED
      BY <2>1, <2>2, KeptByMore
  <1> QED
    BY <1>0, <1>1, <1>2, <1>3, <1>4, <1>5, KeptByApplication, KeptByListNames, KeptByReadColl,
       KeptBySave, KeptByDropColl
    DEF Next, Step, run_backup, restore_confirm

\* Every document ever written is in the database, was deleted by the
\* application, is in a backup file that can be read or was written while a
\* restore was under way: the backup that restore_confirm makes first is enough,
\* whichever restores overlap, fail or are repeated, but for the documents of
\* dumps that two restores or backups made under one name in one second.
THEOREM NothingLost == Spec => []NothingIsLost
  <1>1. Init => KeptInv
    BY DatabaseAssumption
    DEF Init, KeptInv, FilesInv, Dumping, NothingIsLost, SafeOrRead, AllSafe
  <1>2. Sound /\ KeptInv /\ [Next]_vars => KeptInv'
    BY KeptStep
  <1>3. KeptInv => NothingIsLost
    BY DEF KeptInv
  <1> QED
    BY AlwaysSound, <1>1, <1>2, <1>3, PTL DEF Spec

-----------------------------------------------------------------------------
(***************************************************************************)
(* Dumps are closed.  Until something is restored, a document outside the  *)
(* logs stays once it is written.  A dump that has listed its collections  *)
(* has the permanent ones among those it has still to read, or has read    *)
(* them before every one it has still to read; and the owner of a log was  *)
(* there before the log was listed.                                        *)
(***************************************************************************)
NeedsWritten == \A e \in ever : Needs[e] # NoDoc => Needs[e] \in ever

KeptUnlessLogged == \A e \in ever : Home[e] \notin Logs => e \in db

Known(c) == c \in Permanent \/ \E e \in ever : Home[e] = c

\* What a dump will have read of the document another one needs.
Ahead(j, d) == Home[Needs[d]] \in names[j] \/ Needs[d] \in file[j]

ReadingInOrder(j) ==
  /\ \A p \in Permanent : p \in names[j] \/ \A c \in names[j] : Rank[p] <= Rank[c]
  /\ \A c \in names[j] : Known(c)
  /\ \A d \in Doc : Needs[d] # NoDoc /\ Home[d] \in names[j] \ Permanent => Ahead(j, d)
  /\ \A d \in file[j] : Needs[d] # NoDoc => Ahead(j, d)

NothingReadYet == \A j \in Job : pc[j] \in {"idle", "list"} => file[j] = {}

InsertsAfterDrops == \A j \in Job : pc[j] = "insert" => restored

Pristine ==
  /\ KeptUnlessLogged
  /\ Permanent \subseteq existing
  /\ \A c \in existing : Known(c)
  /\ \A j \in Job : pc[j] = "read" => ReadingInOrder(j)

ClosedInv ==
  /\ DumpIsClosed
  /\ NeedsWritten
  /\ NothingReadYet
  /\ InsertsAfterDrops
  /\ ~restored => Pristine

LEMMA NeedsFacts ==
  ASSUME NEW d \in Doc, Needs[d] # NoDoc
  PROVE  /\ Needs[d] \in Doc
         /\ Home[d] \in Coll
         /\ Home[Needs[d]] \in Coll
         /\ Home[Needs[d]] \in Permanent
         /\ Home[Needs[d]] \notin Logs
         /\ \/ Rank[Home[d]] < Rank[Home[Needs[d]]]
            \/ Home[d] \notin Permanent
               /\ \A e \in Doc : Home[e] = Home[d] => Needs[e] = Needs[d]
  BY DatabaseAssumption

\* The parts that do not depend on what has been restored.
LEMMA NeedsWrittenStep == ASSUME Sound, NeedsWritten, [Next]_vars PROVE NeedsWritten'
  <1>1. ever' = ever \/ \E d \in Doc : ever' = ever \cup {d} /\ Needs[d] \in ever \cup {NoDoc}
    BY DEF Next, Step, Write, ClearOne, run_backup, restore_confirm, Begin, ListNames, ReadColl,
           Save, OpenFile, BeginDropping, DropColl, InsertMany, Finish, Fail, application, files, vars
  <1> QED
    BY <1>1 DEF NeedsWritten

LEMMA ReadYetStep ==
  ASSUME Sound, NothingReadYet, InsertsAfterDrops, [Next]_vars
  PROVE  NothingReadYet' /\ InsertsAfterDrops'
  <1> USE DEF NothingReadYet, InsertsAfterDrops, Goto, Sound, TypeInv, TypeOK
  <1>1. ASSUME NEW d \in Doc, Write(d) \/ ClearOne(d)
        PROVE  NothingReadYet' /\ InsertsAfterDrops'
    BY <1>1 DEF Write, ClearOne
  <1>2. ASSUME NEW j \in Job, NEW f, NEW damaged, Begin(j, f, damaged)
        PROVE  NothingReadYet' /\ InsertsAfterDrops'
    BY <1>2 DEF Begin, history
  <1>3. ASSUME NEW j \in Job, ListNames(j) \/ ReadColl(j) \/ Save(j)
        PROVE  NothingReadYet' /\ InsertsAfterDrops'
    BY <1>3 DEF ListNames, ReadColl, Save, history
  <1>4. ASSUME NEW j \in Job, End(j), UNCHANGED restored
        PROVE  NothingReadYet' /\ InsertsAfterDrops'
    BY <1>4 DEF End
  <1>5. ASSUME NEW j \in Job, OpenFile(j)
        PROVE  NothingReadYet' /\ InsertsAfterDrops'
    BY <1>4, <1>5 DEF OpenFile, BeginDropping
  <1>6. ASSUME NEW j \in Job, DropColl(j)
        PROVE  NothingReadYet' /\ InsertsAfterDrops'
    BY <1>6 DEF DropColl
  <1>7. ASSUME NEW j \in Job, InsertMany(j)
        PROVE  NothingReadYet' /\ InsertsAfterDrops'
    <2>1. CASE End(j)
      BY <1>4, <1>7, <2>1 DEF InsertMany
    <2>2. CASE ~End(j)
      BY <1>7, <2>2 DEF InsertMany
    <2> QED
      BY <2>1, <2>2
  <1>8. ASSUME NEW j \in Job, Finish(j) \/ Fail(j)
        PROVE  NothingReadYet' /\ InsertsAfterDrops'
    BY <1>4, <1>8 DEF Finish, Fail
  <1>9. CASE UNCHANGED vars
    BY <1>9 DEF vars
  <1> QED
    BY <1>1, <1>2, <1>3, <1>5, <1>6, <1>7, <1>8, <1>9 DEF Next, Step, run_backup, restore_confirm

\* A complete file is written by a dump that has nothing left to read.
LEMMA ClosedStep ==
  ASSUME Sound, ClosedInv, [Next]_vars
  PROVE  DumpIsClosed'
  <1>1. ASSUME NEW j \in Job, Save(j)
        PROVE  DumpIsClosed'
    <2>1. \A f \in saved' :
            f \in saved \/ f = [docs |-> file[j], pristine |-> ~restored, complete |-> TRUE]
      BY <1>1 DEF Save, Close
    <2>2. ~restored => \A d \in file[j] : Needs[d] # NoDoc => Needs[d] \in file[j]
      BY <1>1 DEF Save, ClosedInv, Pristine, ReadingInOrder, Ahead
    <2>3. ASSUME NEW f \in saved', f.complete, f.pristine
          PROVE  \A d \in f.docs : Needs[d] # NoDoc => Needs[d] \in f.docs
      <3>1. CASE f \in saved
        BY <2>3, <3>1 DEF DumpIsClosed, ClosedInv
      <3>2. CASE f = [docs |-> file[j], pristine |-> ~restored, complete |-> TRUE]
        <4>1. f.docs = file[j] /\ f.pristine = ~restored
          BY <3>2
        <4> QED
          BY <2>2, <2>3, <4>1
      <3> QED
        BY <2>1, <3>1, <3>2
    <2> QED
      BY <2>3 DEF DumpIsClosed
  <1>2. ASSUME NEW j \in Job, Fail(j)
        PROVE  \A f \in saved' : f \in saved \/ ~f.complete
    BY <1>2 DEF Fail, Close, files
  <1>3. (\E j \in Job : Save(j) \/ Fail(j)) \/ saved' = saved
    BY DEF Next, Step, Write, ClearOne, run_backup, restore_confirm, Begin, ListNames, ReadColl,
           OpenFile, BeginDropping, DropColl, InsertMany, Finish, application, files, vars
  <1> QED
    BY <1>1, <1>2, <1>3 DEF DumpIsClosed, ClosedInv

\* A step that leaves the database and the dumps alone.
LEMMA PristineByLess ==
  ASSUME Sound, Pristine, UNCHANGED <<db, existing, ever>>,
         \A j \in Job : pc'[j] = "read" =>
           pc[j] = "read" /\ names'[j] = names[j] /\ file'[j] = file[j]
  PROVE  Pristine'
  BY DEF Pristine, KeptUnlessLogged, ReadingInOrder, Known, Ahead

LEMMA PristineByApplication ==
  ASSUME Sound, Pristine, NEW d \in Doc, Write(d) \/ ClearOne(d)
  PROVE  Pristine'
  <1>1. UNCHANGED <<pc, names, file>> /\ ever \subseteq ever' /\ existing \subseteq existing'
    BY DEF Write, ClearOne
  <1>2. \A c : Known(c) => Known(c)'
    BY <1>1 DEF Known
  <1>3. \A c \in existing' : Known(c)'
    BY <1>2 DEF Pristine, Known, Write, ClearOne
  <1>4. KeptUnlessLogged'
    BY DEF Pristine, KeptUnlessLogged, Write, ClearOne
  <1>5. ASSUME NEW j \in Job, pc'[j] = "read"
        PROVE  ReadingInOrder(j)'
    BY <1>1, <1>2, <1>5 DEF Pristine, ReadingInOrder, Ahead
  <1> QED
    BY <1>1, <1>3, <1>4, <1>5 DEF Pristine

LEMMA PristineByListNames ==
  ASSUME Sound, NothingReadYet, Pristine, NEW j \in Job, ListNames(j)
  PROVE  Pristine'
  <1>1. UNCHANGED <<db, existing, ever, file>>
    BY DEF ListNames, application, files
  <1>2. names'[j] = existing /\ \A k \in Job \ {j} : names'[k] = names[k] /\ pc'[k] = pc[k]
    BY DEF ListNames, Goto, Sound, TypeInv, TypeOK
  <1>3. file'[j] = {}
    BY <1>1 DEF ListNames, NothingReadYet
  <1>4. \A c : Known(c)' <=> Known(c)
    BY <1>1 DEF Known
  <1>5. ReadingInOrder(j)'
    <2>1. \A d \in Doc : Needs[d] # NoDoc => Ahead(j, d)'
      BY <1>2, NeedsFacts DEF Pristine, Ahead
    <2> QED
      BY <1>2, <1>3, <1>4, <2>1 DEF Pristine, ReadingInOrder
  <1>6. \A k \in Job \ {j} : pc[k] = "read" => ReadingInOrder(k)'
    BY <1>1, <1>2, <1>4 DEF Pristine, ReadingInOrder, Ahead
  <1>7. KeptUnlessLogged'
    BY <1>1 DEF Pristine, KeptUnlessLogged
  <1> QED
    BY <1>1, <1>2, <1>4, <1>5, <1>6, <1>7 DEF Pristine

LEMMA PristineByReadColl ==
  ASSUME Sound, NeedsWritten, Pristine, NEW j \in Job, ReadColl(j)
  PROVE  Pristine'
  <1>1. UNCHANGED <<db, existing, ever, pc>> /\ pc[j] = "read"
    BY DEF ReadColl, application, files
  <1>2. PICK c \in names[j] : /\ Lowest(c, names[j])
                              /\ names' = [names EXCEPT ![j] = @ \ {c}]
                              /\ file' = [file EXCEPT ![j] = @ \cup (db \cap In(c))]
    BY DEF ReadColl
  <1>3. names'[j] = names[j] \ {c} /\ file'[j] = file[j] \cup (db \cap In(c))
    BY <1>2 DEF Sound, TypeInv, TypeOK
  <1>4. \A k \in Job \ {j} : names'[k] = names[k] /\ file'[k] = file[k]
    BY <1>2 DEF Sound, TypeInv, TypeOK
  <1>5. \A e : Known(e)' <=> Known(e)
    BY <1>1 DEF Known
  <1>6. ReadingInOrder(j)
    BY <1>1 DEF Pristine
  <1>7. c \in Coll /\ names[j] \subseteq Coll /\ file[j] \subseteq ever /\ db \subseteq ever
        /\ ever \subseteq Doc
    BY <1>2 DEF Sound, TypeInv, TypeOK, AllWritten
  <1>8. \A d \in ever : Needs[d] # NoDoc => Needs[d] \in db
    BY <1>7, NeedsFacts DEF NeedsWritten, Pristine, KeptUnlessLogged
  \* A document that was ahead still is: reading c may only turn "to be read" into "read".
  <1>9. ASSUME NEW d \in Doc, Needs[d] # NoDoc, Needs[d] \in db, Ahead(j, d)
        PROVE  Ahead(j, d)'
    <2>1. Needs[d] \in Doc
      BY <1>9, NeedsFacts
    <2> QED
      BY <1>3, <1>9, <2>1 DEF Ahead, In
  <1>10. \A p \in Permanent : p \in names'[j] \/ \A e \in names'[j] : Rank[p] <= Rank[e]
    BY <1>2, <1>3, <1>6 DEF ReadingInOrder, Lowest
  <1>11. ASSUME NEW d \in Doc, Needs[d] # NoDoc, Home[d] \in names'[j] \ Permanent
         PROVE  Ahead(j, d)'
    <2>1. Ahead(j, d) /\ Known(Home[d])
      BY <1>3, <1>6, <1>11 DEF ReadingInOrder
    <2>2. PICK e \in ever : Home[e] = Home[d]
      BY <1>11, <2>1 DEF Known
    <2>3. CASE Rank[Home[d]] < Rank[Home[Needs[d]]]
      <3>1. Home[Needs[d]] \in names[j]
        BY <1>3, <1>6, <1>11, <2>3, NeedsFacts, DatabaseAssumption DEF ReadingInOrder
      <3>2. Home[Needs[d]] # c
        BY <1>2, <1>3, <1>7, <1>11, <2>3, NeedsFacts, DatabaseAssumption DEF Lowest
      <3> QED
        BY <1>3, <3>1, <3>2 DEF Ahead
    <2>4. CASE \A x \in Doc : Home[x] = Home[d] => Needs[x] = Needs[d]
      <3>1. Needs[e] = Needs[d]
        BY <1>7, <2>2, <2>4
      <3> QED
        BY <1>8, <1>9, <1>11, <2>1, <2>2, <3>1
    <2> QED
      BY <1>11, <2>3, <2>4, NeedsFacts
  <1>12. ASSUME NEW d \in file'[j], Needs[d] # NoDoc
         PROVE  Ahead(j, d)'
    <2>1. CASE d \in file[j]
      BY <1>6, <1>7, <1>8, <1>9, <1>12, <2>1 DEF ReadingInOrder
    <2>2. CASE d \in db \cap In(c)
      <3>1. d \in Doc /\ Home[d] = c
        BY <1>7, <2>2 DEF In
      <3>2. CASE Rank[Home[d]] < Rank[Home[Needs[d]]]
        <4>1. Home[Needs[d]] \in names[j]
          BY <1>2, <1>6, <1>12, <3>1, <3>2, NeedsFacts, DatabaseAssumption DEF ReadingInOrder
        <4>2. Home[Needs[d]] # c
          BY <1>7, <1>12, <3>1, <3>2, NeedsFacts, DatabaseAssumption
        <4> QED
          BY <1>3, <4>1, <4>2 DEF Ahead
      <3>3. CASE Home[d] \notin Permanent
        <4>1. Ahead(j, d)
          BY <1>2, <1>6, <1>12, <3>1, <3>3 DEF ReadingInOrder
        <4> QED
          BY <1>7, <1>8, <1>9, <1>12, <2>2, <3>1, <4>1
      <3> QED
        BY <1>12, <3>1, <3>2, <3>3, NeedsFacts
    <2> QED
      BY <1>3, <1>12, <2>1, <2>2
  <1>13. ReadingInOrder(j)'
    BY <1>3, <1>5, <1>6, <1>10, <1>11, <1>12 DEF ReadingInOrder
  <1>14. \A k \in Job \ {j} : pc[k] = "read" => ReadingInOrder(k)'
    BY <1>1, <1>4, <1>5 DEF Pristine, ReadingInOrder, Ahead
  <1>15. KeptUnlessLogged'
    BY <1>1 DEF Pristine, KeptUnlessLogged
  <1> QED
    BY <1>1, <1>5, <1>13, <1>14, <1>15 DEF Pristine

LEMMA ClosedInvStep ==
  ASSUME Sound, ClosedInv, [Next]_vars
  PROVE  ClosedInv'
  <1>1. restored => restored'
    BY DEF Next, Step, Write, ClearOne, run_backup, restore_confirm, Begin, ListNames, ReadColl,
           Save, OpenFile, BeginDropping, DropColl, InsertMany, Finish, Fail, history, vars
  <1>2. ASSUME ~restored, ~restored'
        PROVE  Pristine'
    <2>1. Pristine
      BY <1>2 DEF ClosedInv
    <2>2. ASSUME NEW j \in Job, End(j), UNCHANGED <<db, existing, ever>>
          PROVE  Pristine'
      <3>1. \A k \in Job : pc'[k] = "read" =>
              pc[k] = "read" /\ names'[k] = names[k] /\ file'[k] = file[k]
        BY <2>2 DEF End, Goto, Sound, TypeInv, TypeOK
      <3> QED
        BY <2>1, <2>2, <3>1, PristineByLess
    <2>3. ASSUME NEW j \in Job, NEW f, NEW damaged, Begin(j, f, damaged)
          PROVE  Pristine'
      <3>1. \A k \in Job : pc'[k] = "read" => pc[k] = "read"
        BY <2>3 DEF Begin, Goto, Sound, TypeInv, TypeOK
      <3> QED
        BY <2>1, <2>3, <3>1, PristineByLess DEF Begin, application, files
    <2>4. ASSUME NEW j \in Job, Save(j)
          PROVE  Pristine'
      <3>1. \A k \in Job : pc'[k] = "read" =>
              pc[k] = "read" /\ names'[k] = names[k] /\ file'[k] = file[k]
        BY <2>4 DEF Save, Goto, Sound, TypeInv, TypeOK
      <3> QED
        BY <2>1, <2>4, <3>1, PristineByLess DEF Save, application, files
    <2>5. ASSUME NEW j \in Job, OpenFile(j)
          PROVE  Pristine'
      <3>1. CASE BeginDropping(j)
        <4>1. \A k \in Job : pc'[k] = "read" => pc[k] = "read"
          BY <3>1 DEF BeginDropping, Goto, Sound, TypeInv, TypeOK
        <4> QED
          BY <2>1, <3>1, <4>1, PristineByLess DEF BeginDropping, application, files
      <3>2. CASE End(j) /\ UNCHANGED <<db, existing, application>>
        BY <2>2, <3>2 DEF application, files
      <3> QED
        BY <2>5, <3>1, <3>2 DEF OpenFile
    <2>6. ASSUME NEW j \in Job, DropColl(j) \/ InsertMany(j)
          PROVE  FALSE
      BY <1>2, <2>6 DEF DropColl, InsertMany, ClosedInv, InsertsAfterDrops
    <2>7. ASSUME NEW j \in Job, Finish(j) \/ Fail(j)
          PROVE  Pristine'
      BY <1>2, <2>2, <2>7 DEF Finish, Fail, application, files, ClosedInv, InsertsAfterDrops
    <2>8. CASE UNCHANGED vars
      BY <2>1, <2>8, PristineByLess DEF vars
    <2> QED
      BY <2>1, <2>3, <2>4, <2>5, <2>6, <2>7, <2>8, PristineByApplication, PristineByListNames,
         PristineByReadColl
      DEF ClosedInv, Next, Step, run_backup, restore_confirm
  <1> QED
    BY <1>1, <1>2, NeedsWrittenStep, ReadYetStep, ClosedStep DEF ClosedInv

\* A dump is no snapshot and yet, until something is restored, it never holds a
\* token or a QSO without the user it belongs to, whatever the application
\* writes and clears while it reads: the names are sorted and read once.
THEOREM DumpsAreClosed == Spec => []DumpIsClosed
  <1>1. Init => ClosedInv
    <2>1. Init => DumpIsClosed /\ NothingReadYet /\ InsertsAfterDrops
      BY DEF Init, DumpIsClosed, NothingReadYet, InsertsAfterDrops
    <2>2. Init => NeedsWritten
      BY DatabaseAssumption DEF Init, NeedsWritten
    <2>3. Init => Pristine
      BY DEF Init, Pristine, KeptUnlessLogged, Known
    <2> QED
      BY <2>1, <2>2, <2>3 DEF ClosedInv
  <1>2. Sound /\ ClosedInv /\ [Next]_vars => ClosedInv'
    BY ClosedInvStep
  <1>3. ClosedInv => DumpIsClosed
    BY DEF ClosedInv
  <1> QED
    BY AlwaysSound, <1>1, <1>2, <1>3, PTL DEF Spec

-----------------------------------------------------------------------------
(***************************************************************************)
(* Restores are exact.  A restore without another beside it is the only    *)
(* one that drops or fills; the collections it is done with are what its   *)
(* file says, and the one it has just dropped is empty, but for what the   *)
(* application has touched.                                                *)
(***************************************************************************)
DoneWith(j) == Named(upload[j].docs) \ todo[j]

ExactFor(j) ==
  /\ \A d \in Doc \ touched[j] : Home[d] \in DoneWith(j) => (d \in db <=> d \in upload[j].docs)
  /\ pc[j] = "insert" => \A d \in Doc \ touched[j] : Lowest(Home[d], todo[j]) => d \notin db
  /\ pc[j] = "restored" => todo[j] = {}
  /\ \A i \in Job \ {j} : ~Writing(i)

ExactInv == \A j \in Job : Writing(j) /\ alone[j] => ExactFor(j)

\* The order of the names is strict.
LEMMA OneLowest ==
  ASSUME TypeOK, NEW j \in Job, NEW c, NEW e, Lowest(c, todo[j]), Lowest(e, todo[j])
  PROVE  c = e
  <1>1. c \in Coll /\ e \in Coll
    BY DEF Lowest, TypeOK
  <1>2. Rank[c] \in Nat /\ Rank[e] \in Nat /\ Rank[c] <= Rank[e] /\ Rank[e] <= Rank[c]
    BY <1>1, DatabaseAssumption DEF Lowest
  <1>3. Rank[c] = Rank[e]
    BY <1>2
  <1> QED
    BY <1>1, <1>3, DatabaseAssumption

\* A step that is not about job j, and of no job that drops or fills.
LEMMA ExactByOthers ==
  ASSUME NEW j \in Job, ExactFor(j), touched[j] \subseteq touched'[j],
         \A d \in Doc \ touched'[j] : d \in db' <=> d \in db,
         upload'[j] = upload[j], todo'[j] = todo[j], pc'[j] = pc[j],
         \A i \in Job \ {j} : ~Writing(i)'
  PROVE  ExactFor(j)'
  BY DEF ExactFor, DoneWith, Lowest

LEMMA ExactByApplication ==
  ASSUME Sound, ExactInv, NEW d \in Doc, Write(d) \/ ClearOne(d)
  PROVE  ExactInv'
  <1> SUFFICES ASSUME NEW j \in Job, Writing(j)', alone'[j] PROVE ExactFor(j)'
    BY DEF ExactInv
  <1>1. UNCHANGED <<pc, upload, todo, alone>> /\ Touch(d)
    BY DEF Write, ClearOne
  <1>2. Writing(j) /\ ExactFor(j)
    BY <1>1 DEF ExactInv, Writing
  <1>3. touched'[j] = touched[j] \cup {d}
    BY <1>1, <1>2 DEF Touch, Sound, TypeInv, TypeOK
  <1>4. \A e \in Doc \ touched'[j] : e \in db' <=> e \in db
    BY <1>3 DEF Write, ClearOne
  <1>5. \A i \in Job \ {j} : ~Writing(i)'
    BY <1>1, <1>2 DEF ExactFor, Writing
  <1> QED
    BY <1>1, <1>2, <1>3, <1>4, <1>5, ExactByOthers

\* A job that neither drops nor fills does not begin to.
LEMMA ExactByIdler ==
  ASSUME Sound, ExactInv, NEW k \in Job, ~Writing(k)', UNCHANGED db,
         \A j \in Job \ {k} : /\ pc'[j] = pc[j] /\ upload'[j] = upload[j] /\ todo'[j] = todo[j]
                              /\ touched'[j] = touched[j] /\ alone'[j] = alone[j]
  PROVE  ExactInv'
  <1> SUFFICES ASSUME NEW j \in Job, Writing(j)', alone'[j] PROVE ExactFor(j)'
    BY DEF ExactInv
  <1>1. j # k
    OBVIOUS
  <1>2. Writing(j) /\ ExactFor(j)
    BY <1>1 DEF ExactInv, Writing
  <1>3. \A i \in Job \ {j} : ~Writing(i)'
    BY <1>2 DEF ExactFor, Writing
  <1> QED
    BY <1>1, <1>2, <1>3, ExactByOthers

LEMMA EndIsIdle ==
  ASSUME Sound, NEW k \in Job, End(k)
  PROVE  /\ ~Writing(k)'
         /\ \A j \in Job \ {k} : /\ pc'[j] = pc[j] /\ upload'[j] = upload[j] /\ todo'[j] = todo[j]
                                 /\ touched'[j] = touched[j] /\ alone'[j] = alone[j]
  BY DEF End, Goto, Writing, Sound, TypeInv, TypeOK

LEMMA ExactByBeginDropping ==
  ASSUME Sound, ExactInv, NEW k \in Job, pc[k] = "open", BeginDropping(k)
  PROVE  ExactInv'
  <1> SUFFICES ASSUME NEW j \in Job, Writing(j)', alone'[j] PROVE ExactFor(j)'
    BY DEF ExactInv
  <1>1. alone'[j] = IF j = k THEN \A i \in Job \ {k} : ~Writing(i) ELSE alone[j] /\ ~Writing(j)
    BY DEF BeginDropping
  <1>2. \A i \in Job \ {k} : pc'[i] = pc[i]
    BY DEF BeginDropping, Goto, Sound, TypeInv, TypeOK
  <1>3. j = k
    BY <1>1, <1>2 DEF Writing
  <1>4. pc'[j] = "drop" /\ upload'[j] = upload[j] /\ todo'[j] = Named(upload[j].docs)
    BY <1>3 DEF BeginDropping, Goto, Sound, TypeInv, TypeOK
  <1>5. \A i \in Job \ {j} : ~Writing(i)'
    BY <1>1, <1>2, <1>3 DEF Writing
  <1> QED
    BY <1>4, <1>5 DEF ExactFor, DoneWith

LEMMA ExactByDropColl ==
  ASSUME Sound, ExactInv, NEW k \in Job, DropColl(k)
  PROVE  ExactInv'
  <1> SUFFICES ASSUME NEW j \in Job, Writing(j)', alone'[j] PROVE ExactFor(j)'
    BY DEF ExactInv
  <1>1. UNCHANGED <<upload, todo, touched, alone>>
    BY DEF DropColl
  <1>2. \A i \in Job : Writing(i)' <=> Writing(i)
    BY DEF DropColl, Goto, Writing, Sound, TypeInv, TypeOK
  <1>3. Writing(j) /\ ExactFor(j) /\ Writing(k)
    BY <1>1, <1>2 DEF ExactInv, DropColl, Writing
  <1>4. j = k
    BY <1>3 DEF ExactFor
  <1>5. PICK c \in todo[j] : Lowest(c, todo[j]) /\ db' = db \ In(c)
    BY <1>4 DEF DropColl
  <1>6. pc'[j] = "insert"
    BY <1>4 DEF DropColl, Goto, Sound, TypeInv, TypeOK
  <1>7. \A d \in Doc : Lowest(Home[d], todo[j]) => Home[d] = c
    BY <1>5, OneLowest DEF Sound, TypeInv
  <1>8. \A d \in Doc \ touched[j] : Home[d] \in DoneWith(j) => (d \in db' <=> d \in upload[j].docs)
    BY <1>3, <1>5 DEF ExactFor, DoneWith, In
  <1>9. \A d \in Doc : Lowest(Home[d], todo[j]) => d \notin db'
    BY <1>5, <1>7 DEF In
  <1> QED
    BY <1>1, <1>2, <1>3, <1>6, <1>8, <1>9 DEF ExactFor, DoneWith, Lowest

LEMMA ExactByInsertMany ==
  ASSUME Sound, ExactInv, NEW k \in Job, InsertMany(k)
  PROVE  ExactInv'
  <1> SUFFICES ASSUME NEW j \in Job, Writing(j)', alone'[j] PROVE ExactFor(j)'
    BY DEF ExactInv
  <1>1. Writing(k)
    BY DEF InsertMany, Writing
  <1>2. CASE End(k)
    <2>1. j # k /\ pc'[j] = pc[j] /\ alone'[j] = alone[j]
      BY <1>2, EndIsIdle
    <2>2. Writing(j) /\ ExactFor(j)
      BY <2>1 DEF ExactInv, Writing
    <2> QED
      BY <1>1, <2>1, <2>2 DEF ExactFor
  <1>3. CASE ~End(k)
    <2>1. PICK c \in todo[k] :
            /\ Lowest(c, todo[k])
            /\ db' = db \cup (upload[k].docs \cap In(c))
            /\ todo' = [todo EXCEPT ![k] = @ \ {c}]
            /\ Goto(k, IF todo[k] = {c} THEN "restored" ELSE "drop")
            /\ UNCHANGED <<upload, touched, alone>>
      BY <1>3 DEF InsertMany
    <2>2. \A i \in Job : Writing(i)' => Writing(i)
      BY <1>1, <2>1 DEF Goto, Writing, Sound, TypeInv, TypeOK
    <2>3. Writing(j) /\ ExactFor(j)
      BY <2>1, <2>2 DEF ExactInv
    <2>4. j = k
      BY <1>1, <2>3 DEF ExactFor
    <2>5. pc[j] = "insert" /\ pc'[j] = (IF todo[j] = {c} THEN "restored" ELSE "drop")
          /\ todo'[j] = todo[j] \ {c}
      BY <2>1, <2>4 DEF InsertMany, Goto, Sound, TypeInv, TypeOK
    <2>6. upload[j].docs \in SUBSET Doc
      BY <2>3, UploadDocs DEF Sound, TypeInv, TypeOK
    <2>7. ASSUME NEW d \in Doc \ touched[j], Home[d] \in Named(upload[j].docs) \ todo'[j]
          PROVE  d \in db' <=> d \in upload[j].docs
      <3>1. CASE Home[d] = c
        <4>1. d \notin db
          BY <2>1, <2>3, <2>4, <2>5, <3>1 DEF ExactFor
        <4> QED
          BY <2>1, <2>4, <3>1, <4>1 DEF In
      <3>2. CASE Home[d] # c
        <4>1. Home[d] \in DoneWith(j)
          BY <2>5, <2>7, <3>2 DEF DoneWith
        <4>2. d \in db <=> d \in upload[j].docs
          BY <2>3, <4>1 DEF ExactFor
        <4> QED
          BY <2>1, <2>4, <3>2, <4>2 DEF In
      <3> QED
        BY <3>1, <3>2
    <2>8. pc'[j] # "insert" /\ (pc'[j] = "restored" => todo'[j] = {})
      BY <2>5
    <2>9. \A i \in Job \ {j} : ~Writing(i)'
      BY <2>2, <2>3 DEF ExactFor
    <2> QED
      BY <2>1, <2>7, <2>8, <2>9 DEF ExactFor, DoneWith
  <1> QED
    BY <1>2, <1>3

LEMMA ExactStep ==
  ASSUME Sound, ExactInv, [Next]_vars
  PROVE  ExactInv'
  <1>1. ASSUME NEW k \in Job, NEW f, NEW damaged, Begin(k, f, damaged)
        PROVE  ExactInv'
    <2>1. ~Writing(k)'
          /\ \A j \in Job \ {k} : /\ pc'[j] = pc[j] /\ upload'[j] = upload[j] /\ todo'[j] = todo[j]
                                  /\ touched'[j] = touched[j] /\ alone'[j] = alone[j]
      BY <1>1 DEF Begin, Goto, Writing, history, Sound, TypeInv, TypeOK
    <2> QED
      BY <1>1, <2>1, ExactByIdler DEF Begin
  <1>2. ASSUME NEW k \in Job, ListNames(k) \/ ReadColl(k) \/ Save(k)
        PROVE  ExactInv'
    <2>1. ~Writing(k)'
          /\ \A j \in Job \ {k} : /\ pc'[j] = pc[j] /\ upload'[j] = upload[j] /\ todo'[j] = todo[j]
                                  /\ touched'[j] = touched[j] /\ alone'[j] = alone[j]
      BY <1>2 DEF ListNames, ReadColl, Save, Goto, Writing, history, Sound, TypeInv, TypeOK
    <2> QED
      BY <1>2, <2>1, ExactByIdler DEF ListNames, ReadColl, Save
  <1>3. ASSUME NEW k \in Job, OpenFile(k)
        PROVE  ExactInv'
    BY <1>3, ExactByBeginDropping, EndIsIdle, ExactByIdler DEF OpenFile
  <1>4. ASSUME NEW k \in Job, Finish(k)
        PROVE  ExactInv'
    BY <1>4, EndIsIdle, ExactByIdler DEF Finish
  <1>5. ASSUME NEW k \in Job, Fail(k)
        PROVE  ExactInv'
    <2>1. CASE pc[k] # "insert"
      BY <1>5, <2>1, EndIsIdle, ExactByIdler DEF Fail
    <2>2. CASE pc[k] = "insert"
      <3> SUFFICES ASSUME NEW j \in Job, Writing(j)', alone'[j] PROVE ExactFor(j)'
        BY DEF ExactInv
      <3>1. j # k /\ pc'[j] = pc[j] /\ alone'[j] = alone[j]
        BY <1>5, EndIsIdle DEF Fail
      <3>2. Writing(j) /\ ExactFor(j)
        BY <3>1 DEF ExactInv, Writing
      <3> QED
        BY <2>2, <3>1, <3>2 DEF ExactFor, Writing
    <2> QED
      BY <2>1, <2>2
  <1>6. CASE UNCHANGED vars
    BY <1>6 DEF vars, ExactInv, ExactFor, DoneWith, Lowest, Writing
  <1> QED
    BY <1>1, <1>2, <1>3, <1>4, <1>5, <1>6, ExactByApplication, ExactByDropColl, ExactByInsertMany
    DEF Next, Step, run_backup, restore_confirm

\* A restore that succeeds without another one beside it leaves every
\* collection its file names as the file has it, but for what the application
\* has written or cleared there meanwhile.
THEOREM RestoresAreExact == Spec => []RestoreIsExact
  <1>1. Init => ExactInv
    BY DEF Init, ExactInv, Writing
  <1>2. Sound /\ ExactInv /\ [Next]_vars => ExactInv'
    BY ExactStep
  <1>3. ExactInv => RestoreIsExact
    BY DEF ExactInv, RestoreIsExact, ExactFor, DoneWith, Writing
  <1> QED
    BY AlwaysSound, <1>1, <1>2, <1>3, PTL DEF Spec
=============================================================================
