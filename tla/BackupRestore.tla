---------------------------- MODULE BackupRestore ----------------------------
(***************************************************************************)
(* Backups and restores of the whole database (app/backup/dump.py,         *)
(* app/backup/restore.py, the restore pages of app/admin/ui_router.py)     *)
(* beside an application that goes on writing.                             *)
(*                                                                         *)
(* A dump asks for the names of the collections once and then reads one    *)
(* collection after the other, in the order of their names.  A restore     *)
(* dumps the database first, then drops and fills again one collection of  *)
(* its file after the other.  Nothing of this is a transaction, and any    *)
(* number of dumps and restores may run at once, in threads of both        *)
(* processes.  All dumps write to one directory and name their files by    *)
(* the second they begin in: two of one second write to the same file.     *)
(***************************************************************************)
EXTENDS Naturals, FiniteSets

CONSTANTS
  Coll,
  Rank,        \* [Coll -> Nat]: the alphabetical order of their names
  Permanent,   \* the collections init_beanie makes at every start
  Logs,        \* the operators' logs, which may be cleared
  Doc,
  Home,        \* [Doc -> Coll]
  Needs,       \* [Doc -> Doc \cup {NoDoc}]: the user a token or a QSO belongs to
  NoDoc,
  First,       \* what is in the database at the start
  Job, NoFile,
  MaxJobs, MaxFaults

\* A document that needs another is in a collection that is read before the
\* other's (api_tokens before users), or in one that is its owner's alone
\* (<username>_qsos).  Owners are not in logs, so nothing clears them.
ASSUME DatabaseAssumption ==
  /\ Rank \in [Coll -> Nat]
  /\ \A c, e \in Coll : Rank[c] = Rank[e] => c = e
  /\ Permanent \subseteq Coll
  /\ Logs \subseteq Coll
  /\ Home \in [Doc -> Coll]
  /\ NoDoc \notin Doc
  /\ Needs \in [Doc -> Doc \cup {NoDoc}]
  /\ \A d \in Doc : Needs[d] # NoDoc =>
       /\ Home[Needs[d]] \in Permanent \ Logs
       /\ \/ Rank[Home[d]] < Rank[Home[Needs[d]]]
          \/ Home[d] \notin Permanent
             /\ \A e \in Doc : Home[e] = Home[d] => Needs[e] = Needs[d]
  /\ First \subseteq {d \in Doc : Needs[d] = NoDoc /\ Home[d] \in Permanent}
  /\ NoFile \notin [docs: SUBSET Doc, pristine: BOOLEAN, complete: BOOLEAN]
  /\ MaxJobs \in Nat
  /\ MaxFaults \in Nat

VARIABLES
  db,         \* the documents
  existing,   \* the collections MongoDB has, empty ones included
  ever,       \* documents the application has written
  cleared,    \* documents the application has deleted since
  disk,       \* the file of each name, NoFile for none that can be read
  saved,      \* every file there has been that could be read: copies of them
  second,     \* the second the latest dump began in
  mixed,      \* names of files that two dumps had open at once
  pc,         \* where each job is
  upload,     \* the file it restores, NoFile for a mere backup
  cut,        \* whether that file has lost its end on the way, or is gone
  name,       \* the name of the file its dump writes, 0 for none
  names,      \* the collections its dump has still to read
  file,       \* what its dump has read
  todo,       \* the collections it has still to restore
  spent,      \* how much of the bounds is used
  \* History, read by properties only:
  restored,   \* some restore has dropped a collection
  late,       \* documents written while a restore was under way
  overwritten, \* documents of dumps whose file was another dump's as well
  touched,    \* documents written or deleted since a restore began to drop
  alone       \* whether no other restore dropped or filled since then

application == <<ever, cleared>>
files == <<disk, saved, second, mixed, overwritten>>
history == <<restored, late, touched, alone>>
vars == <<db, existing, ever, cleared, disk, saved, second, mixed, overwritten, pc, upload,
          cut, name, names, file, todo, spent, restored, late, touched, alone>>

Name == 1..MaxJobs   \* seconds in which dumps have begun
File == [docs: SUBSET Doc, pristine: BOOLEAN, complete: BOOLEAN]
In(c) == {d \in Doc : Home[d] = c}
Named(docs) == {Home[d] : d \in docs}
Lowest(c, S) == c \in S /\ \A e \in S : Rank[c] <= Rank[e]
Restoring(j) == upload[j] # NoFile
Dumping(j) == pc[j] \in {"list", "read"}
OnDisk(d) == \E n \in Name : disk[n] # NoFile /\ d \in disk[n].docs
Writing(j) == pc[j] \in {"drop", "insert", "restored"}

Init ==
  /\ db = First
  /\ existing = Permanent
  /\ ever = First
  /\ cleared = {}
  /\ disk = [n \in Name |-> NoFile]
  /\ saved = {}
  /\ second = 0
  /\ mixed = {}
  /\ overwritten = {}
  /\ pc = [j \in Job |-> "idle"]
  /\ upload = [j \in Job |-> NoFile]
  /\ cut = [j \in Job |-> FALSE]
  /\ name = [j \in Job |-> 0]
  /\ names = [j \in Job |-> {}]
  /\ file = [j \in Job |-> {}]
  /\ todo = [j \in Job |-> {}]
  /\ spent = [jobs |-> 0, faults |-> 0]
  /\ restored = FALSE
  /\ late = {}
  /\ touched = [j \in Job |-> {}]
  /\ alone = [j \in Job |-> FALSE]

Goto(j, label) == pc' = [pc EXCEPT ![j] = label]

-----------------------------------------------------------------------------
(***************************************************************************)
(* The application.  It is not told of a restore.                          *)
(***************************************************************************)
Touch(d) == touched' = [j \in Job |-> IF Writing(j) THEN touched[j] \cup {d} ELSE touched[j]]

\* An insert.  The user it is made for was there when the request was
\* authenticated and may have been dropped since.
Write(d) ==
  /\ d \notin ever
  /\ Needs[d] \in ever \cup {NoDoc}
  /\ db' = db \cup {d}
  /\ existing' = existing \cup {Home[d]}
  /\ ever' = ever \cup {d}
  /\ late' = IF \E j \in Job : Restoring(j) THEN late \cup {d} ELSE late
  /\ Touch(d)
  /\ UNCHANGED <<cleared, files, pc, upload, cut, name, names, file, todo, spent, restored, alone>>

\* One document of a log that is being cleared.
ClearOne(d) ==
  /\ d \in db
  /\ Home[d] \in Logs
  /\ db' = db \ {d}
  /\ cleared' = cleared \cup {d}
  /\ Touch(d)
  /\ UNCHANGED <<existing, ever, files, pc, upload, cut, name, names, file, todo, spent,
                 restored, late, alone>>

-----------------------------------------------------------------------------
(***************************************************************************)
(* Dumps.                                                                  *)
(***************************************************************************)
\* The dump of second n makes its file, or opens and empties the one of an
\* earlier dump of the same second.
Begin(j, f, damaged) ==
  /\ pc[j] = "idle"
  /\ spent.jobs < MaxJobs
  /\ spent' = [spent EXCEPT !.jobs = @ + 1]
  /\ upload' = [upload EXCEPT ![j] = f]
  /\ cut' = [cut EXCEPT ![j] = damaged]
  /\ Goto(j, "list")
  /\ \E n \in {second, second + 1} \cap Name :
       /\ second' = n
       /\ name' = [name EXCEPT ![j] = n]
       /\ disk' = [disk EXCEPT ![n] = NoFile]
       /\ mixed' = IF \E k \in Job : Dumping(k) /\ name[k] = n THEN mixed \cup {n} ELSE mixed \ {n}
       /\ overwritten' = overwritten \cup (IF disk[n] = NoFile THEN {} ELSE disk[n].docs)
  /\ UNCHANGED <<db, existing, application, saved, names, file, todo, history>>

\* A download, the scheduler, or `python -m app.backup`.
run_backup(j) == Begin(j, NoFile, FALSE)

\* POST /admin/ui/restore/confirm for an uploaded file, of which the upload
\* has looked at the first line only: there is one, in a partial file too.
restore_confirm(j) ==
  \E f \in saved, damaged \in BOOLEAN : f.docs # {} /\ Begin(j, f, damaged)

\* list_collection_names().
ListNames(j) ==
  /\ pc[j] = "list"
  /\ names' = [names EXCEPT ![j] = existing]
  /\ Goto(j, "read")
  /\ UNCHANGED <<db, existing, application, files, upload, cut, name, file, todo, spent, history>>

\* Mutant: the names are not sorted as they are.
ReadBackwards(j) ==
  /\ pc[j] = "read"
  /\ \E c \in names[j] :
       /\ \A e \in names[j] : Rank[c] >= Rank[e]
       /\ names' = [names EXCEPT ![j] = @ \ {c}]
       /\ file' = [file EXCEPT ![j] = @ \cup (db \cap In(c))]
  /\ disk' \in {disk, [disk EXCEPT ![name[j]] = NoFile]}
  /\ UNCHANGED <<db, existing, application, saved, second, mixed, overwritten,
                 pc, upload, cut, name, todo, spent, history>>

\* find({}) of the next collection, all of it.  What is written of it may
\* break the file that another dump has put there meanwhile.
ReadColl(j) ==
  /\ pc[j] = "read"
  /\ \E c \in names[j] :
       /\ Lowest(c, names[j])
       /\ names' = [names EXCEPT ![j] = @ \ {c}]
       /\ file' = [file EXCEPT ![j] = @ \cup (db \cap In(c))]
  /\ disk' \in {disk, [disk EXCEPT ![name[j]] = NoFile]}
  /\ UNCHANGED <<db, existing, application, saved, second, mixed, overwritten,
                 pc, upload, cut, name, todo, spent, history>>

\* The gzip file is closed: it has all that was read.  Of a file that two dumps
\* had open, what is left is that of the last one to close it, or unreadable.
Close(j, complete) ==
  LET f == [docs |-> file[j], pristine |-> ~restored, complete |-> complete] IN
  /\ \/ disk' = [disk EXCEPT ![name[j]] = f] /\ saved' = saved \cup {f}
     \/ name[j] \in mixed /\ disk' = [disk EXCEPT ![name[j]] = NoFile] /\ saved' = saved
  /\ overwritten' = overwritten \cup (IF name[j] \in mixed THEN file[j] ELSE {})
  /\ UNCHANGED <<second, mixed>>

\* The file is complete; a restore goes on to the one it is to restore.
Save(j) ==
  /\ pc[j] = "read"
  /\ names[j] = {}
  /\ Close(j, TRUE)
  /\ file' = [file EXCEPT ![j] = {}]
  /\ name' = [name EXCEPT ![j] = 0]
  /\ Goto(j, IF Restoring(j) THEN "open" ELSE "idle")
  /\ UNCHANGED <<db, existing, application, upload, cut, names, todo, spent, history>>

-----------------------------------------------------------------------------
(***************************************************************************)
(* Restores.                                                               *)
(***************************************************************************)
\* The job ends, whatever came of it.
End(j) ==
  /\ Goto(j, "idle")
  /\ upload' = [upload EXCEPT ![j] = NoFile]
  /\ cut' = [cut EXCEPT ![j] = FALSE]
  /\ name' = [name EXCEPT ![j] = 0]
  /\ names' = [names EXCEPT ![j] = {}]
  /\ file' = [file EXCEPT ![j] = {}]
  /\ todo' = [todo EXCEPT ![j] = {}]
  /\ touched' = [touched EXCEPT ![j] = {}]
  /\ alone' = [alone EXCEPT ![j] = FALSE]

BeginDropping(j) ==
  /\ todo' = [todo EXCEPT ![j] = Named(upload[j].docs)]
  /\ Goto(j, "drop")
  /\ alone' = [k \in Job |-> IF k = j THEN \A i \in Job \ {j} : ~Writing(i)
                             ELSE alone[k] /\ ~Writing(k)]
  /\ UNCHANGED <<db, existing, application, files, upload, cut, name, names, file, spent,
                 restored, late, touched>>

\* Mutant: each line is restored as it is read.
OpenLazily(j) ==
  /\ pc[j] = "open"
  /\ BeginDropping(j)

\* The whole file is read and parsed before anything is dropped: one without
\* its end, or that another restore has deleted, raises here.
OpenFile(j) ==
  /\ pc[j] = "open"
  /\ \/ ~cut[j] /\ BeginDropping(j)
     \/ /\ cut[j]
        /\ End(j)
        /\ UNCHANGED <<db, existing, application, files, spent, restored, late>>

\* Mutant: only the documents the file holds are replaced.
DropKnown(j) ==
  /\ pc[j] = "drop"
  /\ \E c \in todo[j] :
       /\ Lowest(c, todo[j])
       /\ db' = db \ (upload[j].docs \cap In(c))
       /\ existing' = existing
  /\ restored' = TRUE
  /\ Goto(j, "insert")
  /\ UNCHANGED <<application, files, upload, cut, name, names, file, todo, spent, late,
                 touched, alone>>

\* drop() of the next collection of the file.
DropColl(j) ==
  /\ pc[j] = "drop"
  /\ \E c \in todo[j] :
       /\ Lowest(c, todo[j])
       /\ db' = db \ In(c)
       /\ existing' = existing \ {c}
  /\ restored' = TRUE
  /\ Goto(j, "insert")
  /\ UNCHANGED <<application, files, upload, cut, name, names, file, todo, spent, late,
                 touched, alone>>

\* insert_many() of the documents the file has for it.  An _id that is there
\* again, by another restore, makes it fail with some documents inserted.
InsertMany(j) ==
  /\ pc[j] = "insert"
  /\ \E c \in todo[j] :
       /\ Lowest(c, todo[j])
       /\ existing' = existing \cup {c}
       /\ LET docs == upload[j].docs \cap In(c) IN
          \/ /\ docs \cap db = {}
             /\ db' = db \cup docs
             /\ todo' = [todo EXCEPT ![j] = @ \ {c}]
             /\ Goto(j, IF todo[j] = {c} THEN "restored" ELSE "drop")
             /\ UNCHANGED <<upload, cut, name, names, file, touched, alone>>
          \/ /\ docs \cap db # {}
             /\ \E some \in SUBSET docs : db' = db \cup some
             /\ End(j)
  /\ UNCHANGED <<application, files, spent, restored, late>>

\* restore_success.html
Finish(j) ==
  /\ pc[j] = "restored"
  /\ End(j)
  /\ UNCHANGED <<db, existing, application, files, spent, restored, late>>

\* Mutant: a failed auto-backup does not keep the restore from going on.
FailOnward(j) ==
  /\ pc[j] \notin {"idle", "restored"}
  /\ spent.faults < MaxFaults
  /\ spent' = [spent EXCEPT !.faults = @ + 1]
  /\ \/ pc[j] = "read" /\ Restoring(j) /\ Goto(j, "open")
        /\ UNCHANGED <<upload, cut, name, names, file, todo, touched, alone>>
     \/ ~(pc[j] = "read" /\ Restoring(j)) /\ End(j)
  /\ UNCHANGED <<db, existing, application, files, restored, late>>

\* MongoDB or the disk fails, or the process dies: the job is given up where it
\* is.  A dump that raises closes its file, which can be read and lacks what was
\* not read yet; one that dies leaves a file without its end.  A restore may
\* stop in an insert_many after some of the documents.
Fail(j) ==
  /\ pc[j] \notin {"idle", "restored"}
  /\ spent.faults < MaxFaults
  /\ spent' = [spent EXCEPT !.faults = @ + 1]
  /\ \/ /\ Dumping(j) /\ UNCHANGED <<db, existing>>
        /\ \/ Close(j, FALSE)
           \/ /\ disk' \in {disk, [disk EXCEPT ![name[j]] = NoFile]}
              /\ UNCHANGED <<saved, second, mixed, overwritten>>
     \/ /\ pc[j] \in {"open", "drop"} /\ UNCHANGED <<db, existing, files>>
     \/ /\ pc[j] = "insert" /\ UNCHANGED files
        /\ \E c \in todo[j] :
             /\ Lowest(c, todo[j])
             /\ \E some \in SUBSET (upload[j].docs \cap In(c)) :
                  /\ db' = db \cup some
                  /\ existing' = existing \cup Named(some)
  /\ End(j)
  /\ UNCHANGED <<application, restored, late>>

Step(j) ==
  \/ run_backup(j)
  \/ restore_confirm(j)
  \/ ListNames(j)
  \/ ReadColl(j)
  \/ Save(j)
  \/ OpenFile(j)
  \/ DropColl(j)
  \/ InsertMany(j)
  \/ Finish(j)
  \/ Fail(j)

Next ==
  \/ \E d \in Doc : Write(d) \/ ClearOne(d)
  \/ \E j \in Job : Step(j)

Spec == Init /\ [][Next]_vars

-----------------------------------------------------------------------------
(***************************************************************************)
(*                               Properties                                *)
(***************************************************************************)
Labels == {"idle", "list", "read", "open", "drop", "insert", "restored"}

\* Type correctness; only a restore that has read its file to the end writes.
TypeOK ==
  /\ db \subseteq Doc
  /\ existing \subseteq Coll
  /\ Named(db) \subseteq existing
  /\ ever \subseteq Doc
  /\ cleared \subseteq ever
  /\ saved \subseteq File
  /\ disk \in [Name -> saved \cup {NoFile}]
  /\ second \in 0..spent.jobs
  /\ mixed \subseteq Name
  /\ overwritten \subseteq Doc
  /\ name \in [Job -> Name \cup {0}]
  /\ \A j \in Job : Dumping(j) => name[j] # 0
  /\ pc \in [Job -> Labels]
  /\ upload \in [Job -> saved \cup {NoFile}]
  /\ cut \in [Job -> BOOLEAN]
  /\ names \in [Job -> SUBSET Coll]
  /\ file \in [Job -> SUBSET Doc]
  /\ todo \in [Job -> SUBSET Coll]
  /\ \A j \in Job : Writing(j) => Restoring(j) /\ ~cut[j]
  /\ spent \in [jobs: 0..MaxJobs, faults: 0..MaxFaults]
  /\ restored \in BOOLEAN
  /\ late \subseteq Doc
  /\ touched \in [Job -> SUBSET Doc]
  /\ alone \in [Job -> BOOLEAN]

\* "Auto-backup runs before any db.drop() operation": whatever was written is
\* in the database, was deleted by the application, or is in a backup file that
\* is there and can be read, unless it was written while a restore was under
\* way, or is in a dump that shared its name with another one of its second.
\* However restores overlap, fail half-way or are repeated.
NothingIsLost == \A d \in ever : d \in db \cup cleared \cup late \cup overwritten \/ OnDisk(d)

\* A dump is not a snapshot, but while nothing has been restored each token and
\* each QSO in one that was completed has its user in it, however the
\* application writes meanwhile.
DumpIsClosed == \A f \in saved : f.complete /\ f.pristine =>
  \A d \in f.docs : Needs[d] # NoDoc => Needs[d] \in f.docs

\* A restore that succeeds without another beside it has made every collection
\* its file names what it is in the file, but for what the application has
\* done to it meanwhile.  Collections the file does not name are left alone.
RestoreIsExact == \A j \in Job :
  pc[j] = "restored" /\ alone[j] =>
    \A d \in Doc \ touched[j] :
      Home[d] \in Named(upload[j].docs) => (d \in db <=> d \in upload[j].docs)
=============================================================================
