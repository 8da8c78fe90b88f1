-------------------------- MODULE AclogManagerProofs --------------------------
(***************************************************************************)
(* Proofs about AclogManager for any number of bridges, signatures, tasks, *)
(* edits and faults: no bridge ever has two client tasks, no client task   *)
(* is ever out of the manager's reach, and every reconcile leaves exactly  *)
(* the clients its rows ask for.                                           *)
(***************************************************************************)
EXTENDS AclogManager, TLAPS

ClientWork == [state : Alive \cup {"done"}, key : Bridge, signature : Signature]

(* A registered task was started for the key it is registered under. *)
KeysAgree == \A b \in Bridge : bridges[b] # NoTask =>
  work[bridges[b]] \in ClientWork /\ work[bridges[b]].key = b

(* The awaited task was taken out of the registry, and its place is empty. *)
AwaitedIsOut == waiting # NoTask =>
  /\ work[waiting] \in ClientWork
  /\ bridges[work[waiting].key] = NoTask
  /\ mgr \in {"drop", "start"}

Reached == \A t \in Running : t = waiting \/ bridges[work[t].key] = t

(* Until stop() is past the manager, only the awaited client is cancelled. *)
OnlyAwaitedAsked ==
  IF life \in {"closing", "down"} THEN mgr = "done" ELSE asked \subseteq {waiting}

(* How far reconcile has brought the registry. *)
Placed(b) == IF desired[b] = Off THEN bridges[b] = NoTask ELSE Serving(b)

InPlace ==
  /\ mgr \in {"scan", "sleep"} => \A b \in Bridge : Placed(b)
  /\ mgr = "start" =>
       /\ \A b \in Bridge \ left : Placed(b)
       /\ \A b \in left : desired[b] # Off
       /\ waiting # NoTask => work[waiting].key \in left

IInv ==
  /\ TypeOK /\ KeysAgree /\ AwaitedIsOut /\ Reached /\ OnlyAwaitedAsked /\ InPlace
  /\ life = "down" => Running = {}

-----------------------------------------------------------------------------

LEMMA IdleIsNotRunning == \A w \in {Idle} \cup ClientWork :
  w.state \in Alive \cup {"done"} => w \in ClientWork
BY DEF Idle, ClientWork, Unused, Alive

LEMMA IdleState == Idle.state \notin Alive \cup {"done"} /\ Idle \notin ClientWork
BY DEF Idle, ClientWork, Unused, Alive

LEMMA InitIInv == Init => IInv
<1> SUFFICES ASSUME Init PROVE IInv
  OBVIOUS
<1> USE ManagerAssumption
<1>1. Running = {}
  BY IdleState DEF Init, Running
<1>2. TypeOK
  BY <1>1 DEF Init, TypeOK, Row
<1>3. KeysAgree /\ AwaitedIsOut /\ OnlyAwaitedAsked
  BY DEF Init, KeysAgree, AwaitedIsOut, OnlyAwaitedAsked
<1>4. Reached
  BY <1>1 DEF Reached
<1>5. InPlace
  BY DEF Init, InPlace, Placed
<1> QED
  BY <1>1, <1>2, <1>3, <1>4, <1>5 DEF IInv

(* A client task changes its own state: from alive to alive, or to done when
   its cancellation is delivered. *)
Moves(t, to) ==
  /\ work' = [work EXCEPT ![t].state = to]
  /\ UNCHANGED <<profile, bridges, mgr, waiting, desired, left, life, edits>>
  /\ faults' \in 0..MaxFaults
  /\ \/ to \in Alive /\ UNCHANGED asked
     \/ to \in Alive \cup {"done"} /\ t \in asked /\ asked' = asked \ {t}

LEMMA ClientMoves ==
  ASSUME IInv, NEW t \in Task, Client_step(t)
  PROVE  t \in Running /\ \E to : Moves(t, to)
<1> USE ManagerAssumption DEF Moves
<1>1. TypeOK
  BY DEF IInv
<1>2. CASE Connect(t)
  BY <1>1, <1>2 DEF Connect, Goes, Running, Alive, TypeOK
<1>3. CASE EndOfFile(t)
  BY <1>1, <1>3 DEF EndOfFile, Goes, Running, Alive, TypeOK
<1>4. CASE Closed(t)
  BY <1>1, <1>4 DEF Closed, Goes, Running, Alive, TypeOK
<1>5. CASE Breaks(t)
  <2>1. faults' \in 0..MaxFaults
    BY <1>1, <1>5 DEF Breaks, TypeOK
  <2>2. t \in Running /\ work' = [work EXCEPT ![t].state = "broken"]
    BY <1>5 DEF Breaks, Goes, Running, Alive
  <2>3. UNCHANGED <<profile, bridges, mgr, waiting, desired, left, life, edits, asked>>
    BY <1>5 DEF Breaks, Goes
  <2> QED
    BY <2>1, <2>2, <2>3 DEF Alive
<1>6. CASE Retry(t)
  BY <1>1, <1>6 DEF Retry, Goes, Running, Alive, TypeOK
<1>7. CASE Cancelled(t)
  <2>1. work' = [work EXCEPT ![t].state = IF @ = "broken" THEN "dialing" ELSE "done"]
    BY <1>7 DEF Cancelled, AfterCancel
  <2> QED
    BY <1>1, <1>7, <2>1 DEF Cancelled, Running, Alive, TypeOK
<1> QED
  BY <1>2, <1>3, <1>4, <1>5, <1>6, <1>7 DEF Client_step

LEMMA ClientKeeps ==
  ASSUME IInv, NEW t \in Task, Client_step(t)
  PROVE  IInv'
<1>1. PICK to : t \in Running /\ Moves(t, to)
  BY ClientMoves
<1> USE ManagerAssumption
<1>2. TypeOK
  BY DEF IInv
<1>3. work \in [Task -> {Idle} \cup ClientWork]
  BY <1>2 DEF TypeOK, ClientWork
<1>4. work[t] \in ClientWork /\ work[t].state \in Alive
  BY <1>1, <1>3, IdleIsNotRunning DEF Running
<1>5. to \in Alive \cup {"done"}
  BY <1>1 DEF Moves
<1>6. /\ work'[t] \in ClientWork
      /\ work'[t].state = to /\ work'[t].key = work[t].key
      /\ work'[t].signature = work[t].signature
  BY <1>1, <1>3, <1>4, <1>5 DEF Moves, ClientWork
<1>7. \A u \in Task : u # t => work'[u] = work[u]
  BY <1>1, <1>3 DEF Moves
<1>8. work' \in [Task -> {Idle} \cup ClientWork]
  BY <1>1, <1>3, <1>6, <1>7 DEF Moves
<1>9. /\ \A u \in Task : u # t => (u \in Running' <=> u \in Running)
      /\ t \in Running' <=> to \in Alive
      /\ Running' \subseteq Running
  BY <1>1, <1>6, <1>7 DEF Running
<1>10. asked' \subseteq Running'
  <2>1. asked \subseteq Running /\ Running \subseteq Task
    BY <1>2 DEF TypeOK, Running
  <2>2. asked' \subseteq asked /\ (t \in asked' => to \in Alive)
    BY <1>1 DEF Moves
  <2> QED
    BY <2>1, <2>2, <1>9
<1>11. TypeOK'
  BY <1>1, <1>2, <1>8, <1>10 DEF Moves, TypeOK, ClientWork
<1>12. \A u \in Task : work[u] \in ClientWork =>
         work'[u] \in ClientWork /\ work'[u].key = work[u].key
                                 /\ work'[u].signature = work[u].signature
  BY <1>6, <1>7
<1>13. UNCHANGED <<bridges, mgr, waiting, desired, left, life>>
  BY <1>1 DEF Moves
<1>14. KeysAgree' /\ AwaitedIsOut'
  <2>1. KeysAgree'
    BY <1>2, <1>12, <1>13 DEF IInv, KeysAgree, TypeOK
  <2>2. AwaitedIsOut'
    BY <1>2, <1>12, <1>13 DEF IInv, AwaitedIsOut, TypeOK
  <2> QED
    BY <2>1, <2>2
<1>15. Reached'
  <2> SUFFICES ASSUME NEW u \in Running' PROVE u = waiting' \/ bridges'[work'[u].key] = u
    BY DEF Reached
  <2>1. u \in Running /\ u \in Task
    BY <1>9 DEF Running
  <2>2. work'[u].key = work[u].key
    BY <1>6, <1>7, <2>1
  <2> QED
    BY <2>1, <2>2, <1>13 DEF IInv, Reached
<1>16. OnlyAwaitedAsked'
  BY <1>1, <1>13 DEF Moves, IInv, OnlyAwaitedAsked
<1>17. InPlace'
  <2>1. \A b \in Bridge : life \in {"up", "stopping"} /\ Placed(b) => Placed(b)'
    <3> SUFFICES ASSUME NEW b \in Bridge, life \in {"up", "stopping"}, Placed(b), desired[b] # Off
                 PROVE  Serving(b)'
      BY <1>13 DEF Placed
    <3>1. bridges[b] \in Running /\ work[bridges[b]].signature = desired[b]
      BY DEF Placed, Serving
    <3>2. CASE bridges[b] = t
      <4>1. t # waiting
        BY <3>1, <3>2, <1>4, <1>2 DEF IInv, AwaitedIsOut, KeysAgree, TypeOK
      <4>2. to \in Alive
        BY <4>1, <1>1 DEF Moves, IInv, OnlyAwaitedAsked
      <4> QED
        BY <3>1, <3>2, <4>2, <1>6, <1>9, <1>13 DEF Serving
    <3>3. CASE bridges[b] # t
      BY <3>1, <3>3, <1>7, <1>9, <1>13 DEF Serving, Running
    <3> QED
      BY <3>2, <3>3
  <2>2. mgr # "done" => life \in {"up", "stopping"}
    BY <1>2 DEF IInv, OnlyAwaitedAsked, TypeOK
  <2>3. waiting # NoTask => work'[waiting].key = work[waiting].key
    BY <1>2, <1>6, <1>7 DEF TypeOK
  <2> QED
    BY <2>1, <2>2, <2>3, <1>13 DEF IInv, InPlace
<1>18. life' = "down" => Running' = {}
  BY <1>9, <1>13 DEF IInv
<1> QED
  BY <1>11, <1>14, <1>15, <1>16, <1>17, <1>18 DEF IInv

-----------------------------------------------------------------------------
(* reconcile and stop *)

(* Steps that leave every client alone keep Running and what it says. *)
LEMMA StopBridgeKeeps ==
  ASSUME IInv, NEW b \in Bridge, _stop_bridge(b),
         Dropping \/ (Starting /\ b \in left)
  PROVE  IInv'
<1> USE ManagerAssumption
<1>1. /\ TypeOK /\ bridges[b] \in Task /\ bridges[b] # NoTask
      /\ waiting' = bridges[b] /\ waiting = NoTask
      /\ bridges' = [bridges EXCEPT ![b] = NoTask]
      /\ UNCHANGED <<profile, work, mgr, desired, left, life, edits, faults>>
      /\ asked' = asked \cup ({bridges[b]} \cap Running)
  BY DEF IInv, TypeOK, _stop_bridge, Dropping, Starting
<1>2. Running' = Running /\ Running \subseteq Task
  BY <1>1 DEF Running
<1>3. \A c \in Bridge : bridges'[c] = IF c = b THEN NoTask ELSE bridges[c]
  BY <1>1 DEF TypeOK
<1>4. TypeOK'
  <2>1. asked' \subseteq Running'
    BY <1>1, <1>2 DEF TypeOK
  <2>2. bridges' \in [Bridge -> Task \cup {NoTask}]
    BY <1>1 DEF TypeOK
  <2>3. work' \in [Task -> {Idle} \cup
           [state : Alive \cup {"done"}, key : Bridge, signature : Signature]]
    BY <1>1 DEF TypeOK
  <2> QED
    BY <1>1, <2>1, <2>2, <2>3 DEF TypeOK, Row
<1>5. KeysAgree'
  BY <1>1, <1>3 DEF IInv, KeysAgree
<1>6. work[bridges[b]] \in ClientWork /\ work[bridges[b]].key = b
  BY <1>1 DEF IInv, KeysAgree
<1>7. AwaitedIsOut'
  BY <1>1, <1>3, <1>6 DEF AwaitedIsOut, Dropping, Starting
<1>8. Reached'
  <2> SUFFICES ASSUME NEW u \in Running PROVE u = waiting' \/ bridges'[work[u].key] = u
    BY <1>1, <1>2 DEF Reached
  <2>1. u \in Task /\ u # NoTask
    BY <1>2
  <2>2. work[u].key \in Bridge
    BY <1>1, <2>1, IdleIsNotRunning DEF TypeOK, ClientWork, Running
  <2> QED
    BY <1>1, <1>3, <2>1, <2>2 DEF IInv, Reached
<1>9. OnlyAwaitedAsked'
  <2>1. mgr # "done" /\ asked \subseteq {waiting}
    BY DEF IInv, OnlyAwaitedAsked, Dropping, Starting
  <2>2. asked = {}
    BY <1>1, <1>2, <2>1 DEF TypeOK
  <2>3. asked' \subseteq {waiting'}
    BY <1>1, <2>2
  <2> QED
    BY <1>1, <2>1, <2>3 DEF IInv, OnlyAwaitedAsked
<1>10. InPlace'
  <2>1. \A c \in Bridge : c # b /\ Placed(c) => Placed(c)'
    BY <1>1, <1>2, <1>3 DEF Placed, Serving
  <2>2. mgr' \in {"drop", "start"} /\ mgr' = mgr /\ left' = left /\ desired' = desired
    BY <1>1 DEF Dropping, Starting
  <2>3. CASE mgr = "start"
    <3>1. b \in left /\ \A c \in Bridge \ left : Placed(c)'
      BY <2>1, <2>3 DEF IInv, InPlace, Dropping, Starting
    <3>2. work'[waiting'].key \in left
      BY <1>1, <1>6, <3>1
    <3>3. \A c \in left : desired[c] # Off
      BY <2>3 DEF IInv, InPlace
    <3> QED
      BY <2>2, <2>3, <3>1, <3>2, <3>3 DEF InPlace
  <2>4. CASE mgr # "start"
    BY <2>2, <2>4 DEF InPlace
  <2> QED
    BY <2>3, <2>4
<1>11. life' = "down" => Running' = {}
  BY <1>1, <1>2 DEF IInv
<1> QED
  BY <1>4, <1>5, <1>7, <1>8, <1>9, <1>10, <1>11 DEF IInv

LEMMA StoppedKeeps ==
  ASSUME IInv, Stopped
  PROVE  IInv'
<1> USE ManagerAssumption
<1>1. /\ TypeOK /\ waiting \in Task /\ waiting # NoTask /\ waiting' = NoTask
      /\ work[waiting].state = "done" /\ work' = [work EXCEPT ![waiting] = Idle]
      /\ UNCHANGED <<profile, bridges, asked, mgr, desired, left, life, edits, faults>>
  BY DEF IInv, TypeOK, Stopped
<1>2. \A u \in Task : work'[u] = IF u = waiting THEN Idle ELSE work[u]
  BY <1>1 DEF TypeOK
<1>3. Running' = Running /\ waiting \notin Running /\ Running \subseteq Task
  BY <1>1, <1>2, IdleState DEF Running, Alive
<1>4. \A b \in Bridge : bridges[b] # waiting
  BY <1>1 DEF IInv, KeysAgree, AwaitedIsOut
<1>5. TypeOK'
  <2>1. work' \in [Task -> {Idle} \cup
           [state : Alive \cup {"done"}, key : Bridge, signature : Signature]]
    BY <1>1, <1>2 DEF TypeOK
  <2> QED
    BY <1>1, <1>3, <2>1 DEF TypeOK, Row
<1>6. KeysAgree'
  BY <1>1, <1>2, <1>4 DEF IInv, KeysAgree, TypeOK
<1>7. AwaitedIsOut'
  BY <1>1 DEF AwaitedIsOut
<1>8. Reached'
  BY <1>1, <1>2, <1>3 DEF IInv, Reached
<1>9. OnlyAwaitedAsked'
  <2>1. asked \subseteq Running
    BY <1>1 DEF TypeOK
  <2> QED
    BY <1>1, <1>3, <2>1 DEF IInv, OnlyAwaitedAsked
<1>10. InPlace'
  <2>1. \A b \in Bridge : Placed(b) => Placed(b)'
    BY <1>1, <1>2, <1>3 DEF Placed, Serving
  <2> QED
    BY <1>1, <2>1 DEF IInv, InPlace
<1>11. life' = "down" => Running' = {}
  BY <1>1, <1>3 DEF IInv
<1> QED
  BY <1>5, <1>6, <1>7, <1>8, <1>9, <1>10, <1>11 DEF IInv

LEMMA StartKeeps ==
  ASSUME IInv, NEW b \in Bridge, Start(b)
  PROVE  IInv'
<1> USE ManagerAssumption
<1>1. PICK t \in Task :
      /\ work[t] = Idle
      /\ work' = [work EXCEPT ![t] = Client(b, desired[b], "dialing")]
      /\ bridges' = [bridges EXCEPT ![b] = t]
  BY DEF Start
<1>2. /\ TypeOK /\ mgr = "start" /\ waiting = NoTask /\ b \in left /\ bridges[b] = NoTask
      /\ left' = left \ {b}
      /\ UNCHANGED <<profile, asked, mgr, waiting, desired, life, edits, faults>>
  BY DEF IInv, Start, Starting
<1>3. desired[b] \in Signature
  BY <1>2 DEF IInv, InPlace, TypeOK, Row
<1>4. /\ \A u \in Task : u # t => work'[u] = work[u]
      /\ work'[t] = Client(b, desired[b], "dialing")
      /\ \A c \in Bridge : bridges'[c] = IF c = b THEN t ELSE bridges[c]
  BY <1>1, <1>2 DEF TypeOK
<1>5. /\ work'[t] \in ClientWork /\ work'[t].state \in Alive
      /\ work'[t].key = b /\ work'[t].signature = desired[b]
  BY <1>3, <1>4 DEF Client, ClientWork, Alive
<1>6. Running' = Running \cup {t} /\ t \notin Running /\ Running \subseteq Task
  BY <1>1, <1>4, <1>5, IdleState DEF Running
<1>7. \A c \in Bridge : bridges[c] # t
  BY <1>1, IdleState DEF IInv, KeysAgree
<1>8. TypeOK'
  <2>1. work' \in [Task -> {Idle} \cup
           [state : Alive \cup {"done"}, key : Bridge, signature : Signature]]
    BY <1>1, <1>2, <1>4, <1>5 DEF TypeOK, ClientWork
  <2>2. bridges' \in [Bridge -> Task \cup {NoTask}]
    BY <1>1, <1>2 DEF TypeOK
  <2> QED
    BY <1>2, <1>6, <2>1, <2>2 DEF TypeOK, Row
<1>9. KeysAgree'
  <2> SUFFICES ASSUME NEW c \in Bridge, bridges'[c] # NoTask
               PROVE  work'[bridges'[c]] \in ClientWork /\ work'[bridges'[c]].key = c
    BY DEF KeysAgree
  <2>1. CASE c = b
    BY <2>1, <1>4, <1>5
  <2>2. CASE c # b
    BY <2>2, <1>2, <1>4, <1>7 DEF IInv, KeysAgree, TypeOK
  <2> QED
    BY <2>1, <2>2
<1>10. AwaitedIsOut'
  BY <1>2 DEF AwaitedIsOut
<1>11. Reached'
  <2> SUFFICES ASSUME NEW u \in Running' PROVE bridges'[work'[u].key] = u
    BY DEF Reached
  <2>1. CASE u = t
    BY <2>1, <1>4, <1>5
  <2>2. CASE u # t
    <3>1. u \in Running /\ u \in Task /\ bridges[work[u].key] = u /\ work'[u] = work[u]
      BY <2>2, <1>2, <1>4, <1>6 DEF IInv, Reached
    <3>2. work[u].key \in Bridge
      BY <1>2, <3>1, IdleIsNotRunning DEF TypeOK, ClientWork, Running
    <3> QED
      BY <3>1, <3>2, <1>2, <1>4
  <2> QED
    BY <2>1, <2>2
<1>12. OnlyAwaitedAsked'
  BY <1>2 DEF IInv, OnlyAwaitedAsked
<1>13. InPlace'
  <2>1. Placed(b)'
    BY <1>2, <1>3, <1>4, <1>5, <1>6 DEF Placed, Serving
  <2>2. \A c \in Bridge : c # b /\ Placed(c) => Placed(c)'
    BY <1>2, <1>4, <1>6, <1>7 DEF Placed, Serving
  <2> QED
    BY <1>2, <2>1, <2>2 DEF IInv, InPlace
<1>14. life' = "down" => Running' = {}
  BY <1>2 DEF IInv, OnlyAwaitedAsked
<1> QED
  BY <1>8, <1>9, <1>10, <1>11, <1>12, <1>13, <1>14 DEF IInv

(* The other steps change neither the clients nor the registry. *)
LEMMA BookkeepingKeeps ==
  ASSUME IInv, UNCHANGED <<work, bridges, waiting>>, TypeOK', OnlyAwaitedAsked',
         InPlace', waiting # NoTask => mgr' \in {"drop", "start"},
         life' = "down" => Running = {}
  PROVE  IInv'
<1>1. Running' = Running
  BY DEF Running
<1>2. KeysAgree' /\ AwaitedIsOut' /\ Reached'
  BY <1>1 DEF IInv, KeysAgree, AwaitedIsOut, Reached
<1> QED
  BY <1>1, <1>2 DEF IInv

LEMMA ManageKeeps ==
  ASSUME IInv, Manage
  PROVE  IInv'
<1> USE ManagerAssumption
<1>1. TypeOK
  BY DEF IInv
<1>3. CASE Scan
  <2>1. /\ UNCHANGED <<work, bridges, waiting, asked, life, left, profile, edits, faults>>
        /\ mgr = "scan" /\ mgr' = "drop" /\ desired' = profile
    BY <1>3 DEF Scan
  <2>2. waiting = NoTask
    BY <2>1 DEF IInv, AwaitedIsOut
  <2>3. TypeOK'
    BY <2>1, <1>1 DEF TypeOK, Running, Row
  <2>4. OnlyAwaitedAsked' /\ InPlace'
    BY <2>1 DEF IInv, OnlyAwaitedAsked, InPlace
  <2> QED
    BY <2>1, <2>2, <2>3, <2>4, BookkeepingKeeps DEF IInv
<1>4. CASE Drop
  <2>1. PICK b \in Bridge : _stop_bridge(b) /\ Dropping
    BY <1>4 DEF Drop, Stale
  <2> QED
    BY <2>1, StopBridgeKeeps
<1>5. CASE Dropped
  <2>1. /\ UNCHANGED <<work, bridges, waiting, asked, life, profile, desired, edits, faults>>
        /\ waiting = NoTask /\ mgr = "drop" /\ mgr' = "start" /\ Stale = {}
        /\ left' = {b \in Bridge : desired[b] # Off}
    BY <1>5 DEF Dropped, Dropping
  <2>2. \A b \in Bridge : desired[b] = Off => bridges[b] = NoTask
    BY <2>1 DEF Stale
  <2>3. \A b \in Bridge \ left' : Placed(b)'
    BY <2>1, <2>2 DEF Placed
  <2>4. InPlace'
    BY <2>1, <2>3 DEF InPlace
  <2>5. TypeOK' /\ OnlyAwaitedAsked'
    BY <2>1, <1>1 DEF IInv, TypeOK, Running, OnlyAwaitedAsked
  <2> QED
    BY <2>1, <2>4, <2>5, BookkeepingKeeps DEF IInv
<1>6. CASE Rest
  <2>1. /\ UNCHANGED <<work, bridges, waiting, asked, life, profile, desired, left, edits, faults>>
        /\ waiting = NoTask /\ mgr = "start" /\ mgr' = "sleep" /\ left = {}
    BY <1>6 DEF Rest, Starting
  <2>2. \A b \in Bridge : Placed(b)'
    BY <2>1 DEF IInv, InPlace, Placed, Serving, Running
  <2>3. TypeOK' /\ OnlyAwaitedAsked' /\ InPlace'
    BY <2>1, <2>2, <1>1 DEF IInv, TypeOK, Running, OnlyAwaitedAsked, InPlace
  <2> QED
    BY <2>1, <2>3, BookkeepingKeeps DEF IInv
<1>7. CASE Wake
  <2>1. /\ UNCHANGED <<work, bridges, waiting, asked, life, profile, desired, left, edits, faults>>
        /\ mgr = "sleep" /\ mgr' = "scan"
    BY <1>7 DEF Wake
  <2>2. waiting = NoTask
    BY <2>1 DEF IInv, AwaitedIsOut
  <2>3. \A b \in Bridge : Placed(b)'
    BY <2>1 DEF IInv, InPlace, Placed, Serving, Running
  <2>4. TypeOK' /\ OnlyAwaitedAsked' /\ InPlace'
    BY <2>1, <2>3, <1>1 DEF IInv, TypeOK, Running, OnlyAwaitedAsked, InPlace
  <2> QED
    BY <2>1, <2>2, <2>4, BookkeepingKeeps DEF IInv
<1>8. CASE Stopped
  BY <1>8, StoppedKeeps
<1>9. ASSUME NEW b \in Bridge, Visit(b)
      PROVE  IInv'
  <2>1. b \in left /\ Starting /\ mgr = "start"
    BY <1>9 DEF Visit, Keep, Replace, Start, Starting
  <2>2. CASE Keep(b)
    <3>1. /\ UNCHANGED <<work, bridges, waiting, asked, mgr, life, profile, desired, edits, faults>>
          /\ waiting = NoTask /\ Serving(b) /\ left' = left \ {b}
      BY <2>2 DEF Keep, Starting
    <3>2. \A c \in Bridge \ left' : Placed(c)'
      <4> SUFFICES ASSUME NEW c \in Bridge \ left' PROVE Placed(c)'
        OBVIOUS
      <4>1. Placed(c)
        <5>1. CASE c = b
          BY <5>1, <3>1, <2>1 DEF Placed, IInv, InPlace
        <5>2. CASE c # b
          BY <5>2, <3>1, <2>1 DEF IInv, InPlace
        <5> QED
          BY <5>1, <5>2
      <4> QED
        BY <4>1, <3>1 DEF Placed, Serving, Running
    <3>3. InPlace'
      BY <3>1, <3>2, <2>1 DEF IInv, InPlace
    <3>4. TypeOK' /\ OnlyAwaitedAsked'
      BY <3>1, <1>1 DEF IInv, TypeOK, Running, OnlyAwaitedAsked
    <3> QED
      BY <3>1, <3>3, <3>4, BookkeepingKeeps DEF IInv
  <2>3. CASE Replace(b)
    BY <2>3, <2>1, StopBridgeKeeps DEF Replace
  <2>4. CASE Start(b)
    BY <2>4, StartKeeps
  <2> QED
    BY <1>9, <2>2, <2>3, <2>4 DEF Visit
<1> QED
  BY <1>3, <1>4, <1>5, <1>6, <1>7, <1>8, <1>9 DEF Manage

LEMMA StopKeeps ==
  ASSUME IInv, StopManager \/ StopBridges \/ Down
  PROVE  IInv'
<1> USE ManagerAssumption
<1>1. TypeOK
  BY DEF IInv
<1>2. CASE StopManager
  <2>1. /\ UNCHANGED <<work, bridges, waiting, profile, desired, left, edits, faults>>
        /\ life = "up" /\ life' = "stopping"
        /\ IF waiting = NoTask THEN mgr' = "done" /\ asked' = asked
           ELSE mgr' = mgr /\ asked' = asked \cup ({waiting} \cap Running)
    BY <1>2 DEF StopManager
  <2>2. asked \subseteq Running
    BY <1>1 DEF TypeOK
  <2>3. TypeOK'
    BY <2>1, <1>1, <2>2 DEF TypeOK, Running
  <2>4. OnlyAwaitedAsked'
    BY <2>1 DEF IInv, OnlyAwaitedAsked
  <2>5. InPlace'
    <3>1. CASE waiting = NoTask
      BY <3>1, <2>1 DEF InPlace
    <3>2. CASE waiting # NoTask
      BY <3>2, <2>1 DEF IInv, InPlace, Placed, Serving, Running
    <3> QED
      BY <3>1, <3>2
  <2> QED
    BY <2>1, <2>3, <2>4, <2>5, BookkeepingKeeps DEF IInv, AwaitedIsOut
<1>3. CASE StopBridges
  <2>1. /\ UNCHANGED <<work, bridges, waiting, mgr, profile, desired, left, edits, faults>>
        /\ mgr = "done" /\ life' = "closing"
        /\ asked' = asked \cup (Managed \cap Running)
    BY <1>3 DEF StopBridges
  <2>2. TypeOK' /\ OnlyAwaitedAsked' /\ InPlace'
    BY <2>1, <1>1 DEF TypeOK, Running, OnlyAwaitedAsked, InPlace
  <2> QED
    BY <2>1, <2>2, BookkeepingKeeps DEF IInv, AwaitedIsOut
<1>4. CASE Down
  <2>1. /\ UNCHANGED <<work, asked, waiting, mgr, profile, desired, left, edits, faults>>
        /\ life = "closing" /\ life' = "down" /\ mgr = "done"
        /\ bridges' = [b \in Bridge |-> NoTask]
        /\ \A t \in Managed : work[t].state = "done"
    BY <1>4 DEF Down, IInv, OnlyAwaitedAsked
  <2>2. Running = {}
    <3> SUFFICES ASSUME NEW t \in Running PROVE FALSE
      OBVIOUS
    <3>1. t \in Task /\ t # NoTask /\ work[t].state # "done"
      BY DEF Running, Alive
    <3>2. waiting = NoTask
      BY <2>1 DEF IInv, AwaitedIsOut
    <3>3. bridges[work[t].key] = t
      BY <3>1, <3>2 DEF IInv, Reached
    <3>4. work[t].key \in Bridge
      BY <1>1, <3>1, IdleIsNotRunning DEF TypeOK, ClientWork, Running
    <3>5. t \in Managed
      BY <3>1, <3>3, <3>4 DEF Managed
    <3> QED
      BY <2>1, <3>1, <3>5
  <2>3. Running' = {}
    BY <2>1, <2>2 DEF Running
  <2>4. TypeOK'
    BY <2>1, <2>2, <2>3, <1>1 DEF TypeOK
  <2>5. KeysAgree' /\ AwaitedIsOut' /\ Reached' /\ OnlyAwaitedAsked' /\ InPlace'
    BY <2>1, <2>3 DEF IInv, KeysAgree, AwaitedIsOut, Reached, OnlyAwaitedAsked, InPlace
  <2> QED
    BY <2>1, <2>3, <2>4, <2>5 DEF IInv
<1> QED
  BY <1>2, <1>3, <1>4

LEMMA RestKeeps ==
  ASSUME IInv,
         \/ \E b \in Bridge, s \in Row : EditRow(b, s)
         \/ ScanFails
  PROVE  IInv'
<1> USE ManagerAssumption
<1>1. TypeOK
  BY DEF IInv
<1>2. ASSUME NEW b \in Bridge, NEW s \in Row, EditRow(b, s)
      PROVE  IInv'
  <2>1. /\ UNCHANGED <<work, bridges, waiting, asked, mgr, life, desired, left, faults>>
        /\ profile' = [profile EXCEPT ![b] = s] /\ edits' = edits + 1 /\ edits < MaxEdits
    BY <1>2 DEF EditRow
  <2>2. profile' \in [Bridge -> Row] /\ edits' \in 0..MaxEdits
    BY <2>1, <1>1 DEF TypeOK
  <2>3. TypeOK'
    BY <2>1, <2>2, <1>1 DEF TypeOK, Running
  <2>4. OnlyAwaitedAsked' /\ InPlace'
    BY <2>1 DEF IInv, OnlyAwaitedAsked, InPlace, Placed, Serving, Running
  <2> QED
    BY <2>1, <2>3, <2>4, BookkeepingKeeps DEF IInv, AwaitedIsOut
<1>3. CASE ScanFails
  <2>1. /\ UNCHANGED <<work, bridges, waiting, asked, life, profile, desired, left, edits>>
        /\ mgr = "scan" /\ mgr' = "sleep" /\ faults' = faults + 1 /\ faults < MaxFaults
    BY <1>3 DEF ScanFails
  <2>2. faults' \in 0..MaxFaults
    BY <2>1, <1>1 DEF TypeOK
  <2>3. TypeOK'
    BY <2>1, <2>2, <1>1 DEF TypeOK, Running
  <2>4. OnlyAwaitedAsked' /\ InPlace'
    BY <2>1 DEF IInv, OnlyAwaitedAsked, InPlace, Placed, Serving, Running
  <2> QED
    BY <2>1, <2>3, <2>4, BookkeepingKeeps DEF IInv, AwaitedIsOut
<1> QED
  BY <1>2, <1>3

LEMMA NextIInv == IInv /\ [Next]_vars => IInv'
<1> SUFFICES ASSUME IInv, [Next]_vars PROVE IInv'
  OBVIOUS
<1>1. CASE UNCHANGED vars
  <2>1. Running' = Running /\ Row' = Row
    BY <1>1 DEF vars, Running
  <2>2. TypeOK' /\ OnlyAwaitedAsked' /\ InPlace'
    BY <1>1, <2>1 DEF vars, IInv, TypeOK, OnlyAwaitedAsked, InPlace, Placed, Serving
  <2> QED
    BY <1>1, <2>2, BookkeepingKeeps DEF vars, IInv, AwaitedIsOut
<1>2. ASSUME NEW t \in Task, Client_step(t) PROVE IInv'
  BY <1>2, ClientKeeps
<1> QED
  BY <1>1, <1>2, ManageKeeps, StopKeeps, RestKeeps DEF Next

-----------------------------------------------------------------------------

LEMMA InvariantHolds == Spec => []IInv
<1>1. Init => IInv
  BY InitIInv
<1>2. IInv /\ [Next]_vars => IInv'
  BY NextIInv
<1> QED
  BY <1>1, <1>2, PTL DEF Spec

(* The registry, the awaited task and the tasks stay what they should be: in
   particular only a running client ever has a cancellation on its way. *)
THEOREM TypeCorrect == Spec => []TypeOK
<1>1. IInv => TypeOK
  BY DEF IInv
<1> QED
  BY <1>1, InvariantHolds, PTL

(* However rows are edited, connections break and the manager is cancelled, a
   client task is registered under its own key or being waited for, and none
   is left when stop() returns. *)
THEOREM NoClientIsOrphaned == Spec => []NoOrphan
<1>1. IInv => NoOrphan
  BY DEF IInv, Reached, NoOrphan
<1> QED
  BY <1>1, InvariantHolds, PTL

(* One saved bridge never has two client tasks. *)
THEOREM OneClient == Spec => []OneClientPerBridge
<1>1. IInv => OneClientPerBridge
  <2> SUFFICES ASSUME IInv, NEW t \in Running, NEW u \in Running, work[t].key = work[u].key
               PROVE  t = u
    BY DEF OneClientPerBridge
  <2>1. t \in Task /\ u \in Task /\ t # NoTask /\ u # NoTask
    BY ManagerAssumption DEF Running
  <2>2. waiting # NoTask => bridges[work[waiting].key] = NoTask
    BY DEF IInv, AwaitedIsOut
  <2> QED
    BY <2>1, <2>2 DEF IInv, Reached
<1> QED
  BY <1>1, InvariantHolds, PTL

(* A reconcile that is over has left exactly the clients its rows ask for. *)
THEOREM ReconcileIsExact == Spec => []ReconciledExactly
<1>1. IInv => ReconciledExactly
  <2> SUFFICES ASSUME IInv, mgr = "sleep", NEW b \in Bridge PROVE Served(b, desired[b])
    BY DEF ReconciledExactly
  <2>1. waiting = NoTask /\ Placed(b)
    BY DEF IInv, AwaitedIsOut, InPlace
  <2>2. CASE desired[b] = Off
    <3>1. bridges[b] = NoTask
      BY <2>1, <2>2 DEF Placed
    <3>2. \A t \in Running : t # NoTask /\ bridges[work[t].key] = t
      BY <2>1, ManagerAssumption DEF IInv, Reached, Running
    <3> QED
      BY <2>2, <3>1, <3>2 DEF Served
  <2>3. CASE desired[b] # Off
    BY <2>1, <2>3 DEF Placed, Serving, Served
  <2> QED
    BY <2>2, <2>3
<1> QED
  BY <1>1, InvariantHolds, PTL
-----------------------------------------------------------------------------
(* No await of the manager or of stop() is for a task that nobody ends.  This
   is the part of EditsReachBridges and ShutdownCompletes that is a safety
   property: under the fairness of Cancelled, what is asked ends, and then
   Stopped or Down is enabled.                                             *)

AwaitedEnds == waiting # NoTask => waiting \in asked \/ work[waiting].state = "done"

ManagedEnd == life = "closing" => \A t \in Managed : t \in asked \/ work[t].state = "done"

NothingBlocks == AwaitedEnds /\ ManagedEnd

(* A task that is asked stays so until it is done, unless its transport broke. *)
LEMMA AskedEnd ==
  ASSUME IInv, ~Wedged, NEW t \in Task, Client_step(t), NEW u \in Task,
         u \in asked \/ work[u].state = "done"
  PROVE  u \in asked' \/ work'[u].state = "done"
<1> USE DEF Goes
<1>1. TypeOK
  BY DEF IInv
<1>2. CASE u # t
  BY <1>1, <1>2 DEF Client_step, Connect, EndOfFile, Closed, Breaks, Retry, Cancelled, TypeOK
<1>3. CASE u = t /\ u \in asked
  <2>1. work[u].state # "broken" /\ work[u].state \in Alive
    BY <1>1, <1>3 DEF Wedged, TypeOK, Running
  <2>2. CASE Cancelled(t)
    <3>1. work[u] \in ClientWork
      BY <1>1, <2>1, IdleIsNotRunning DEF TypeOK, ClientWork
    <3>2. work'[u] = [work[u] EXCEPT !.state = "done"]
      BY <1>1, <1>3, <2>1, <2>2 DEF Cancelled, AfterCancel, TypeOK
    <3> QED
      BY <3>1, <3>2 DEF ClientWork
  <2>3. CASE Breaks(t)
    BY <1>3, <2>3 DEF Breaks
  <2> QED
    BY <1>3, <2>2, <2>3 DEF Client_step, Connect, EndOfFile, Closed, Retry
<1>4. CASE u = t /\ work[u].state = "done"
  BY <1>4, ClientMoves DEF Running, Alive
<1> QED
  BY <1>2, <1>3, <1>4

LEMMA ClientsBlockNothing ==
  ASSUME IInv, NothingBlocks, ~Wedged, NEW t \in Task, Client_step(t)
  PROVE  NothingBlocks'
<1>1. UNCHANGED <<bridges, waiting, life>>
  BY ClientMoves DEF Moves
<1>2. AwaitedEnds'
  BY <1>1, AskedEnd DEF NothingBlocks, AwaitedEnds, IInv, TypeOK
<1>3. ManagedEnd'
  <2>1. Managed \subseteq Task /\ Managed' = Managed
    BY <1>1 DEF Managed, IInv, TypeOK
  <2> QED
    BY <1>1, <2>1, AskedEnd DEF NothingBlocks, ManagedEnd
<1> QED
  BY <1>2, <1>3 DEF NothingBlocks

(* A registered client that does not run has ended. *)
LEMMA RegisteredRunOrEnded ==
  ASSUME IInv, NEW t \in Managed, t \notin Running
  PROVE  work[t].state = "done"
BY DEF IInv, TypeOK, KeysAgree, Managed, Running, ClientWork

LEMMA ManagerBlocksNothing ==
  ASSUME IInv, NothingBlocks, Manage \/ ScanFails
  PROVE  NothingBlocks'
<1>1. mgr # "done" => life \notin {"closing", "down"}
  BY DEF IInv, OnlyAwaitedAsked
<1>2. ASSUME NEW b \in Bridge, _stop_bridge(b), mgr \in {"drop", "start"}
      PROVE  NothingBlocks'
  <2>1. waiting' = bridges[b] /\ bridges[b] \in Managed /\ life' = life /\ work' = work
        /\ asked' = asked \cup ({bridges[b]} \cap Running)
    BY <1>2 DEF _stop_bridge, Managed
  <2> QED
    BY <2>1, <1>1, <1>2, RegisteredRunOrEnded DEF NothingBlocks, AwaitedEnds, ManagedEnd
<1>3. CASE Drop
  BY <1>2, <1>3 DEF Drop, Dropping, Stale
<1>4. CASE Stopped
  BY <1>1, <1>4 DEF Stopped, NothingBlocks, AwaitedEnds, ManagedEnd, IInv, AwaitedIsOut
<1>5. ASSUME NEW b \in Bridge, Start(b) PROVE NothingBlocks'
  BY <1>1, <1>5 DEF Start, Starting, NothingBlocks, AwaitedEnds, ManagedEnd
<1>6. ASSUME UNCHANGED <<bridges, work, asked, waiting, life>> PROVE NothingBlocks'
  BY <1>6 DEF NothingBlocks, AwaitedEnds, ManagedEnd, Managed
<1>7. ASSUME NEW b \in Bridge, Visit(b) PROVE NothingBlocks'
  BY <1>2, <1>5, <1>6, <1>7 DEF Visit, Keep, Replace, Starting
<1> QED
  BY <1>3, <1>4, <1>6, <1>7 DEF Manage, Scan, ScanFails, Dropped, Rest, Wake

LEMMA StopBlocksNothing ==
  ASSUME IInv, NothingBlocks, StopManager \/ StopBridges \/ Down
  PROVE  NothingBlocks'
<1>1. mgr = "done" => waiting = NoTask
  BY DEF IInv, AwaitedIsOut
<1>2. CASE StopManager
  BY <1>2 DEF StopManager, NothingBlocks, AwaitedEnds, ManagedEnd
<1>3. CASE StopBridges
  <2>1. UNCHANGED <<work, bridges, waiting>> /\ asked' = asked \cup (Managed \cap Running)
        /\ Managed' = Managed
    BY <1>3 DEF StopBridges, Managed
  <2> QED
    BY <1>1, <1>3, <2>1, RegisteredRunOrEnded
       DEF StopBridges, NothingBlocks, AwaitedEnds, ManagedEnd
<1>4. CASE Down
  BY <1>4 DEF Down, NothingBlocks, AwaitedEnds, ManagedEnd
<1> QED
  BY <1>2, <1>3, <1>4

(* As long as no cancellation meets a broken connection, every task that
   _stop_bridge or stop() awaits has a cancellation on its way or has ended:
   neither ever waits for a client that goes on. *)
THEOREM NoAwaitBlocks == Spec /\ []~Wedged => []NothingBlocks
<1>1. Init => NothingBlocks
  BY DEF Init, NothingBlocks, AwaitedEnds, ManagedEnd
<1>2. IInv /\ ~Wedged /\ NothingBlocks /\ [Next]_vars => NothingBlocks'
  <2> SUFFICES ASSUME IInv, ~Wedged, NothingBlocks, [Next]_vars PROVE NothingBlocks'
    OBVIOUS
  <2>1. ASSUME UNCHANGED <<bridges, work, asked, waiting, life>> PROVE NothingBlocks'
    BY <2>1 DEF NothingBlocks, AwaitedEnds, ManagedEnd, Managed
  <2>2. CASE \E b \in Bridge, s \in Row : EditRow(b, s)
    BY <2>1, <2>2 DEF EditRow
  <2>3. CASE UNCHANGED vars
    BY <2>1, <2>3 DEF vars
  <2> QED
    BY <2>2, <2>3, ClientsBlockNothing, ManagerBlocksNothing, StopBlocksNothing DEF Next
<1> QED
  BY <1>1, <1>2, InvariantHolds, PTL DEF Spec
=============================================================================
