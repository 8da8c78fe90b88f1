---------------------------- MODULE AclogManager ----------------------------
(***************************************************************************)
(* app/aclog/manager.py: one task scans the profiles every scan_seconds    *)
(* and keeps one client task (run_aclog_bridge) per enabled bridge, and    *)
(* stop() takes all of it down when the application shuts down.            *)
(*                                                                         *)
(* What makes this hard is asyncio cancellation.  Cancelling a task that   *)
(* awaits another task cancels that one; a CancelledError stops at the     *)
(* first handler that catches it; and an exception raised in a finally     *)
(* block replaces it.  Each await is a step boundary here.  A cancellation *)
(* asked of a client task is delivered by a later step (Cancelled), so the *)
(* connection may still change under it.                                   *)
(***************************************************************************)
EXTENDS FiniteSets, Naturals

CONSTANTS
  Bridge,      \* the saved bridge rows, "<user id>:<bridge id>"
  Signature,   \* (host, port, name) of an enabled row
  Off,         \* the row is disabled or gone, or its operator is disabled
  Task,        \* asyncio tasks that may run run_aclog_bridge
  NoTask,
  MaxEdits,    \* bound on the edits of bridge rows
  MaxFaults    \* bound on failed profile scans and on broken connections

ASSUME ManagerAssumption ==
  /\ Off \notin Signature /\ NoTask \notin Task
  /\ MaxEdits \in Nat /\ MaxFaults \in Nat

VARIABLES
  profile,   \* the bridge rows in the database
  bridges,   \* ACLogBridgeManager._bridges
  work,      \* each task: what it serves and where run_aclog_bridge stands
  asked,     \* tasks with a cancellation not yet delivered
  mgr,       \* where _run and reconcile stand
  waiting,   \* the task _stop_bridge awaits
  desired,   \* reconcile's local `desired`
  left,      \* keys of `desired` its second loop still has to visit
  life,      \* the lifespan: "up", in stop(), or "down"
  edits, faults

vars == <<profile, bridges, work, asked, mgr, waiting, desired, left, life, edits, faults>>

-----------------------------------------------------------------------------

Row == Signature \cup {Off}

(* run_aclog_bridge: dialing or sleeping before the next attempt; connected;
   connected over a transport that already failed, so that wait_closed()
   will raise; in the finally block after an end of file; ended. *)
Unused == "unused"
Alive == {"dialing", "connected", "broken", "closing"}

Idle == [state |-> Unused]
Client(b, s, where) == [state |-> where, key |-> b, signature |-> s]
Running == {t \in Task : work[t].state \in Alive}

Init ==
  /\ profile \in [Bridge -> Row]
  /\ bridges = [b \in Bridge |-> NoTask]
  /\ work = [t \in Task |-> Idle]
  /\ asked = {} /\ waiting = NoTask
  /\ mgr = "scan" /\ desired = [b \in Bridge |-> Off] /\ left = {}
  /\ life = "up" /\ edits = 0 /\ faults = 0

-----------------------------------------------------------------------------
(* The operator saves the bridge rows, or an administrator disables them.  *)

EditRow(b, s) ==
  /\ edits < MaxEdits /\ profile[b] # s
  /\ profile' = [profile EXCEPT ![b] = s] /\ edits' = edits + 1
  /\ UNCHANGED <<bridges, work, asked, mgr, waiting, desired, left, life, faults>>

-----------------------------------------------------------------------------
(* run_aclog_bridge *)

Goes(t, from, to) ==
  /\ work[t].state = from
  /\ work' = [work EXCEPT ![t].state = to]
  /\ UNCHANGED <<profile, bridges, asked, mgr, waiting, desired, left, life, edits>>

Connect(t) == t \notin asked /\ Goes(t, "dialing", "connected") /\ UNCHANGED faults
EndOfFile(t) == t \notin asked /\ Goes(t, "connected", "closing") /\ UNCHANGED faults
Closed(t) == t \notin asked /\ Goes(t, "closing", "dialing") /\ UNCHANGED faults
Breaks(t) == faults < MaxFaults /\ Goes(t, "connected", "broken") /\ faults' = faults + 1

(* readline or a handler raises, and so does wait_closed(): caught, retried. *)
Retry(t) == t \notin asked /\ Goes(t, "broken", "dialing") /\ UNCHANGED faults

(* CancelledError is thrown at the await.  The finally block closes the
   writer; when the transport had failed, wait_closed() raises that error in
   place of the cancellation, and `except Exception` retries: the task lives. *)
AfterCancel(w) == IF w.state = "broken" THEN [w EXCEPT !.state = "dialing"]
                  ELSE [w EXCEPT !.state = "done"]

(* Mutant: the task can be cancelled again by the same request. *)
CancelledTwice(t) ==
  /\ t \in asked
  /\ work' = [work EXCEPT ![t] = AfterCancel(@)]
  /\ UNCHANGED <<profile, bridges, asked, mgr, waiting, desired, left, life, edits, faults>>

Cancelled(t) ==
  /\ t \in asked
  /\ work' = [work EXCEPT ![t] = AfterCancel(@)]
  /\ asked' = asked \ {t}
  /\ UNCHANGED <<profile, bridges, mgr, waiting, desired, left, life, edits, faults>>

-----------------------------------------------------------------------------
(* ACLogBridgeManager._run and reconcile *)

(* Mutant: reconcile remembers the rows of earlier scans. *)
ScanAdding ==
  /\ mgr = "scan" /\ mgr' = "drop"
  /\ desired' = [b \in Bridge |-> IF profile[b] = Off THEN desired[b] ELSE profile[b]]
  /\ UNCHANGED <<profile, bridges, work, asked, waiting, left, life, edits, faults>>

Scan ==
  /\ mgr = "scan" /\ mgr' = "drop"
  /\ desired' = profile
  /\ UNCHANGED <<profile, bridges, work, asked, waiting, left, life, edits, faults>>

ScanFails ==
  /\ mgr = "scan" /\ faults < MaxFaults
  /\ mgr' = "sleep" /\ faults' = faults + 1
  /\ UNCHANGED <<profile, bridges, work, asked, waiting, desired, left, life, edits>>

Dropping == mgr = "drop" /\ waiting = NoTask      \* in its first loop
Starting == mgr = "start" /\ waiting = NoTask     \* in its second

_stop_bridge(b) ==
  /\ bridges[b] # NoTask
  /\ bridges' = [bridges EXCEPT ![b] = NoTask]
  /\ waiting' = bridges[b]
  /\ asked' = asked \cup ({bridges[b]} \cap Running)
  /\ UNCHANGED <<profile, work, mgr, desired, left, life, edits, faults>>

(* Mutant: _stop_bridge cancels the task and does not await it. *)
StoppedAtOnce ==
  /\ waiting # NoTask /\ waiting' = NoTask
  /\ UNCHANGED <<profile, bridges, work, asked, mgr, desired, left, life, edits, faults>>

(* `await managed.task` returns, or raises the CancelledError that is caught. *)
Stopped ==
  /\ waiting # NoTask /\ work[waiting].state = "done"
  /\ waiting' = NoTask
  /\ work' = [work EXCEPT ![waiting] = Idle]
  /\ UNCHANGED <<profile, bridges, asked, mgr, desired, left, life, edits, faults>>

Stale == {b \in Bridge : bridges[b] # NoTask /\ desired[b] = Off}

Drop == Dropping /\ \E b \in Stale : _stop_bridge(b)

Dropped ==
  /\ Dropping /\ Stale = {}
  /\ mgr' = "start" /\ left' = {b \in Bridge : desired[b] # Off}
  /\ UNCHANGED <<profile, bridges, work, asked, waiting, desired, life, edits, faults>>

(* Mutant: any live client will do, whatever its signature. *)
ServingAtAll(b) == bridges[b] \in Running

Serving(b) == LET t == bridges[b] IN
  t \in Running /\ work[t].signature = desired[b]

Keep(b) ==
  /\ Starting /\ b \in left /\ bridges[b] # NoTask /\ Serving(b)
  /\ left' = left \ {b}
  /\ UNCHANGED <<profile, bridges, work, asked, mgr, waiting, desired, life, edits, faults>>

Replace(b) == Starting /\ b \in left /\ bridges[b] # NoTask /\ ~Serving(b) /\ _stop_bridge(b)

Start(b) ==
  /\ Starting /\ b \in left /\ bridges[b] = NoTask
  /\ \E t \in Task :
       /\ work[t] = Idle
       /\ work' = [work EXCEPT ![t] = Client(b, desired[b], "dialing")]
       /\ bridges' = [bridges EXCEPT ![b] = t]
  /\ left' = left \ {b}
  /\ UNCHANGED <<profile, asked, mgr, waiting, desired, life, edits, faults>>

Rest ==
  /\ Starting /\ left = {} /\ mgr' = "sleep"
  /\ UNCHANGED <<profile, bridges, work, asked, waiting, desired, left, life, edits, faults>>

Wake ==
  /\ mgr = "sleep" /\ mgr' = "scan"
  /\ UNCHANGED <<profile, bridges, work, asked, waiting, desired, left, life, edits, faults>>

-----------------------------------------------------------------------------
(* ACLogBridgeManager.stop *)

(* cancel() of the manager's task.  While it awaits a client the cancellation
   goes to that client, and _stop_bridge swallows it when it comes back. *)
StopManager ==
  /\ life = "up" /\ life' = "stopping"
  /\ IF waiting = NoTask
     THEN mgr' = "done" /\ UNCHANGED asked
     ELSE asked' = asked \cup ({waiting} \cap Running) /\ UNCHANGED mgr
  /\ UNCHANGED <<profile, bridges, work, waiting, desired, left, edits, faults>>

Managed == {bridges[b] : b \in Bridge} \ {NoTask}

(* Mutant: stop() waits for the clients without cancelling them. *)
StopBridgesQuietly ==
  /\ life = "stopping" /\ mgr = "done" /\ life' = "closing"
  /\ UNCHANGED <<profile, bridges, work, asked, mgr, waiting, desired, left, edits, faults>>

StopBridges ==
  /\ life = "stopping" /\ mgr = "done" /\ life' = "closing"
  /\ asked' = asked \cup (Managed \cap Running)
  /\ UNCHANGED <<profile, bridges, work, mgr, waiting, desired, left, edits, faults>>

(* Mutant: stop() cancels the clients and does not await them. *)
DownAtOnce ==
  /\ life = "closing" /\ life' = "down" /\ bridges' = [b \in Bridge |-> NoTask]
  /\ UNCHANGED <<profile, work, asked, mgr, waiting, desired, left, edits, faults>>

Down ==
  /\ life = "closing" /\ \A t \in Managed : work[t].state = "done"
  /\ life' = "down" /\ bridges' = [b \in Bridge |-> NoTask]
  /\ UNCHANGED <<profile, work, asked, mgr, waiting, desired, left, edits, faults>>

-----------------------------------------------------------------------------

Client_step(t) == Connect(t) \/ EndOfFile(t) \/ Closed(t) \/ Breaks(t) \/ Retry(t) \/ Cancelled(t)

Visit(b) == Keep(b) \/ Replace(b) \/ Start(b)

Manage ==
  \/ Scan \/ Drop \/ Dropped \/ Rest \/ Wake \/ Stopped
  \/ \E b \in Bridge : Visit(b)

Next ==
  \/ \E b \in Bridge, s \in Row : EditRow(b, s)
  \/ \E t \in Task : Client_step(t)
  \/ Manage \/ ScanFails
  \/ StopManager \/ StopBridges \/ Down

Spec == Init /\ [][Next]_vars

(* The event loop runs every ready task: the manager, a cancelled client and
   stop() all go on.  Nobody has to edit a row, lose a connection or shut down. *)
FairSpec ==
  /\ Spec
  /\ WF_vars(Manage) /\ WF_vars(StopBridges) /\ WF_vars(Down)
  /\ \A t \in Task : WF_vars(Cancelled(t))

-----------------------------------------------------------------------------
(* Properties *)

TypeOK ==
  /\ profile \in [Bridge -> Row]
  /\ bridges \in [Bridge -> Task \cup {NoTask}]
  /\ work \in [Task -> {Idle} \cup
        [state : Alive \cup {"done"}, key : Bridge, signature : Signature]]
  /\ asked \subseteq Running
  /\ mgr \in {"scan", "drop", "start", "sleep", "done"}
  /\ waiting \in Task \cup {NoTask}
  /\ desired \in [Bridge -> Row] /\ left \subseteq Bridge
  /\ life \in {"up", "stopping", "closing", "down"}
  /\ edits \in 0..MaxEdits /\ faults \in 0..MaxFaults

(* A saved bridge never has two clients at once, however its row is edited
   while the manager replaces one: two would ingest every contact twice over. *)
OneClientPerBridge ==
  \A t, u \in Running : work[t].key = work[u].key => t = u

(* A client task that runs can be reached: it is registered under its own key,
   or _stop_bridge is waiting for it.  None outlives stop(). *)
NoOrphan ==
  /\ \A t \in Running : t = waiting \/ bridges[work[t].key] = t
  /\ life = "down" => Running = {}

Served(b, s) ==
  IF s = Off THEN \A t \in Running : work[t].key # b
  ELSE bridges[b] \in Running /\ work[bridges[b]].signature = s

(* When reconcile is over, the clients are exactly those the rows it read ask
   for: no disabled row is still served, none is served at an old address. *)
ReconciledExactly == mgr = "sleep" => \A b \in Bridge : Served(b, desired[b])

(* A cancellation is on its way to a client whose transport has failed. *)
Wedged == \E t \in asked : work[t].state = "broken"

(* Rows that stay as they are get the clients they ask for, and keep them, as
   long as no cancellation meets a broken connection. *)
EditsReachBridges ==
  []~Wedged => \A b \in Bridge, s \in Row :
    <>[](profile[b] = s /\ life = "up") => <>[]Served(b, s)

(* stop() comes to its end once it has ended the manager's task, as long as no
   cancellation meets a broken connection. *)
ShutdownCompletes ==
  []~Wedged => ((life = "stopping" /\ mgr = "done") ~> (life = "down"))

(* The same for every connection, as docs/operator-guide/aclog-bridges.md has
   it: "Per-user bridge changes take effect on the next scan interval." *)
EditsTakeEffect == \A b \in Bridge, s \in Row :
  <>[](profile[b] = s /\ life = "up") => <>[]Served(b, s)
=============================================================================
